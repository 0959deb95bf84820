--------------------------- MODULE MCAguiSession ---------------------------
(* Two runs of one key, the second of which may branch to a fresh key. *)
EXTENDS AguiSession

MCFreshOf == [r \in Run |-> IF r = "r2" THEN "f" ELSE None]
MCIdOf == [c \in Call |-> "m"]
MCRetryOf == [c \in Call |-> IF c = "c2" THEN "c1" ELSE None]
NoRetry == [c \in Call |-> None]
MCCasts ==
  {{"c1", "c2", "events", "fault"}, {"c1", "c2", "crash"}, {"c1", "c2", "events", "reserved"},
   {"c1", "x", "unattended"}, {"c1", "disconnect"},
   {"o", "fault", "unattended"}, {"o", "crash", "unattended"}, {"o", "branch"},
   {"s", "crash"}, {"s", "fault", "branch", "unattended"},
   {"x", "shutdown", "unattended", "branch", "repost", "fault"},
   {"disconnect", "shutdown", "branch", "repost", "events", "reserved"}}
Supplements == {{"c1", "c2"}}
=============================================================================
