-------------------------- MODULE ProcessLifecycle --------------------------
(***************************************************************************)
(* What a Driver with persistent processes promises the Agent               *)
(* (ProcessLifecycleDriver, driver/driver.go): processes come and go until  *)
(* the Agent is released, which takes a CloseProcesses that returned nil    *)
(* with every process stopped, and nothing is started after that.           *)
(***************************************************************************)
EXTENDS FiniteSets

CONSTANT Process

VARIABLES
  running,   \* provider processes alive
  released   \* credentials and the Tool endpoint may be revoked

Init == running = {} /\ released = FALSE

Start == ~released /\ \E p \in Process \ running :
           running' = running \cup {p} /\ UNCHANGED released
End == running' \in SUBSET running /\ UNCHANGED released
Release == running = {} /\ released' = TRUE /\ UNCHANGED running

Next == Start \/ End \/ Release
Spec == Init /\ [][Next]_<<running, released>>
=============================================================================
