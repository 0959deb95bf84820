---------------------------- MODULE MCInvocation ----------------------------
(***************************************************************************)
(* Small executions: a prompt p, supplemental messages a, b, c and the     *)
(* wrap-up instruction w.  MsgOf, TimingOf and UnitsOf are restricted to   *)
(* the messages and calls a configuration uses.                            *)
(***************************************************************************)
EXTENDS Invocation, TLC

CONSTANTS p, a, b, c, w, s1, s2, s3, WrapUnits

MCMsgOf == Restrict(s1 :> a @@ s2 :> b @@ s3 :> a, Sender)
\* Of the second message and the repetition of the first, one is sent.
TwoCalls == pc[s2] = "idle" \/ pc[s3] = "idle"
Mixed == Restrict(p :> "soon" @@ a :> "soon" @@ b :> "interrupt" @@ c :> "after", Msg)
AllSoon == [m \in Msg |-> "soon"]
MCUnitsOf == Restrict(p :> 1 @@ a :> 2 @@ b :> 2 @@ c :> 1 @@ w :> WrapUnits, All)
Nobody == {}
Caller1AndRun == {s1, NoSender}
Wide == [inRun |-> TRUE, interrupt |-> TRUE, maxUnits |-> 0,
         boundaries |-> {"tool", "stop"}]
NoWrap == [Wide EXCEPT !.maxUnits = 9]
MayInterrupt == {NoWrap, [NoWrap EXCEPT !.interrupt = FALSE]}
Tight == [Wide EXCEPT !.maxUnits = 5]
Resolved == {Tight}
=============================================================================
