--------------------------- MODULE MCTeamExecution ---------------------------
(* A scope with one member, which may be delegated to once. *)
EXTENDS TeamExecution

CONSTANTS h1, h2, t1, m1

MCMemberOf == [t \in Task |-> m1]
MCMaxActive == [m \in Member |-> 1]

\* One host message, whose leader uses every tool on a member that asks and reports.
Busy == [hosts |-> {h1}, calls |-> {"delegate", "send", "cancel"}, acts |-> {"ask", "text"},
         turns |-> 2, runs |-> 1, faults |-> {"giveUp", "admission"}]
\* A second host message meets a leader that delegates.
TwoHosts == [Busy EXCEPT !.hosts = {h1, h2}, !.calls = {"delegate"}, !.acts = {}]
\* Two executions of the scope, the first of which may die.
Restarts == [hosts |-> {h1}, calls |-> {"delegate"}, acts |-> {"approval", "resumed"},
             turns |-> 1, runs |-> 2, faults |-> {"crash", "cancel", "lease"}]
MCScenes == {Busy, TwoHosts, Restarts}
==============================================================================
