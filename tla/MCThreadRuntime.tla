--------------------------- MODULE MCThreadRuntime ---------------------------
(* Small instances: two Agents on one key, or a Thread and its fork. *)
EXTENDS ThreadRuntime

CONSTANTS a, b, k, child

\* Executions of t turns, f failures, and failed Finalize calls that were applied if d.
Agents(t, f, d) ==
  [key |-> [r \in Runtime |-> k], fork |-> [r \in Runtime |-> None],
   modes |-> [r \in Runtime |-> {"start"}], sends |-> [r \in Runtime |-> IF r = a THEN 2 ELSE 1],
   turns |-> t, faults |-> f, ambiguous |-> d, standbys |-> {a}]
Fork ==
  [key |-> [r \in Runtime |-> IF r = a THEN k ELSE child],
   fork |-> [r \in Runtime |-> IF r = a THEN None ELSE k],
   modes |-> [r \in Runtime |-> IF r = a THEN {"start"} ELSE {"fork", "resume"}],
   sends |-> [r \in Runtime |-> 2],
   turns |-> 1, faults |-> 1, ambiguous |-> FALSE, standbys |-> {}]
MCScenes == {Fork, Agents(1, 1, FALSE), Agents(2, 1, TRUE), Agents(1, 2, TRUE)}
=============================================================================
