--------------------------- MODULE MCProcessPool ---------------------------
(* A Thread and a fork of it that crash, and a Thread whose Agent is closed. *)
EXTENDS ProcessPool

CONSTANTS main, fork

MCParentOf == [t \in Thread |-> main]
Runs(m, n) == [t \in Thread |-> IF t = main THEN m ELSE n]
Forks == [provider : {"claude", "codebuddy", "codex"}, runs : {Runs(2, 1)}, crashes : {1}, closes : {0}, minted : {0}]
Closes == [provider : {"claude", "codebuddy"}, runs : {Runs(2, 0)}, crashes : {0}, closes : {2}, minted : {1}]
ForksAndCloses == Forks \cup Closes
CodexCloses == [provider : {"codex"}, runs : {Runs(2, 0)}, crashes : {0}, closes : {2}, minted : {1}]
=============================================================================
