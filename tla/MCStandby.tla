------------------------------ MODULE MCStandby ------------------------------
(***************************************************************************)
(* The instance of Standby: two messages, one of them sent twice, the      *)
(* second time with execution options.                                     *)
(***************************************************************************)
EXTENDS Standby

CONSTANTS a, b, s1, s2, s3

MCMsgOf == [s \in Sender |-> IF s = s2 THEN b ELSE a]
==============================================================================
