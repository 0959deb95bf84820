----------------------------- MODULE MCApproval -----------------------------
(* Two calls, a permission and a question, under policies of one retry. *)
EXTENDS Approval, TLC

CONSTANTS d1, d2

MCKindOf == d1 :> "permission" @@ d2 :> "question"
Ask == [mode |-> ("permission" :> "ask" @@ "question" :> "ask"),
        onReject |-> "abort", onTimeout |-> "retry", maxRetries |-> 1, retry |-> TRUE]
MCPolicies == {Ask,
  [Ask EXCEPT !.onReject = "retry", !.onTimeout = "continue"],
  [Ask EXCEPT !.onReject = "retry", !.onTimeout = "abort", !.retry = FALSE],
  [Ask EXCEPT !.mode = ("permission" :> "approve" @@ "question" :> "reject")],
  [Ask EXCEPT !.mode = ("permission" :> "reject" @@ "question" :> "reject"), !.onReject = "retry"]}
=============================================================================
