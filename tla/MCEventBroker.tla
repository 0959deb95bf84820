---------------------------- MODULE MCEventBroker ----------------------------
(* Small instances of the event broker: two producers, every kind of broker. *)
EXTENDS EventBroker

CONSTANTS p1, p2

MixedPlans == (p1 :> <<"delta", "critical", "delta">> @@ p2 :> <<"reliable", "delta">>)
AllModes ==
  {[blocking |-> FALSE, discardUnsubscribed |-> FALSE],
   [blocking |-> TRUE, discardUnsubscribed |-> FALSE],
   [blocking |-> FALSE, discardUnsubscribed |-> TRUE]}
=============================================================================
