--------------------------- MODULE ApprovalProofs ---------------------------
(***************************************************************************)
(* What RequestDecision promises, for any calls, kinds and policies and    *)
(* any number of requests.                                                 *)
(*                                                                         *)
(* The argument: an attempt's request is its own, so an open responder     *)
(* belongs to exactly one dispatch that is still under way; every way out  *)
(* of a dispatch looks at the responder and closes it in one step, except  *)
(* for a callback that returned without an answer, which is told apart by  *)
(* how it returned.                                                        *)
(***************************************************************************)
EXTENDS Approval, TLAPS

\* Where a dispatch has an open request.
Asking == {"publish", "wait", "handling", "unresolved"}

Types ==
  /\ policy \in Policies /\ made \in 0 .. MaxReqs
  /\ pc \in [Call -> {"idle", "lock", "dispatch", "consumer", "decided", "returned"} \cup Asking]
  /\ current \in [Call -> Req \cup {None}]
  /\ decision \in [Call -> {"none", "approved", "answered", "rejected", "timedOut", "aborted"}]
  /\ ret \in [Call -> [result : {"none", "approved", "answered", "rejected", "timedOut", "aborted"},
                       err : {"none", "abort", "cause"}]]
  /\ state \in [Req -> {"none", "pending", "responded", "expired"}]
  /\ resp \in [Req -> {"none", "approved", "answered", "rejected"}]
  /\ handler \in [Req -> {"none", "running", "nil", "error", "panic"}]

\* Requests are numbered in the order they are made.
Numbered ==
  /\ \A c \in Call : current[c] <= made
  /\ \A q \in Req : made < q => state[q] = "none"
\* A request belongs to one call.
OneOwner == \A c, d \in Call : current[c] # None /\ current[c] = current[d] => c = d
\* An open request belongs to a dispatch that is under way.
OpenOwned ==
  \A q \in Req : state[q] = "pending" => \E c \in Call : current[c] = q /\ pc[c] \in Asking
\* A responder that resolved has its response.
Recorded == \A q \in Req : state[q] = "responded" => resp[q] # "none"
\* Where a call is tells whether it has a request.
Placed ==
  \A c \in Call : /\ pc[c] \in Asking => current[c] # None
                  /\ pc[c] \in {"idle", "lock"} => current[c] = None
                  /\ pc[c] = "unresolved" => handler[current[c]] = "nil"
Requests == Numbered /\ OneOwner /\ OpenOwned /\ Recorded /\ Placed

\* What a dispatch returned is what its responder recorded, if it recorded anything.
Honoured ==
  \A c \in Call : pc[c] = "decided" =>
    /\ current[c] # None /\ state[current[c]] = "responded" =>
         \/ decision[c] = resp[current[c]]
         \/ decision[c] = "aborted" /\ handler[current[c]] \in {"nil", "error", "panic"}
    /\ decision[c] \in {"approved", "answered"} =>
         /\ current[c] # None /\ state[current[c]] = "responded"
         /\ decision[c] = resp[current[c]]

IInv == Types /\ Requests /\ Honoured /\ ReturnsJustified

-----------------------------------------------------------------------------
\* Nothing has been asked.
LEMMA InitInv == Init => IInv
<1> SUFFICES ASSUME Init PROVE IInv
  BY Zenon
<1>1. Types
  BY ApprovalAssumption DEF Init, Types, Asking, Req, None
<1>2. Requests /\ Honoured /\ ReturnsJustified
  BY ApprovalAssumption DEF Init, Requests, Numbered, OneOwner, OpenOwned, Recorded, Placed,
    Honoured, ReturnsJustified, Asking, None
<1> QED  BY <1>1, <1>2, Zenon DEF IInv

\* A new request is nobody else's, and its call is asking.
LEMMA NewRequestInv ==
  ASSUME IInv, NEW c \in Call, pc[c] \in {"dispatch", "consumer"},
         NEW h \in {"none", "running"}, NEW at \in {"publish", "handling"}, NewRequest(c, h, at)
  PROVE  IInv'
<1> USE DEF IInv, Req
<1>1. made' \in Req /\ made' = made + 1 /\ made' # None /\ made \in Nat
  BY ApprovalAssumption DEF Types, NewRequest, None
<1>2. Types'
  BY <1>1, ApprovalAssumption DEF Types, Asking, NewRequest, Goto, hostVars
<1>3. current' = [current EXCEPT ![c] = made'] /\ state' = [state EXCEPT ![made'] = "pending"]
      /\ pc' = [pc EXCEPT ![c] = at] /\ handler' = [handler EXCEPT ![made'] = h]
      /\ UNCHANGED <<policy, decision, ret, resp, failure>>
  BY Zenon DEF NewRequest, Goto, failVars
<1>4. \A d \in Call : current[d] \in Nat /\ current[d] < made'
  <2> SUFFICES ASSUME NEW d \in Call PROVE current[d] \in Nat /\ current[d] < made'
    BY Zenon
  <2>1. current[d] \in Req \cup {None} /\ current[d] <= made
    BY Zenon DEF Types, Requests, Numbered, OneOwner, OpenOwned, Recorded, Placed
  <2> QED  BY <1>1, <2>1 DEF None
<1>5. Requests'
  <2>1. \A d \in Call : current'[d] <= made'
    BY <1>1, <1>3, <1>4 DEF Types
  <2>0. \A q \in Req : /\ made' < q => state'[q] = "none"
                       /\ state'[q] = "responded" => resp'[q] # "none"
    BY <1>1, <1>3 DEF Types, Requests, Numbered, OneOwner, OpenOwned, Recorded, Placed
  <2>2. \A d, e \in Call : current'[d] # None /\ current'[d] = current'[e] => d = e
    BY <1>1, <1>3, <1>4 DEF Types, Requests, Numbered, OneOwner, OpenOwned, Recorded, Placed, None
  <2>3. ASSUME NEW q \in Req, state'[q] = "pending"
        PROVE  \E d \in Call : current'[d] = q /\ pc'[d] \in Asking
    BY <1>1, <1>3, <2>3 DEF Types, Requests, Numbered, OneOwner, OpenOwned, Recorded, Placed,
      Asking
  <2>4. ASSUME NEW d \in Call
        PROVE  /\ pc'[d] \in Asking => current'[d] # None
               /\ pc'[d] \in {"idle", "lock"} => current'[d] = None
               /\ pc'[d] = "unresolved" => handler'[current'[d]] = "nil"
    BY <1>1, <1>3, <1>4 DEF Types, Requests, Numbered, OneOwner, OpenOwned, Recorded, Placed,
      Asking, None
  <2>5. \A q \in Req : state'[q] = "pending" => \E d \in Call : current'[d] = q /\ pc'[d] \in Asking
    BY <2>3, Zenon
  <2>6. \A d \in Call : /\ pc'[d] \in Asking => current'[d] # None
                        /\ pc'[d] \in {"idle", "lock"} => current'[d] = None
                        /\ pc'[d] = "unresolved" => handler'[current'[d]] = "nil"
    BY <2>4, Zenon
  <2> HIDE DEF IInv, Req
  <2>7. Numbered' /\ Recorded'
    BY <2>0, <2>1, Zenon DEF Numbered, Recorded
  <2>8. OneOwner' /\ OpenOwned'
    BY <2>2, <2>5, Zenon DEF OneOwner, OpenOwned
  <2>9. Placed'
    BY <2>6, Zenon DEF Placed
  <2> QED  BY <2>7, <2>8, <2>9, Zenon DEF Requests
<1>6. Honoured'
  BY <1>1, <1>3, <1>4 DEF Types, Honoured, None
<1>7. ReturnsJustified'
  BY <1>1, <1>3, <1>4 DEF Types, ReturnsJustified, None
<1> QED  BY <1>2, <1>5, <1>6, <1>7, Zenon

\* An attempt that asks nobody has no request, and no answer.
LEMMA UnaskedInv ==
  ASSUME IInv, NEW c \in Call, pc[c] \in {"dispatch", "consumer"},
         NEW r \in {"timedOut", "aborted"}, Unasked(c, r)
  PROVE  IInv'
<1> USE DEF IInv
<1>1. Types'
  BY Zenon DEF Types, Asking, None, Unasked, Goto, reqVars
<1>2. Requests'
  <2>1. current' = [current EXCEPT ![c] = None] /\ pc' = [pc EXCEPT ![c] = "decided"]
        /\ UNCHANGED <<state, resp, handler, made>>
    BY Zenon DEF Unasked, Goto, reqVars
  <2>2. None <= made
    BY DEF Types, None
  <2>3. \A d \in Call : current'[d] <= made'
    BY <2>1, <2>2 DEF Types, Requests, Numbered, OneOwner, OpenOwned, Recorded, Placed
  <2>4. \A d, e \in Call : current'[d] # None /\ current'[d] = current'[e] => d = e
    BY <2>1 DEF Types, Requests, Numbered, OneOwner, OpenOwned, Recorded, Placed
  <2>5. ASSUME NEW q \in Req, state'[q] = "pending"
        PROVE  \E d \in Call : current'[d] = q /\ pc'[d] \in Asking
    <3>1. PICK d \in Call : current[d] = q /\ pc[d] \in Asking
      BY <2>1, <2>5, Zenon DEF Requests, Numbered, OneOwner, OpenOwned, Recorded, Placed
    <3>2. d # c
      BY <3>1, Zenon DEF Asking
    <3> QED  BY <2>1, <3>1, <3>2, Zenon DEF Types
  <2>6. ASSUME NEW d \in Call
        PROVE  /\ pc'[d] \in Asking => current'[d] # None
               /\ pc'[d] \in {"idle", "lock"} => current'[d] = None
               /\ pc'[d] = "unresolved" => handler'[current'[d]] = "nil"
    BY <2>1 DEF Types, Requests, Numbered, OneOwner, OpenOwned, Recorded, Placed, Asking
  <2> QED  BY <2>1, <2>3, <2>4, <2>5, <2>6, Zenon DEF Requests, Numbered, OneOwner, OpenOwned, Recorded,
    Placed
<1>3. Honoured'
  BY DEF Types, Honoured, None, Unasked, Goto, reqVars
<1>4. ReturnsJustified'
  BY DEF Types, ReturnsJustified, None, Unasked, Goto, reqVars, failVars
<1> QED  BY <1>1, <1>2, <1>3, <1>4, Zenon

\* A dispatch ends: it closes its responder, and returns what that recorded or,
\* when the callback is to blame, that the run is aborted.
LEMMA DecidedInv ==
  ASSUME IInv, NEW c \in Call, pc[c] \in Asking,
         NEW r \in {"approved", "answered", "rejected", "timedOut", "aborted"}, Decided(c, r),
         state' = Expired({current[c]}), UNCHANGED resp,
         failure # "none" => failure' # "none",
         state[current[c]] = "responded" =>
           \/ r = resp[current[c]]
           \/ r = "aborted" /\ handler[current[c]] \in {"nil", "error", "panic"},
         r \in {"approved", "answered"} =>
           state[current[c]] = "responded" /\ r = resp[current[c]]
  PROVE  IInv'
<1> USE DEF IInv
<1>1. current[c] \in Req /\ current[c] # None
  BY DEF Types, Requests, Numbered, OneOwner, OpenOwned, Recorded, Placed
<1>2. state' \in [Req -> {"none", "pending", "responded", "expired"}]
      /\ \A q \in Req : /\ q # current[c] => state'[q] = state[q]
                        /\ state'[q] = "responded" <=> state[q] = "responded"
                        /\ state'[current[c]] # "pending"
  BY <1>1, Zenon DEF Types, Expired
<1>3. pc' = [pc EXCEPT ![c] = "decided"] /\ decision' = [decision EXCEPT ![c] = r]
      /\ UNCHANGED <<policy, current, ret, handler, made, resp>>
  BY Zenon DEF Decided, Goto
<1>4. Types'
  <2>1. pc' \in [Call -> {"idle", "lock", "dispatch", "consumer", "decided", "returned"} \cup Asking]
    BY <1>3, Zenon DEF Types
  <2>2. decision' \in [Call -> {"none", "approved", "answered", "rejected", "timedOut", "aborted"}]
    <3>1. decision \in [Call -> {"none", "approved", "answered", "rejected", "timedOut", "aborted"}]
      BY Zenon DEF Types
    <3>2. r \in {"none", "approved", "answered", "rejected", "timedOut", "aborted"}
      BY Zenon
    <3> HIDE DEF IInv
    <3> QED  BY <1>3, <3>1, <3>2
  <2>3. /\ policy \in Policies /\ made \in 0 .. MaxReqs /\ current \in [Call -> Req \cup {None}]
        /\ ret \in [Call -> [result : {"none", "approved", "answered", "rejected", "timedOut", "aborted"},
                              err : {"none", "abort", "cause"}]]
        /\ resp \in [Req -> {"none", "approved", "answered", "rejected"}]
        /\ handler \in [Req -> {"none", "running", "nil", "error", "panic"}]
    BY Zenon DEF Types
  <2> HIDE DEF IInv
  <2> QED  BY <1>2, <1>3, <2>1, <2>2, <2>3, ZenonT(40) DEF Types
<1>5. Requests'
  <2>1. /\ \A d \in Call : current'[d] <= made'
        /\ \A d, e \in Call : current'[d] # None /\ current'[d] = current'[e] => d = e
    BY <1>3, Zenon DEF Requests, Numbered, OneOwner, OpenOwned, Recorded, Placed
  <2>2. \A q \in Req : /\ made' < q => state'[q] = "none"
                       /\ state'[q] = "responded" => resp'[q] # "none"
    BY <1>1, <1>2, <1>3 DEF Requests, Numbered, OneOwner, OpenOwned, Recorded, Placed, Expired
  <2>3. ASSUME NEW q \in Req, state'[q] = "pending"
        PROVE  \E d \in Call : current'[d] = q /\ pc'[d] \in Asking
    <3>1. q # current[c] /\ state[q] = "pending"
      BY <1>1, <1>2, <2>3, Zenon
    <3>2. PICK d \in Call : current[d] = q /\ pc[d] \in Asking
      BY <3>1, Zenon DEF Requests, Numbered, OneOwner, OpenOwned, Recorded, Placed
    <3> QED  BY <1>3, <3>1, <3>2, Zenon DEF Types
  <2>4. ASSUME NEW d \in Call
        PROVE  /\ pc'[d] \in Asking => current'[d] # None
               /\ pc'[d] \in {"idle", "lock"} => current'[d] = None
               /\ pc'[d] = "unresolved" => handler'[current'[d]] = "nil"
    BY <1>3 DEF Types, Requests, Numbered, OneOwner, OpenOwned, Recorded, Placed, Asking
  <2>5. \A q \in Req : state'[q] = "pending" => \E d \in Call : current'[d] = q /\ pc'[d] \in Asking
    BY <2>3, Zenon
  <2>6. \A d \in Call : /\ pc'[d] \in Asking => current'[d] # None
                        /\ pc'[d] \in {"idle", "lock"} => current'[d] = None
                        /\ pc'[d] = "unresolved" => handler'[current'[d]] = "nil"
    BY <2>4, Zenon
  <2> HIDE DEF IInv, Req
  <2>7. Numbered' /\ Recorded'
    BY <2>1, <2>2, Zenon DEF Numbered, Recorded
  <2>8. OneOwner' /\ OpenOwned'
    BY <2>1, <2>5, Zenon DEF OneOwner, OpenOwned
  <2>9. Placed'
    BY <2>6, Zenon DEF Placed
  <2> QED  BY <2>7, <2>8, <2>9, Zenon DEF Requests
<1>8. \A d \in Call : current[d] # None => current[d] \in Req
  BY Zenon DEF Types
<1>6. Honoured'
  <2> SUFFICES ASSUME NEW d \in Call, pc'[d] = "decided"
               PROVE  /\ current'[d] # None /\ state'[current'[d]] = "responded" =>
                           \/ decision'[d] = resp'[current'[d]]
                           \/ /\ decision'[d] = "aborted"
                              /\ handler'[current'[d]] \in {"nil", "error", "panic"}
                      /\ decision'[d] \in {"approved", "answered"} =>
                           /\ current'[d] # None /\ state'[current'[d]] = "responded"
                           /\ decision'[d] = resp'[current'[d]]
    BY Zenon DEF Honoured
  <2>1. CASE d = c
    <3>1. current'[d] = current[c] /\ decision'[d] = r
      BY <1>3, <2>1, Zenon DEF Types
    <3>2. state'[current[c]] = "responded" <=> state[current[c]] = "responded"
      BY <1>1, <1>2, Zenon
    <3>3. resp' = resp /\ handler' = handler
      BY <1>3, Zenon
    <3> HIDE DEF IInv
    <3> QED  BY <1>1, <3>1, <3>2, <3>3, Zenon
  <2>2. CASE d # c
    <3>1. pc[d] = "decided" /\ decision'[d] = decision[d] /\ current'[d] = current[d]
      BY <1>3, <2>2, Zenon DEF Types
    <3>2. current[d] # None => (state'[current[d]] = "responded" <=> state[current[d]] = "responded")
      BY <1>2, <1>8, Zenon
    <3>3. Honoured
      BY Zenon
    <3> HIDE DEF IInv
    <3> QED  BY <1>3, <3>1, <3>2, <3>3 DEF Honoured
  <2> QED  BY <2>1, <2>2, Zenon
<1>7. ReturnsJustified'
  <2> SUFFICES ASSUME NEW d \in Call, pc'[d] = "returned"
               PROVE  /\ ret'[d].result \in {"approved", "answered"} =>
                           \/ policy'.mode[KindOf[d]] = "approve" /\ current'[d] = None
                           \/ /\ current'[d] # None /\ state'[current'[d]] = "responded"
                              /\ resp'[current'[d]] = ret'[d].result
                      /\ ret'[d].err = "abort" => failure' # "none"
    BY Zenon DEF ReturnsJustified
  <2>1. pc[d] = "returned"
    BY <1>3, Zenon DEF Types
  <2>2. current[d] # None => (state'[current[d]] = "responded" <=> state[current[d]] = "responded")
    BY <1>2, <1>8, Zenon
  <2> QED  BY <1>3, <2>1, <2>2, Zenon DEF ReturnsJustified
<1> QED  BY <1>4, <1>5, <1>6, <1>7, Zenon

\* A call that has no open request moves on without one.
LEMMA MovedRequests ==
  ASSUME Types, Requests, NEW c \in Call, NEW at, pc' = [pc EXCEPT ![c] = at],
         UNCHANGED <<current, state, resp, handler, made>>, pc[c] \notin Asking, at \notin Asking,
         at \in {"idle", "lock"} => current[c] = None
  PROVE  Requests'
<1>1. pc'[c] = at /\ \A d \in Call : d # c => pc'[d] = pc[d]
  BY Zenon DEF Types
<1>2. Numbered' /\ OneOwner' /\ Recorded'
  BY Zenon DEF Requests, Numbered, OneOwner, Recorded
<1>3. OpenOwned'
  BY <1>1, Zenon DEF Requests, OpenOwned
<1>4. Placed'
  <2> SUFFICES ASSUME NEW d \in Call
               PROVE  /\ pc'[d] \in Asking => current'[d] # None
                      /\ pc'[d] \in {"idle", "lock"} => current'[d] = None
                      /\ pc'[d] = "unresolved" => handler'[current'[d]] = "nil"
    BY Zenon DEF Placed
  <2>1. CASE d = c
    <3>1. at # "unresolved"
      BY Zenon DEF Asking
    <3> QED  BY <1>1, <2>1, <3>1, Zenon
  <2>2. CASE d # c
    BY <1>1, <2>2, Zenon DEF Requests, Placed
  <2> QED  BY <2>1, <2>2, Zenon
<1> QED  BY <1>2, <1>3, <1>4, Zenon DEF Requests

\* The call returns.
LEMMA UnlockedInv ==
  ASSUME IInv, NEW c \in Call, pc[c] \in {"lock", "decided"},
         NEW r \in {"approved", "answered", "rejected", "timedOut", "aborted"},
         NEW e \in {"none", "abort", "cause"}, Unlocked(c, r, e),
         UNCHANGED <<policy, current, decision, reqVars>>,
         failure # "none" \/ e = "abort" => failure' # "none",
         r \in {"approved", "answered"} =>
           \/ pc[c] = "decided" /\ decision[c] = r
           \/ pc[c] = "lock" /\ policy.mode[KindOf[c]] = "approve"
  PROVE  IInv'
<1> USE DEF IInv
<1>1. pc' = [pc EXCEPT ![c] = "returned"] /\ ret' = [ret EXCEPT ![c] = [result |-> r, err |-> e]]
      /\ UNCHANGED <<policy, current, decision, state, resp, handler, made>>
  BY Zenon DEF Unlocked, reqVars
<1>2. Types'
  BY <1>1, Zenon DEF Types, Asking
<1>2a. Requests'
  <2>1. pc[c] \notin Asking /\ "returned" \notin Asking /\ "returned" \notin {"idle", "lock"}
    BY Zenon DEF Asking
  <2> QED  BY <1>1, <2>1, MovedRequests, Zenon
<1>2b. Honoured'
  <2>1. \A d \in Call : pc'[d] = "decided" => pc[d] = "decided"
    BY <1>1, Zenon DEF Types
  <2>2. Honoured
    BY Zenon
  <2> HIDE DEF IInv
  <2> QED  BY <1>1, <2>1, <2>2 DEF Honoured
<1>3. Requests' /\ Honoured'
  BY <1>2a, <1>2b, Zenon
<1>4. ReturnsJustified'
  BY <1>1 DEF Types, Requests, Numbered, OneOwner, OpenOwned, Recorded, Placed, Honoured,
    ReturnsJustified
<1> QED  BY <1>2, <1>3, <1>4, Zenon

\* A recorded failure is not taken back.
LEMMA FailureKept == ASSUME NEW code, code # "none", setPendingFailure(code) PROVE failure' # "none"
BY Zenon DEF setPendingFailure, failVars

\* A call begins.
LEMMA RequestInv == ASSUME IInv, NEW c \in Call, Request(c) PROVE IInv'
<1> USE DEF IInv
<1>1. Types'
  BY ApprovalAssumption, Zenon DEF Types, Asking, Request, Goto, callVars, reqVars, failVars, hostVars
<1>2. Requests'
  <2>1. /\ pc[c] \notin Asking /\ "lock" \notin Asking /\ current[c] = None
        /\ pc' = [pc EXCEPT ![c] = "lock"] /\ UNCHANGED <<current, state, resp, handler, made>>
    BY Zenon DEF Asking, Request, Goto, reqVars, Requests, Placed
  <2> QED  BY <2>1, MovedRequests, Zenon
<1>3. Honoured'
  BY DEF Types, Requests, Numbered, OneOwner, OpenOwned, Recorded, Placed, Honoured, Asking,
    Request, Goto, callVars, reqVars, failVars, hostVars
<1>4. ReturnsJustified'
  BY DEF Types, Requests, Numbered, OneOwner, OpenOwned, Recorded, Placed, ReturnsJustified,
    Asking, Request, Goto, callVars, reqVars, failVars, hostVars
<1> QED  BY <1>1, <1>2, <1>3, <1>4, Zenon

\* Its turn comes.
LEMMA LockInv == ASSUME IInv, NEW c \in Call, Lock(c) PROVE IInv'
<1> USE DEF IInv
<1>1. Types'
  BY ApprovalAssumption, Zenon DEF Types, Asking, Lock, Goto, callVars, reqVars, failVars, hostVars
<1>2. Requests'
  BY DEF Types, Requests, Numbered, OneOwner, OpenOwned, Recorded, Placed, Asking, Lock, Goto,
    callVars, reqVars, failVars, hostVars
<1>3. Honoured'
  BY DEF Types, Requests, Numbered, OneOwner, OpenOwned, Recorded, Placed, Honoured, Asking,
    Lock, Goto, callVars, reqVars, failVars, hostVars
<1>4. ReturnsJustified'
  BY DEF Types, Requests, Numbered, OneOwner, OpenOwned, Recorded, Placed, ReturnsJustified,
    Asking, Lock, Goto, callVars, reqVars, failVars, hostVars
<1> QED  BY <1>1, <1>2, <1>3, <1>4, Zenon

\* The callback of a dispatch that is under way returns.
LEMMA HandlerReturnsInv == ASSUME IInv, NEW c \in Call, HandlerReturns(c) PROVE IInv'
<1> USE DEF IInv
<1>1. Types'
  <2>1. UNCHANGED <<policy, made, pc, current, decision, ret, state, resp>>
    BY Zenon DEF HandlerReturns, callVars
  <2>2. handler' \in [Req -> {"none", "running", "nil", "error", "panic"}]
    BY Zenon DEF Types, HandlerReturns
  <2> QED  BY <2>1, <2>2, Zenon DEF Types
<1>2. Requests'
  BY DEF Types, Requests, Numbered, OneOwner, OpenOwned, Recorded, Placed, Asking,
    HandlerReturns, callVars, reqVars, failVars, hostVars
<1>3. Honoured'
  BY DEF Types, Requests, Numbered, OneOwner, OpenOwned, Recorded, Placed, Honoured, Asking,
    HandlerReturns, callVars, reqVars, failVars, hostVars
<1>4. ReturnsJustified'
  BY DEF Types, Requests, Numbered, OneOwner, OpenOwned, Recorded, Placed, ReturnsJustified,
    Asking, HandlerReturns, callVars, reqVars, failVars, hostVars
<1> QED  BY <1>1, <1>2, <1>3, <1>4, Zenon

\* Time and contexts change no request.
LEMMA DeadlineInv == ASSUME IInv, NEW c \in Call, Deadline(c) PROVE IInv'
<1> USE DEF IInv
<1>1. Types'
  BY ApprovalAssumption, Zenon DEF Types, Asking, Deadline, callVars, reqVars, failVars, hostVars
<1>2. Requests'
  BY DEF Types, Requests, Numbered, OneOwner, OpenOwned, Recorded, Placed, Asking, Deadline,
    callVars, reqVars, failVars, hostVars
<1>3. Honoured'
  BY Zenon DEF Types, Requests, Numbered, OneOwner, OpenOwned, Recorded, Placed, Honoured, Asking,
    Deadline, callVars, reqVars, failVars, hostVars
<1>4. ReturnsJustified'
  BY DEF Types, Requests, Numbered, OneOwner, OpenOwned, Recorded, Placed, ReturnsJustified,
    Asking, Deadline, callVars, reqVars, failVars, hostVars
<1> QED  BY <1>1, <1>2, <1>3, <1>4, Zenon

\* The host answers an open request.
LEMMA settleInv == ASSUME IInv, NEW q \in Req, settle(q) PROVE IInv'
<1> USE DEF IInv
<1>1. Types'
  BY ApprovalAssumption DEF Types, Asking, settle, Respond, Answers, callVars, reqVars, failVars,
    hostVars
<1>2. Requests'
  BY DEF Types, Requests, Numbered, OneOwner, OpenOwned, Recorded, Placed, Asking, settle,
    Respond, Answers, callVars, reqVars, failVars, hostVars
<1>3. Honoured'
  BY DEF Types, Requests, Numbered, OneOwner, OpenOwned, Recorded, Placed, Honoured, Asking,
    settle, Respond, Answers, callVars, reqVars, failVars, hostVars
<1>4. ReturnsJustified'
  BY DEF Types, Requests, Numbered, OneOwner, OpenOwned, Recorded, Placed, ReturnsJustified,
    Asking, settle, Respond, Answers, callVars, reqVars, failVars, hostVars
<1> QED  BY <1>1, <1>2, <1>3, <1>4, Zenon

\* The modes that ask nobody: approve, or the action of a rejection.
LEMMA AutoResolveInv == ASSUME IInv, NEW c \in Call, AutoResolve(c) PROVE IInv'
<1>1. UNCHANGED <<policy, current, decision, reqVars>> /\ pc[c] = "lock"
  BY Zenon DEF AutoResolve, reqVars
<1>2. CASE AutoMode(c) = "approved"
  <2>1. Unlocked(c, "approved", "none") /\ UNCHANGED failure
    BY <1>2, Zenon DEF AutoResolve, failVars
  <2>2. policy.mode[KindOf[c]] = "approve"
    <3>1. policy.mode[KindOf[c]] \in {"ask", "approve", "reject"}
      BY ApprovalAssumption DEF IInv, Types, Policy
    <3>2. CASE policy.mode[KindOf[c]] = "ask"
      BY <1>2, <3>2, Zenon DEF AutoMode
    <3>3. CASE policy.mode[KindOf[c]] = "reject"
      BY <1>2, <3>3, Zenon DEF AutoMode
    <3> QED  BY <3>1, <3>2, <3>3, Zenon
  <2> QED  BY <1>1, <2>1, <2>2, UnlockedInv, Zenon
<1>3. CASE AutoMode(c) # "approved"
  <2>1. applyFailureAction(c, "rejected")
    BY <1>3, Zenon DEF AutoResolve
  <2>2. CASE Action("rejected") = "continue"
    BY <1>1, <2>1, <2>2, UnlockedInv, Zenon DEF applyFailureAction, failVars
  <2>3. CASE Action("rejected") # "continue"
    BY <1>1, <2>1, <2>3, UnlockedInv, FailureKept, Zenon DEF applyFailureAction
  <2> QED  BY <2>2, <2>3, Zenon
<1> QED  BY <1>2, <1>3, Zenon

\* dispatchOnce makes a request, asks nobody, or waits for the host.
LEMMA DispatchInv == ASSUME IInv, NEW c \in Call, Dispatch(c) PROVE IInv'
<1>1. CASE form = "handler" /\ NewRequest(c, "running", "handling")
  BY <1>1, NewRequestInv, Zenon DEF Dispatch
<1>2. CASE form # "handler" /\ eventsCalled /\ NewRequest(c, "none", "publish")
  BY <1>2, NewRequestInv, Zenon DEF Dispatch
<1>3. CASE form = "standby" /\ ~eventsCalled /\ Unasked(c, "timedOut")
  BY <1>3, UnaskedInv, Zenon DEF Dispatch
<1>4. CASE Goto(c, "consumer") /\ UNCHANGED <<policy, current, decision, ret, reqVars, failVars>>
  <2> USE DEF IInv
  <2>1. pc[c] = "dispatch"
    BY Zenon DEF Dispatch
  <2>2. Types'
    BY <1>4, Zenon DEF Types, Asking, Goto, reqVars
  <2>3. Requests'
    <3>1. /\ pc[c] \notin Asking /\ "consumer" \notin Asking /\ "consumer" \notin {"idle", "lock"}
          /\ pc' = [pc EXCEPT ![c] = "consumer"] /\ UNCHANGED <<current, state, resp, handler, made>>
      BY <1>4, <2>1, Zenon DEF Asking, Goto, reqVars
    <3> QED  BY <3>1, MovedRequests, Zenon
  <2>4. Honoured'
    BY <1>4, <2>1 DEF Types, Honoured, Goto, reqVars
  <2>5. ReturnsJustified'
    BY <1>4, <2>1 DEF Types, ReturnsJustified, Goto, reqVars, failVars
  <2> QED  BY <2>2, <2>3, <2>4, <2>5, Zenon
<1> QED  BY <1>1, <1>2, <1>3, <1>4, Zenon DEF Dispatch

\* A call that waits for somebody to read the events has asked nobody.
LEMMA AwaitConsumerInv == ASSUME IInv, NEW c \in Call, AwaitConsumer(c) PROVE IInv'
<1>1. CASE NewRequest(c, "none", "publish")
  BY <1>1, NewRequestInv, Zenon DEF AwaitConsumer
<1>2. ASSUME NEW r \in {"timedOut", "aborted"}, Unasked(c, r) PROVE IInv'
  BY <1>2, UnaskedInv, Zenon DEF AwaitConsumer
<1> QED  BY <1>1, <1>2, Zenon DEF AwaitConsumer, ByContext

\* A response that won the race is what Recovered returns.
LEMMA RecoveredDecides ==
  ASSUME IInv, NEW c \in Call, pc[c] \in Asking, NEW r \in {"timedOut", "aborted"},
         Decided(c, Recovered(current[c], r)), state' = Expired({current[c]}),
         UNCHANGED <<resp, failVars>>
  PROVE  IInv'
<1>1. current[c] \in Req
  BY DEF IInv, Types, Requests, Numbered, OneOwner, OpenOwned, Recorded, Placed
<1>2. CASE state[current[c]] = "responded" /\ resp[current[c]] # "none"
  <2>1. Recovered(current[c], r) = resp[current[c]]
    BY <1>2, Zenon DEF Recovered
  <2>2. resp[current[c]] \in {"approved", "answered", "rejected"}
    BY <1>1, <1>2, Zenon DEF IInv, Types
  <2> QED  BY <1>2, <2>1, <2>2, DecidedInv, Zenon DEF failVars
<1>3. CASE state[current[c]] # "responded"
  <2>1. Recovered(current[c], r) = r
    BY <1>3, Zenon DEF Recovered
  <2> QED  BY <1>3, <2>1, DecidedInv, Zenon DEF failVars
<1>4. state[current[c]] = "responded" => resp[current[c]] # "none"
  BY <1>1, Zenon DEF IInv, Requests, Numbered, OneOwner, OpenOwned, Recorded, Placed
<1> QED  BY <1>2, <1>3, <1>4, Zenon

\* Publishing registers nothing: the request was made before.
LEMMA PublishInv == ASSUME IInv, NEW c \in Call, Publish(c) PROVE IInv'
<1>1. CASE Goto(c, "wait") /\ UNCHANGED <<policy, current, decision, ret, reqVars, failVars>>
  <2> USE DEF IInv
  <2>1. pc[c] = "publish"
    BY Zenon DEF Publish
  <2>2. Types'
    BY <1>1, Zenon DEF Types, Asking, Goto, reqVars
  <2>3. Requests'
    BY <1>1, <2>1 DEF Types, Requests, Numbered, OneOwner, OpenOwned, Recorded, Placed, Asking, Goto,
      reqVars
  <2>4. Honoured'
    BY <1>1, <2>1 DEF Types, Honoured, Goto, reqVars
  <2>5. ReturnsJustified'
    BY <1>1, <2>1 DEF Types, ReturnsJustified, Goto, reqVars, failVars
  <2> QED  BY <2>2, <2>3, <2>4, <2>5, Zenon
<1>2. CASE /\ Decided(c, Recovered(current[c], ByContext(c)))
           /\ state' = Expired({current[c]}) /\ UNCHANGED <<resp, failVars>>
  BY <1>2, RecoveredDecides, Zenon DEF Publish, ByContext, Asking
<1> QED  BY <1>1, <1>2, Zenon DEF Publish

\* The wait ends by the response, the deadline, the abort or the seal; the first
\* takes the answer, the others close the request first.
LEMMA WaitInv == ASSUME IInv, NEW c \in Call, Wait(c) PROVE IInv'
<1>1. \E r \in {"timedOut", "aborted"} : Decided(c, Recovered(current[c], r))
  BY Zenon DEF Wait, ByContext
<1> QED  BY <1>1, RecoveredDecides, Zenon DEF Wait, Asking

\* Every way out of runHandler.
LEMMA HandlingInv == ASSUME IInv, NEW c \in Call, Handling(c) PROVE IInv'
<1> DEFINE q == current[c]
<1>1. q \in Req /\ pc[c] = "handling" /\ pc[c] \in Asking
  BY DEF IInv, Types, Requests, Numbered, OneOwner, OpenOwned, Recorded, Placed, Handling, Asking
<1>2. CASE /\ handler[q] \in {"panic", "error"} /\ Decided(c, "aborted")
           /\ setPendingFailure("agentError") \/ UNCHANGED failVars
           /\ state' = Expired({q}) /\ UNCHANGED resp
  <2>1. failure # "none" => failure' # "none"
    BY <1>2, FailureKept, Zenon DEF failVars
  <2> QED  BY <1>1, <1>2, <2>1, DecidedInv, Zenon
<1>3. CASE /\ state[q] = "responded" /\ Decided(c, resp[q])
           /\ UNCHANGED <<state, resp, failVars>>
  <2>1. state' = Expired({q})
    BY <1>1, <1>3, Zenon DEF IInv, Types, Expired
  <2>2. resp[q] \in {"approved", "answered", "rejected"}
    BY <1>1, <1>3 DEF IInv, Types, Requests, Numbered, OneOwner, OpenOwned, Recorded, Placed
  <2> QED  BY <1>1, <1>3, <2>1, <2>2, DecidedInv, Zenon DEF failVars
<1>4. CASE handler[q] = "nil" /\ Goto(c, "unresolved")
           /\ UNCHANGED <<policy, current, decision, ret, reqVars, failVars>>
  <2> USE DEF IInv
  <2>1. Types'
    BY <1>4, Zenon DEF Types, Asking, Goto, reqVars
  <2>2. Requests'
    BY <1>1, <1>4 DEF Types, Requests, Numbered, OneOwner, OpenOwned, Recorded, Placed, Asking, Goto,
      reqVars
  <2>3. Honoured'
    BY <1>1, <1>4 DEF Types, Honoured, Goto, reqVars
  <2>4. ReturnsJustified'
    BY <1>1, <1>4 DEF Types, ReturnsJustified, Goto, reqVars, failVars
  <2> QED  BY <2>1, <2>2, <2>3, <2>4, Zenon
<1>5. CASE /\ Decided(c, Recovered(q, ByContext(c)))
           /\ state' = Expired({q}) /\ UNCHANGED <<resp, failVars>>
  BY <1>1, <1>5, RecoveredDecides, Zenon DEF ByContext
<1> QED  BY <1>2, <1>3, <1>4, <1>5, Zenon DEF Handling

\* A callback that returned nil without a response closes its request.
LEMMA UnresolvedInv == ASSUME IInv, NEW c \in Call, Unresolved(c) PROVE IInv'
<1>1. pc[c] \in Asking /\ handler[current[c]] = "nil"
  BY Zenon DEF IInv, Requests, Numbered, OneOwner, OpenOwned, Recorded, Placed, Unresolved, Asking
<1>2. failure # "none" => failure' # "none"
  BY FailureKept, Zenon DEF Unresolved
<1> QED  BY <1>1, <1>2, DecidedInv, Zenon DEF Unresolved

\* RequestDecision returns what was decided, fails, or asks again.
LEMMA DecideInv == ASSUME IInv, NEW c \in Call, Decide(c) PROVE IInv'
<1> DEFINE r == decision[c]
<1>1. pc[c] = "decided" /\ UNCHANGED <<policy, current, decision, reqVars>>
  BY Zenon DEF Decide
<1>2. CASE r \in {"approved", "answered"} /\ Unlocked(c, r, "none") /\ UNCHANGED failVars
  BY <1>1, <1>2, UnlockedInv, Zenon DEF failVars
<1>3. CASE r = "aborted" /\ Unlocked(c, r, "cause") /\ UNCHANGED failVars
  BY <1>1, <1>3, UnlockedInv, Zenon DEF failVars
<1>4. CASE r \in {"rejected", "timedOut"} /\ Goto(c, "dispatch") /\ UNCHANGED <<ret, failVars>>
  <2> USE DEF IInv
  <2>1. Types'
    BY <1>1, <1>4, Zenon DEF Types, Asking, Goto, reqVars
  <2>2. Requests'
    <3>1. /\ pc[c] \notin Asking /\ "dispatch" \notin Asking /\ "dispatch" \notin {"idle", "lock"}
          /\ pc' = [pc EXCEPT ![c] = "dispatch"] /\ UNCHANGED <<current, state, resp, handler, made>>
      BY <1>1, <1>4, Zenon DEF Asking, Goto, reqVars
    <3> QED  BY <3>1, MovedRequests, Zenon
  <2>3. Honoured'
    BY <1>1, <1>4 DEF Types, Honoured, Goto, reqVars
  <2>4. ReturnsJustified'
    BY <1>1, <1>4 DEF Types, ReturnsJustified, Goto, reqVars, failVars
  <2> QED  BY <2>1, <2>2, <2>3, <2>4, Zenon
<1>5. CASE r \in {"rejected", "timedOut"} /\ applyFailureAction(c, r)
  <2>1. CASE Action(r) = "continue"
    BY <1>1, <1>5, <2>1, UnlockedInv, Zenon DEF applyFailureAction, failVars
  <2>2. CASE Action(r) # "continue"
    BY <1>1, <1>5, <2>2, UnlockedInv, FailureKept, Zenon DEF applyFailureAction
  <2> QED  BY <2>1, <2>2, Zenon
<1> QED  BY <1>2, <1>3, <1>4, <1>5, Zenon DEF Decide

\* abort and close expire what is outstanding.
LEMMA ExpireOutstandingInv ==
  ASSUME IInv, NEW half, ExpireOutstanding(half) PROVE IInv'
<1> USE DEF IInv
<1>1. state' \in [Req -> {"none", "pending", "responded", "expired"}]
      /\ \A q \in Req : /\ state'[q] = "responded" <=> state[q] = "responded"
                        /\ state'[q] = "pending" => state[q] = "pending"
  BY Zenon DEF Types, ExpireOutstanding, Expired
<1>2. UNCHANGED <<policy, callVars, resp, handler, made, failVars>>
  BY Zenon DEF ExpireOutstanding
<1>3. Types'
  BY <1>1, <1>2, Zenon DEF Types, callVars
<1>4. \A d \in Call : current[d] # None => current[d] \in Req
  BY Zenon DEF Types
<1>5. Requests'
  <2>1. \A q \in Req : made < q => state'[q] = "none"
    BY Zenon DEF Requests, Numbered, OneOwner, OpenOwned, Recorded, Placed, ExpireOutstanding, Expired
  <2> QED  BY <1>1, <1>2, <2>1 DEF Requests, Numbered, OneOwner, OpenOwned, Recorded, Placed,
    callVars
<1>6. Honoured'
  BY <1>1, <1>2, <1>4, Zenon DEF Honoured, callVars
<1>7. ReturnsJustified'
  BY <1>1, <1>2, <1>4, Zenon DEF ReturnsJustified, callVars, failVars
<1> QED  BY <1>3, <1>5, <1>6, <1>7, Zenon

\* The other steps leave the calls and their requests alone.
LEMMA UnchangedInv == ASSUME IInv, UNCHANGED <<policy, callVars, reqVars, failVars>> PROVE IInv'
<1>1. Types'
  BY Zenon DEF IInv, Types, callVars, reqVars, failVars
<1>2. Requests'
  BY Zenon DEF IInv, Requests, Numbered, OneOwner, OpenOwned, Recorded, Placed, callVars, reqVars
<1>3. Honoured'
  BY Zenon DEF IInv, Honoured, callVars, reqVars
<1>4. ReturnsJustified'
  BY Zenon DEF IInv, ReturnsJustified, callVars, reqVars, failVars
<1> QED  BY <1>1, <1>2, <1>3, <1>4, Zenon DEF IInv

\* Every step keeps the invariant.
LEMMA StepInv == IInv /\ [Next]_vars => IInv'
<1> SUFFICES ASSUME IInv, [Next]_vars PROVE IInv'
  BY Zenon
<1>1. ASSUME NEW c \in Call, Request(c) \/ Step(c) \/ HandlerReturns(c) PROVE IInv'
  BY <1>1, RequestInv, LockInv, AutoResolveInv, DispatchInv, AwaitConsumerInv, PublishInv,
    WaitInv, HandlingInv, UnresolvedInv, DecideInv, HandlerReturnsInv, Zenon DEF Step
<1>2. ASSUME NEW c \in Call, Deadline(c) PROVE IInv'
  BY <1>2, UnchangedInv, Zenon DEF Deadline
<1>3. ASSUME NEW q \in Req, settle(q) PROVE IInv'
  BY <1>3, settleInv, Zenon
<1>4. CASE \/ Events \/ Result \/ Cancel \/ Seal("abortExpires", "abort")
           \/ Seal("closeExpires", "close")
  BY <1>4, UnchangedInv, Zenon DEF Events, Result, Cancel, Seal
<1>5. CASE ExpireOutstanding("abortExpires") \/ ExpireOutstanding("closeExpires")
  BY <1>5, ExpireOutstandingInv, Zenon
<1>6. CASE UNCHANGED vars
  BY <1>6, UnchangedInv, Zenon DEF vars
<1> QED  BY <1>1, <1>2, <1>3, <1>4, <1>5, <1>6, Zenon DEF Next

\* The inductive invariant holds of every execution.
THEOREM ApprovalInvariant == Spec => []IInv
BY InitInv, StepInv, PTL DEF Spec

\* An accepted response is what the dispatch returns, except when the callback fails
\* or returned before somebody answered, and no responder outlives its dispatch open
\* (approval.go:149, 309): for any calls, kinds, policies and number of requests.
THEOREM ResponsesHonoured == Spec => []AcceptedHonoured
<1>1. IInv => AcceptedHonoured
  BY DEF IInv, Types, Requests, Numbered, OneOwner, OpenOwned, Recorded, Placed, Honoured,
    AcceptedHonoured, Over, Asking
<1> QED  BY <1>1, ApprovalInvariant, PTL

\* RequestDecision goes ahead only with the host's response to its last attempt or
\* with a policy that approves, and aborts only with the failure recorded (sink.go:441).
THEOREM DecisionsJustified == Spec => []ReturnsJustified
<1>1. IInv => ReturnsJustified
  BY Zenon DEF IInv
<1> QED  BY <1>1, ApprovalInvariant, PTL

\* "Late or duplicate responses return ErrApprovalResolved" (approval.go:150): what a
\* responder recorded, or that it expired, is final.
ResolvedOnce ==
  [][\A q \in Req : state[q] \in {"responded", "expired"} =>
       state'[q] = state[q] /\ resp'[q] = resp[q]]_vars
\* A request is answered or closed once and stays so (approval.go:299): no late
\* answer, deadline or seal changes what the driver was told.
THEOREM ResponsesFinal == Spec => ResolvedOnce
<1> DEFINE Final == \A q \in Req : state[q] \in {"responded", "expired"} =>
                      state'[q] = state[q] /\ resp'[q] = resp[q]
<1>1. IInv /\ [Next]_vars => [Final]_vars
  <2> SUFFICES ASSUME IInv, [Next]_vars PROVE Final \/ UNCHANGED vars
    BY Zenon
  <2>1. ASSUME NEW Q, state' = Expired(Q), UNCHANGED resp PROVE Final
    BY <2>1, Zenon DEF Expired
  <2>2. ASSUME UNCHANGED <<state, resp>> PROVE Final
    BY <2>2, Zenon
  <2>3. ASSUME NEW c \in Call, NEW h, NEW at, NewRequest(c, h, at) PROVE Final
    <3>1. made' \in Req /\ state[made'] = "none"
      BY <2>3, ApprovalAssumption DEF IInv, Types, Requests, Numbered, OneOwner, OpenOwned,
        Recorded, Placed, NewRequest, Req, None
    <3> QED  BY <2>3, <3>1, Zenon DEF IInv, Types, NewRequest
  <2>4. ASSUME NEW c \in Call, Request(c) \/ Step(c) \/ Deadline(c) \/ HandlerReturns(c) PROVE Final
    BY <2>1, <2>2, <2>3, <2>4, Zenon DEF Step, Request, Lock, AutoResolve, Dispatch, AwaitConsumer,
      Publish, Wait, Handling, Unresolved, Decide, Deadline, HandlerReturns, Unasked, reqVars
  <2>5. ASSUME NEW q \in Req, settle(q) PROVE Final
    BY <2>5, Zenon DEF IInv, Types, settle, Respond
  <2>6. CASE \/ Events \/ Result \/ Cancel \/ Seal("abortExpires", "abort")
             \/ Seal("closeExpires", "close")
             \/ ExpireOutstanding("abortExpires") \/ ExpireOutstanding("closeExpires")
    BY <2>1, <2>2, <2>6, Zenon DEF Events, Result, Cancel, Seal, ExpireOutstanding, reqVars
  <2> QED  BY <2>4, <2>5, <2>6, Zenon DEF Next
<1> QED  BY <1>1, ApprovalInvariant, PTL DEF Spec, ResolvedOnce
=============================================================================
