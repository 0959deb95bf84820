----------------------------- MODULE EventBroker -----------------------------
(***************************************************************************)
(* The event broker of an execution stream, and of a standby stream        *)
(* (event_broker.go, spool mode).  Producers publish events of three       *)
(* classes; the broker stamps them with one sequence, drops deltas into a  *)
(* summary, and hands the log to a subscriber through a bounded channel    *)
(* and a pump.  Every action is one critical section of eventBroker.mu, or *)
(* the pump's channel send, which holds no lock.  An event is its class    *)
(* and its sequence number.                                                *)
(***************************************************************************)
EXTENDS Integers, Sequences, FiniteSets, SequencesExt

CONSTANTS
  Producer,    \* goroutines that publish
  Plan,        \* Plan[p]: the classes of the events p publishes, in order
  Late,        \* producers the core does not wait for before it ends the stream
  Mortal,      \* producers whose publication context may end
  Capacity,    \* normalCapacity
  Modes        \* the kinds of broker: blocking delivery, the standby stream's

Classes == {"critical", "reliable", "delta"}

ASSUME BrokerAssumption ==
  /\ IsFiniteSet(Producer) /\ Plan \in [Producer -> Seq(Classes)]
  /\ Late \subseteq Producer /\ Mortal \subseteq Producer
  /\ Capacity \in Nat \ {0}
  /\ Modes \subseteq [blocking : BOOLEAN, discardUnsubscribed : BOOLEAN]

VARIABLES
  mode,        \* the fields newEventBroker and its caller set once
  b,           \* [chan, queue, wake, sequence, dropped]: the log and the drop aggregate
  lost,        \* history: sequence numbers given to recordDropLocked
  received,    \* history: what the subscriber took from the channel
  subscribed, discardOrdinary, aborted, terminal, closed,
  chanClosed,  \* the channel the subscriber reads is closed
  pump,        \* the pump: off, look, hand (sending the head), sent, asleep, ended
  next,        \* next[p]: index into Plan[p]
  pc,          \* idle, or waiting for capacity before (wait1) or after (wait2) the flush
  ctxDone      \* producers whose context ended

flags == <<subscribed, discardOrdinary, aborted, terminal, closed, chanClosed>>
vars == <<mode, b, lost, received, flags, pump, next, pc, ctxDone>>

Blocking == mode.blocking  \* else deltas are dropped
DiscardUnsubscribed == mode.discardUnsubscribed  \* no log before a subscriber

-----------------------------------------------------------------------------
(* The log.  Each operator maps a broker record to the one after it. *)

NoDrops == [count |-> 0, first |-> 0, last |-> 0]
Event(x, class) == [class |-> class, seq |-> x.sequence + 1, drops |-> NoDrops]
Occupancy(x) == Len(x.chan) + Len(x.queue)

EnqueueBypassing(x, e) ==
  IF Len(x.chan) < Capacity
  THEN [x EXCEPT !.chan = Append(@, e), !.sequence = e.seq]
  ELSE [x EXCEPT !.queue = Append(@, e), !.sequence = e.seq, !.wake = TRUE]
Enqueue(x, e) ==
  IF x.queue = <<>> /\ Len(x.chan) < Capacity
  THEN [x EXCEPT !.chan = Append(@, e), !.sequence = e.seq]
  ELSE [x EXCEPT !.queue = Append(@, e), !.sequence = e.seq, !.wake = TRUE]

MinNat(i, j) == IF i < j THEN i ELSE j
MaxNat(i, j) == IF i < j THEN j ELSE i

\* recordDropLocked of one event, mergeDropsLocked of a summary.
MergeLastOnly(x, d) ==
  [x EXCEPT !.dropped =
     [count |-> @.count + d.count, first |-> d.first, last |-> MaxNat(@.last, d.last)]]
Merge(x, d) ==
  [x EXCEPT !.dropped =
     [count |-> @.count + d.count,
      first |-> IF @.count = 0 THEN d.first ELSE MinNat(@.first, d.first),
      last  |-> MaxNat(@.last, d.last)]]
RecordDrop(x, seq) == Merge(x, [count |-> 1, first |-> seq, last |-> seq])
StampAndDrop(x) == RecordDrop([x EXCEPT !.sequence = @ + 1], x.sequence + 1)

\* spoolDroppedLocked: the summary is an event of its own.
Flush(x) ==
  IF x.dropped.count = 0 THEN x
  ELSE Enqueue([x EXCEPT !.dropped = NoDrops],
               [Event(x, "dropped") EXCEPT !.drops = x.dropped])

OrdinaryAll(e) == e.class # "done"
Ordinary(e) == e.class \in {"reliable", "delta"}

\* pruneUnobservedLocked: the log goes back into the queue, without summaries
\* and without the ordinary events past the first `keep`.
PruneStep(keep, x, e) ==
  IF e.class = "dropped" THEN Merge(x, e.drops)
  ELSE IF Ordinary(e) /\ Len(SelectSeq(x.queue, Ordinary)) >= keep
       THEN RecordDrop(x, e.seq)
       ELSE [x EXCEPT !.queue = Append(@, e)]
Prune(x, keep) ==
  FoldLeft(LAMBDA y, e : PruneStep(keep, y, e),
           [x EXCEPT !.chan = <<>>, !.queue = <<>>], x.chan \o x.queue)
Pruned(x, keep) ==
  LET all == x.chan \o x.queue
      kept == Prune(x, keep).queue
  IN  {all[i].seq : i \in DOMAIN all} \
        ({kept[i].seq : i \in DOMAIN kept} \cup
         {all[i].seq : i \in {j \in DOMAIN all : all[j].class = "dropped"}})

Retained == IF discardOrdinary THEN 0 ELSE Capacity

-----------------------------------------------------------------------------
(* Publication: publishContext and publishLocked. *)

Publishing(p) == next[p] <= Len(Plan[p])
Class(p) == Plan[p][next[p]]
Sealed == closed \/ terminal

\* The call returns; what became of the event is already in b.
Returns(p) ==
  /\ next' = [next EXCEPT ![p] = @ + 1]
  /\ pc' = [pc EXCEPT ![p] = "idle"]

Rest == UNCHANGED <<received, flags, pump, ctxDone>>

Rejected(p) ==
  /\ Publishing(p) /\ Sealed
  /\ Returns(p) /\ UNCHANGED <<b, lost>> /\ Rest

\* A standby stream nobody listens to accepts the event and forgets it.
Discarded(p) ==
  /\ Publishing(p) /\ pc[p] = "idle" /\ ~Sealed
  /\ DiscardUnsubscribed /\ ~subscribed
  /\ Returns(p) /\ UNCHANGED <<b, lost>> /\ Rest

Admitting(p) ==
  /\ Publishing(p) /\ ~Sealed
  /\ pc[p] = "idle" => ~(DiscardUnsubscribed /\ ~subscribed)

PublishCritical(p) ==
  /\ Admitting(p) /\ Class(p) = "critical"
  /\ LET x == Flush(b) IN b' = Enqueue(x, Event(x, "critical"))
  /\ Returns(p) /\ UNCHANGED lost /\ Rest

\* waitCapacityLocked stays in its loop.
MustWait(p, x) ==
  /\ Blocking /\ ~discardOrdinary /\ ~aborted /\ p \notin ctxDone
  /\ Occupancy(x) >= Capacity

MustDrop(p, x) ==
  \/ discardOrdinary
  \/ Class(p) = "delta" /\ (p \in ctxDone \/ aborted)
  \/ Class(p) = "delta" /\ ~Blocking /\ Occupancy(x) >= Capacity

\* The first wait; other producers, the subscriber and the core run meanwhile.
WaitFirst(p) ==
  /\ Admitting(p) /\ Class(p) # "critical" /\ pc[p] = "idle"
  /\ MustWait(p, b)
  /\ pc' = [pc EXCEPT ![p] = "wait1"]
  /\ UNCHANGED <<b, lost, next>> /\ Rest

\* The step that follows the second wait, on the broker state x.
Deliver(p, x) ==
  /\ Returns(p)
  /\ \/ MustDrop(p, x) /\ b' = StampAndDrop(x) /\ lost' = lost \cup {x.sequence + 1}
     \/ ~MustDrop(p, x) /\ b' = Enqueue(x, Event(x, Class(p))) /\ UNCHANGED lost

PublishOrdinary(p) ==
  /\ Admitting(p) /\ Class(p) # "critical" /\ pc[p] \in {"idle", "wait1"}
  /\ ~MustWait(p, b)
  /\ \/ MustDrop(p, b) /\ Deliver(p, b)
     \/ ~MustDrop(p, b) /\ ~MustWait(p, Flush(b)) /\ Deliver(p, Flush(b))
     \/ /\ ~MustDrop(p, b) /\ MustWait(p, Flush(b))
        /\ b' = Flush(b) /\ pc' = [pc EXCEPT ![p] = "wait2"] /\ UNCHANGED <<next, lost>>
  /\ Rest

\* The summary took the room: the producer waits once more, then delivers.
PublishAfterFlush(p) ==
  /\ Admitting(p) /\ pc[p] = "wait2" /\ ~MustWait(p, b)
  /\ Deliver(p, b)
  /\ Rest

Publish(p) ==
  \/ Rejected(p) \/ Discarded(p) \/ PublishCritical(p)
  \/ WaitFirst(p) \/ PublishOrdinary(p) \/ PublishAfterFlush(p)

-----------------------------------------------------------------------------
(* The stream's owner and its consumers. *)

\* The drops of pruneUnobservedLocked, which b' records.
PruneInto(x, keep) == lost' = lost \cup Pruned(x, keep)

\* publishTerminal: Done and the seal, once the driver has returned.
Returned == \A p \in Producer \ Late : ~Publishing(p)
PublishTerminal ==
  /\ ~DiscardUnsubscribed /\ ~Sealed /\ Returned
  /\ LET x == Flush(IF subscribed THEN b ELSE Prune(b, Retained))
     IN  b' = Enqueue(x, Event(x, "done"))
  /\ IF subscribed THEN UNCHANGED lost ELSE PruneInto(b, Retained)
  /\ terminal' = TRUE
  /\ UNCHANGED <<received, subscribed, discardOrdinary, aborted, closed, chanClosed,
                 pump, next, pc, ctxDone>>

\* close: an execution's stream after its terminal, a standby stream without one.
\* With no subscriber the log moves into a closed channel, else the pump drains it.
ClosingAsleep(x) ==
  /\ closed' = TRUE
  /\ \/ subscribed /\ b' = x /\ UNCHANGED chanClosed
     \/ /\ ~subscribed /\ chanClosed' = TRUE
        /\ b' = [x EXCEPT !.chan = x.chan \o x.queue, !.queue = <<>>]
  /\ UNCHANGED <<received, subscribed, discardOrdinary, aborted, terminal,
                 pump, next, pc, ctxDone>>
Closing(x) ==
  /\ closed' = TRUE
  /\ \/ /\ subscribed /\ b' = [x EXCEPT !.wake = TRUE] /\ UNCHANGED chanClosed
     \/ /\ ~subscribed /\ chanClosed' = TRUE
        /\ b' = [x EXCEPT !.chan = x.chan \o x.queue, !.queue = <<>>]
  /\ UNCHANGED <<received, subscribed, discardOrdinary, aborted, terminal,
                 pump, next, pc, ctxDone>>
Close ==
  /\ ~closed
  /\ \/ terminal /\ Closing(b) /\ UNCHANGED lost
     \/ /\ ~terminal /\ DiscardUnsubscribed /\ Returned /\ subscribed
        /\ Closing(Flush(b)) /\ UNCHANGED lost
     \/ /\ ~terminal /\ DiscardUnsubscribed /\ Returned /\ ~subscribed
        /\ Closing(Flush(Prune(b, Retained))) /\ PruneInto(b, Retained)

\* Events: before the close it starts the pump, after it the log is ready to read.
Subscribe ==
  /\ ~subscribed /\ subscribed' = TRUE
  /\ discardOrdinary' = (closed /\ discardOrdinary)
  /\ pump' = IF closed THEN "off" ELSE "look"
  /\ UNCHANGED <<b, lost, received, aborted, terminal, closed, chanClosed, next, pc, ctxDone>>

\* Result before any Events: ordinary events are discarded, producers released.
AwaitResult ==
  /\ ~DiscardUnsubscribed /\ ~subscribed /\ ~Sealed
  /\ discardOrdinary' = TRUE
  /\ b' = Prune(b, 0) /\ PruneInto(b, 0)
  /\ UNCHANGED <<received, subscribed, aborted, terminal, closed, chanClosed,
                 pump, next, pc, ctxDone>>

Abort ==
  /\ ~aborted /\ aborted' = TRUE
  /\ UNCHANGED <<b, lost, received, subscribed, discardOrdinary, terminal, closed,
                 chanClosed, pump, next, pc, ctxDone>>

ContextEnds(p) ==
  /\ p \in Mortal \ ctxDone /\ ctxDone' = ctxDone \cup {p}
  /\ UNCHANGED <<b, lost, received, flags, pump, next, pc>>

-----------------------------------------------------------------------------
(* startPumpLocked: the goroutine that moves the queue into the channel. *)

Pumped == UNCHANGED <<lost, received, subscribed, discardOrdinary, aborted, terminal,
                      closed, next, pc, ctxDone>>

PumpLook ==
  /\ pump = "look" /\ Pumped
  /\ \/ b.queue # <<>> /\ pump' = "hand" /\ UNCHANGED <<b, chanClosed>>
     \/ b.queue = <<>> /\ closed /\ pump' = "ended" /\ chanClosed' = TRUE /\ UNCHANGED b
     \/ b.queue = <<>> /\ ~closed /\ pump' = "asleep" /\ UNCHANGED <<b, chanClosed>>

PumpWake ==
  /\ pump = "asleep" /\ b.wake /\ Pumped
  /\ b' = [b EXCEPT !.wake = FALSE] /\ pump' = "look" /\ UNCHANGED chanClosed

\* The send holds no lock: the head stays queued until PumpPop.
PumpSend ==
  /\ pump = "hand" /\ Len(b.chan) < Capacity + 1 /\ Pumped
  /\ b' = [b EXCEPT !.chan = Append(@, Head(b.queue))] /\ pump' = "sent"
  /\ UNCHANGED chanClosed

PumpPop ==
  /\ pump = "sent" /\ Pumped
  /\ b' = [b EXCEPT !.queue = Tail(@)] /\ pump' = "look" /\ UNCHANGED chanClosed

Pump == PumpLook \/ PumpWake \/ PumpSend \/ PumpPop

Receive ==
  /\ subscribed /\ b.chan # <<>>
  /\ received' = Append(received, Head(b.chan)) /\ b' = [b EXCEPT !.chan = Tail(@)]
  /\ UNCHANGED <<lost, flags, pump, next, pc, ctxDone>>

-----------------------------------------------------------------------------
Init ==
  /\ mode \in Modes
  /\ b = [chan |-> <<>>, queue |-> <<>>, wake |-> FALSE, sequence |-> 0, dropped |-> NoDrops]
  /\ lost = {} /\ received = <<>> /\ pump = "off" /\ ctxDone = {}
  /\ subscribed = FALSE /\ discardOrdinary = FALSE /\ aborted = FALSE
  /\ terminal = FALSE /\ closed = FALSE /\ chanClosed = FALSE
  /\ next = [p \in Producer |-> 1] /\ pc = [p \in Producer |-> "idle"]

Step ==
  \/ \E p \in Producer : Publish(p) \/ ContextEnds(p)
  \/ PublishTerminal \/ Close \/ Subscribe \/ AwaitResult \/ Abort
  \/ Pump \/ Receive

Next == Step /\ UNCHANGED mode

Spec == Init /\ [][Next]_vars

\* Every goroutine keeps running, the owner ends the stream once it may, and the
\* host consumes the stream: it calls Events or Result, and drains what it reads.
FairSpec ==
  /\ Spec
  /\ \A p \in Producer : WF_vars(Publish(p) /\ UNCHANGED mode)
  /\ WF_vars(PublishTerminal /\ UNCHANGED mode) /\ WF_vars(Close /\ UNCHANGED mode)
  /\ WF_vars(Pump /\ UNCHANGED mode) /\ WF_vars(Receive /\ UNCHANGED mode)
  /\ WF_vars(~discardOrdinary /\ (Subscribe \/ AwaitResult) /\ UNCHANGED mode)

-----------------------------------------------------------------------------
(* What the broker promises. *)

\* The stream's log: what was read, is in the channel, or waits in the queue.
\* Between PumpSend and PumpPop the queue's head is already in the channel.
Log == received \o b.chan \o (IF pump = "sent" THEN Tail(b.queue) ELSE b.queue)
OfClass(s, C) == SelectSeq(s, LAMBDA e : e.class \in C)
Drops(s) == OfClass(s, {"dropped"})

\* The subscriber reads events in the order of their sequence numbers, whichever
\* way they came: straight into the channel, or by the queue and the pump.  Done is
\* the last one, and no drop is reported after it or left unreported
\* (publishTerminal seals the log in the critical section that appends Done).
InOrderToDone ==
  /\ \A i, j \in DOMAIN Log : i < j => Log[i].seq < Log[j].seq
  /\ terminal => Log # <<>> /\ Last(Log).class = "done"
  /\ Sealed => b.dropped.count = 0
  /\ Len(OfClass(Log, {"done"})) <= 1

\* No event disappears silently: the summaries in the log and the pending
\* aggregate count exactly the dropped events, and their ranges span each one.
LossAccounted ==
  LET reports == [i \in DOMAIN Drops(Log) |-> Drops(Log)[i].drops] \o <<b.dropped>>
  IN  /\ FoldLeft(LAMBDA n, d : n + d.count, 0, reports) = Cardinality(lost)
      /\ \A s \in lost : \E i \in DOMAIN reports :
            reports[i].count > 0 /\ s \in reports[i].first .. reports[i].last

\* What is in the log stays there, in its order: everything once Events was
\* called, and before that the critical events, which no pruning for a caller of
\* Result or for the end of the run removes.
Criticals == OfClass(Log, {"critical", "done"})
CriticalKept ==
  [][/\ subscribed => IsPrefix(Log, Log')
     /\ IsPrefix(Criticals, Criticals')]_vars

\* A producer blocked on a full log is released: by the subscriber's reads, by a
\* caller of Result, by cancellation or by the end of the stream.  And a consumer
\* of Events reads to the end: the channel is closed and everything the log held
\* has been read.
StreamEnds ==
  /\ \A p \in Producer : (pc[p] # "idle") ~> (pc[p] = "idle")
  /\ subscribed ~> (chanClosed /\ b.chan = <<>> /\ b.queue = <<>>)
=============================================================================
