---------------------------- MODULE TeamExecution ----------------------------
(***************************************************************************)
(* A team execution (hosttools/team): the loop of execution.execute, which *)
(* owns the leader, the delegated tasks and the scope's durable inbox; the *)
(* commands that reach it from Stream.Send, from the leader's and the      *)
(* members' streams, from the tool endpoint and from the goroutines that   *)
(* deliver messages; the TaskStore behind it.                              *)
(*                                                                         *)
(* The loop takes one command at a time, so each handler is one step on    *)
(* the record `team`.  The leader is what Invocation promises of a Stream: *)
(* it accepts messages until its hub is finished, gives every accepted     *)
(* message one outcome, and then ends.  A batch of notifications is one    *)
(* message to the leader, so what is delivered is an item, a set of inbox  *)
(* messages.  Texts, results, usage and the event log are left out; the    *)
(* retry delay is a wake that may be late, so retryAt is not kept.  Host   *)
(* messages carry message options only, so that none is deferred.          *)
(***************************************************************************)
EXTENDS Naturals, Sequences, FiniteSets, SequencesExt

CONSTANTS
  Host,             \* the MessageIDs the host sends
  Opening,          \* bound: those that open an execution
  Task,             \* the delegations the leader may make
  Member,
  MemberOf,         \* MemberOf[t]: the member t is delegated to
  PerScope,         \* members with one conversation for the scope
  MaxActive,        \* MaxActive[m], Member.MaxActive
  MaxTasks, MaxActiveTasks, MaxAgentMessages, \* Limits
  Depth,            \* the capacity of run.commands
  Scenes            \* bound: what a behaviour has: the host messages, the tools
                    \*   leaders call, what members do, Limits.MaxLeaderTurns, the
                    \*   executions of the scope, and what the environment may do
                    \*   beyond ending streams

ASSUME TeamAssumption ==
  /\ Opening \subseteq Host /\ MemberOf \in [Task -> Member] /\ PerScope \subseteq Member
  /\ MaxActive \in [Member -> Nat \ {0}]
  /\ MaxTasks \in Nat \ {0} /\ MaxActiveTasks \in Nat \ {0}
  /\ MaxAgentMessages \in Nat \ {0} /\ Depth \in Nat \ {0}
  /\ Scenes \subseteq
       [hosts : SUBSET Host, calls : SUBSET {"delegate", "cancel", "send"},
        acts : SUBSET {"ask", "text", "approval", "resumed"}, turns : Nat \ {0}, runs : Nat,
        faults : SUBSET {"crash", "lease", "cancel", "giveUp", "admission"}]

VARIABLES
  team,     \* the execution, the store of its scope, the Send calls and the scene
  commands  \* run.commands, first in first out

vars == <<team, commands>>

MaxLeaderTurns == team.scene.turns
MaxRuns == team.scene.runs
Calls == team.scene.calls
Acts == team.scene.acts
Faults == team.scene.faults

-----------------------------------------------------------------------------
(* The inbox. *)

FromHost(h) == <<"host", h>>
Ended(t) == <<"ended", t>>
Question(t) == <<"question", t>>
Progress(t) == <<"progress", t>>
Resume == {<<"resume", "first">>, <<"resume", "second">>}
Warning == <<"warning", "turns">>
Inbox == {FromHost(h) : h \in Host} \cup {Ended(t) : t \in Task}
           \cup {Question(t) : t \in Task} \cup {Progress(t) : t \in Task}
           \cup Resume \cup {Warning}

IsHost(m) == m[1] = "host"
Wakes(m) == m[1] # "progress"
About(m, t) == m[1] \in {"ended", "question", "progress"} /\ m[2] = t

Absent == [state |-> "none", dup |-> FALSE]
NoTask == [state |-> "none", saved |-> "none", active |-> FALSE,
           leaderCancelled |-> FALSE, stopped |-> FALSE, over |-> FALSE]
NoStream == [pc |-> "none", open |-> FALSE, first |-> {}, accepted |-> {}, turns |-> 0,
             cap |-> 0, cancelled |-> FALSE, err |-> "none", reason |-> "none"]
NoSend == [pc |-> "idle", ctx |-> TRUE, answer |-> "open"]

Terminal == {"succeeded", "failed", "cancelled", "interrupted"}

\* What an execution starts with; the store's part of s outlives it.
Fresh(s) ==
  [s EXCEPT !.phase = "running", !.runs = @ + 1, !.lease = "held", !.ctx = TRUE,
            !.seen = FALSE, !.stopping = FALSE, !.hard = FALSE, !.fatal = "none",
            !.retries = 0, !.wake = FALSE, !.leader = 0, !.turns = 0, !.started = 0,
            !.messages = 0, !.leaderErr = "none", !.collecting = FALSE,
            !.order = <<>>, !.count = 0, !.stream = NoStream,
            !.deliveries = <<>>, !.sending = 0]

Init ==
  /\ \E scene \in Scenes :
     team = [scene |-> scene, phase |-> "idle", runs |-> 0, lease |-> "free", ctx |-> TRUE,
             seen |-> FALSE, stopping |-> FALSE, hard |-> FALSE, fatal |-> "none",
             retries |-> 0, wake |-> FALSE, leader |-> 0, turns |-> 0, started |-> 0,
             messages |-> 0, leaderErr |-> "none", collecting |-> FALSE,
             order |-> <<>>, count |-> 0, stream |-> NoStream,
             deliveries |-> <<>>, sending |-> 0,
             inbox |-> [m \in Inbox |-> Absent],
             task |-> [t \in Task |-> NoTask],
             send |-> [h \in Host |-> NoSend],
             read |-> {}, unmarked |-> {}]
  /\ commands = <<>>

Running == team.phase = "running"
Holds(s) == s.lease = "held"
\* Calls of the store under run.ctx fail once it has ended.
Writable(s) == Holds(s) /\ s.ctx

In(s, state) == {m \in Inbox : s.inbox[m].state = state}
ActiveTasks(s) == {t \in Task : s.task[t].active}
Queued(s) == \E t \in Task : s.task[t].state = "queued"

-----------------------------------------------------------------------------
(* The store.  A write under a lost lease changes nothing. *)

Mark(s, items, state) ==
  [s EXCEPT !.inbox = [m \in Inbox |-> IF m \in items THEN [@[m] EXCEPT !.state = state]
                                                     ELSE @[m]]]

\* PutMessage: a new or a failed message is pending, any other stays as it is.
PutMessage(s, m) ==
  IF s.inbox[m].state \in {"none", "failed"} THEN Mark(s, {m}, "pending") ELSE s

\* A mutant: the claims come back as if nobody had sent them.
AcquireScopeUnmarked(s) ==
  [s EXCEPT !.inbox = [m \in Inbox |-> IF @[m].state = "delivering"
                                       THEN [state |-> "pending", dup |-> FALSE]
                                       ELSE @[m]]]

\* AcquireScope gives the last owner's claims back, marked as possible duplicates.
AcquireScope(s) ==
  [s EXCEPT !.inbox = [m \in Inbox |-> IF @[m].state = "delivering"
                                       THEN [state |-> "pending", dup |-> TRUE]
                                       ELSE @[m]]]

-----------------------------------------------------------------------------
(* The helpers of the loop. *)

\* cancelTasks stops what runs and cancels what is queued.
CancelTasks(s) ==
  LET queued == {t \in Task : ~s.task[t].active /\ s.task[t].state = "queued"}
  IN [s EXCEPT
        !.task = [t \in Task |->
                    IF s.task[t].active THEN [@[t] EXCEPT !.stopped = TRUE]
                    ELSE IF t \in queued
                         THEN [@[t] EXCEPT !.state = "cancelled",
                                           !.saved = IF Holds(s) THEN "cancelled" ELSE @]
                         ELSE @[t]],
        !.fatal = IF @ = "none" /\ queued # {} /\ ~Holds(s) THEN "error" ELSE @]

Abort(s, err) ==
  LET f == [s EXCEPT !.fatal = IF @ = "none" THEN err ELSE @]
  IN IF s.stopping THEN f
     ELSE CancelTasks([f EXCEPT !.stopping = TRUE, !.wake = FALSE,
                                !.stream.cancelled = @ \/ s.leader # 0])

StopForLimit(s) ==
  CancelTasks([s EXCEPT !.fatal = IF ActiveTasks(s) # {} \/ Queued(s) THEN "limit" ELSE @,
                        !.stopping = TRUE, !.wake = FALSE])

ScheduleWake(s) == IF s.hard \/ s.stopping THEN s ELSE [s EXCEPT !.wake = TRUE]

FinishMessages(s, items, state) ==
  IF Holds(s) THEN Mark(s, items, state) ELSE Abort(s, "error")

RequeueMessages(s, items) ==
  IF Writable(s) THEN Mark(s, items, "pending") ELSE Abort(s, "error")

\* updateTask saves the state, and the wake message of a task that ends with it.
UpdateTask(s, t, state, notes) ==
  LET u == [s EXCEPT !.task[t].state = state]
  IN IF Holds(s) THEN Mark([u EXCEPT !.task[t].saved = state], notes, "pending")
     ELSE Abort(u, "error")

\* A leader execution gets what is left of the turn budget.
StartLeader(s, item) ==
  IF s.hard \/ s.stopping THEN s
  ELSE [s EXCEPT !.started = @ + 1, !.leader = s.started + 1, !.leaderErr = "none",
                 !.stream = [NoStream EXCEPT !.pc = "starting", !.open = TRUE,
                                             !.first = item, !.accepted = {item},
                                             !.cap = MaxLeaderTurns - s.turns,
                                             !.cancelled = ~s.ctx]]

\* deliver sends in a goroutine, in order per stream.  A call of Send waits for `host`.
Deliver(s, item, host) ==
  [s EXCEPT !.deliveries = Append(@, [to |-> s.leader, item |-> item, host |-> host]),
            !.sending = @ + 1]

ToLeader(s, item) == IF s.leader = 0 THEN StartLeader(s, item) ELSE Deliver(s, item, FALSE)

\* Messages about a task the leader has cancelled are dropped, host messages
\* go one by one, the rest as one batch.
FlushNotifications(s) ==
  LET claimed == In(s, "pending")
      dropped == {m \in claimed : \E t \in Task : About(m, t) /\ s.task[t].leaderCancelled}
      notes == {m \in claimed \ dropped : ~IsHost(m)}
      c == Mark(Mark(s, claimed, "delivering"), dropped, "failed")
      sent == FoldLeft(LAMBDA u, m : ToLeader(u, {m}), c,
                       SetToSeq((claimed \ dropped) \ notes))
  IN IF s.stopping \/ s.hard THEN s
     ELSE IF ~Writable(s) THEN Abort(s, "error")
     ELSE IF notes = {} THEN sent ELSE ToLeader(sent, notes)

WakeLeader(s) == IF s.leader # 0 THEN FlushNotifications(s) ELSE ScheduleWake(s)

QueueNotification(s, m) ==
  IF ~Writable(s) THEN Abort(s, "error")
  ELSE IF Wakes(m) THEN WakeLeader(PutMessage(s, m)) ELSE PutMessage(s, m)

\* checkLimit warns the leader once near the limit and is hard at it.
CheckLimit(s, used, limit) ==
  LET w == IF used >= limit - limit \div 5 /\ used < limit /\ s.inbox[Warning].state = "none"
           THEN QueueNotification(s, Warning) ELSE s
  IN IF used < limit THEN w
     ELSE IF w.leader = 0 THEN StopForLimit([w EXCEPT !.hard = TRUE])
     ELSE [w EXCEPT !.hard = TRUE]

WaitingForResults(s) ==
  \E t \in ActiveTasks(s) : s.stopping \/ s.task[t].leaderCancelled

\* completedSubagents answers the leader's collect with what has ended.
Answer(s) ==
  IF s.collecting
  THEN [s EXCEPT !.collecting = FALSE, !.stream.pc = "collected"]
  ELSE s

\* scheduleTasks, for one task of the order.
StartTask(s, t) ==
  LET busy == {u \in ActiveTasks(s) : MemberOf[u] = MemberOf[t]}
      run == [s EXCEPT !.task[t].active = TRUE, !.task[t].stopped = ~s.ctx]
  IN IF \/ s.stopping \/ s.hard \/ s.task[t].state # "queued"
        \/ Cardinality(ActiveTasks(s)) >= MaxActiveTasks
        \/ Cardinality(busy) >= MaxActive[MemberOf[t]]
        \/ MemberOf[t] \in PerScope /\ busy # {}
     THEN s
     ELSE IF Holds(s) THEN UpdateTask(run, t, "running", {})
     ELSE [UpdateTask(run, t, "running", {}) EXCEPT !.task[t].active = FALSE]

ScheduleTasks(s) == FoldLeft(StartTask, s, s.order)

-----------------------------------------------------------------------------
(* handle. *)

\* completeLocked: a call of Send has one answer.
Complete(s, h, answer) ==
  [s EXCEPT !.send[h].answer = IF @ = "open" THEN answer ELSE @]

Reject(s, h, answer, claimed) ==
  LET c == Complete(s, h, answer)
  IN IF claimed THEN FinishMessages(c, {FromHost(h)}, "failed") ELSE c

\* A host message, new or back from a leader that had finished.  admitHost puts
\* it in the inbox and claims it; a message delivered or in delivery is answered
\* without more work.
OnHost(s, h, claimed) ==
  LET m == FromHost(h)
      answer == s.send[h].answer
      put == PutMessage(s, m)
      c == Mark(put, {m}, "delivering")
  IN CASE answer # "open" -> IF claimed /\ answer # "ok" THEN Reject(s, h, answer, TRUE) ELSE s
       [] answer = "open" /\ ~s.ctx -> Abort(Reject(s, h, "cancelled", claimed), "cancelled")
       [] answer = "open" /\ s.ctx /\ (s.stopping \/ s.hard) -> Reject(s, h, "limit", claimed)
       [] OTHER ->
            IF ~claimed /\ ~Holds(s) THEN Complete(s, h, "error")
            ELSE IF ~claimed /\ put.inbox[m].state # "pending" THEN Complete(put, h, "ok")
            ELSE IF s.leader = 0 THEN Complete(StartLeader(c, {m}), h, "ok")
            ELSE Deliver(c, {m}, TRUE)

\* Mutants: a delivery that fails while the execution stops keeps its claim; a
\* rejected host message goes back to the inbox like a notification.
OnSendEndForgets(s, c) ==
  LET d == [s EXCEPT !.sending = @ - 1]
      hosts == {h \in Host : FromHost(h) \in c.item}
  IN IF c.err = "none" \/ c.item = {} THEN d
     ELSE IF c.host /\ c.err = "finished" /\ ~s.stopping /\ ~s.hard
     THEN OnHost(d, CHOOSE x \in hosts : TRUE, TRUE)
     ELSE IF s.stopping \/ s.hard THEN d ELSE RequeueMessages(d, c.item)
OnSendEndRequeues(s, c) ==
  LET d == [s EXCEPT !.sending = @ - 1]
  IN IF c.err = "none" \/ c.item = {} THEN d
     ELSE IF s.stopping \/ s.hard THEN FinishMessages(d, c.item, "failed")
     ELSE RequeueMessages(d, c.item)

\* The end of a delivery.  A host call whose leader had finished goes to the next
\* one; a notification that was not accepted goes back to the inbox.
OnSendEnd(s, c) ==
  LET d == [s EXCEPT !.sending = @ - 1]
      live == ~s.stopping /\ ~s.hard
      notes == {m \in c.item : ~IsHost(m)}
      settled == CASE c.err = "none" \/ c.item = {} -> d
                   [] c.err # "none" /\ notes # {} /\ live /\ s.ctx ->
                        LET r == RequeueMessages(d, notes)
                        IN IF r.leader = 0 THEN ScheduleWake(r) ELSE r
                   [] OTHER -> FinishMessages(d, c.item, "failed")
      hosts == {h \in Host : FromHost(h) \in c.item}
  IN IF c.host /\ c.err = "finished"
     THEN LET h == CHOOSE x \in hosts : TRUE
          IN IF live THEN OnHost(d, h, TRUE) ELSE Complete(settled, h, "finished")
     ELSE settled

\* A mutant: what a leader did not read is failed, notifications included.
OnMessageUpdateDrops(s, c) == FinishMessages(s, c.item, c.state)

\* The leader's outcome for a message.  A notification, or a host message whose
\* leader failed, waits for the next leader.
OnMessageUpdate(s, c) ==
  CASE c.state = "delivered" -> FinishMessages(s, c.item, "delivered")
    [] c.state = "failed" ->
         IF /\ ~(\E m \in c.item : IsHost(m) /\ c.reason # "runFailed")
            /\ ~s.stopping /\ ~s.hard /\ s.ctx
         THEN RequeueMessages(s, c.item)
         ELSE FinishMessages(s, c.item, "failed")

OnTurnEnd(s, err) ==
  LET u == [s EXCEPT !.turns = @ + 1, !.messages = 0,
                     !.leaderErr = IF err # "none" THEN err ELSE @]
  IN CheckLimit(u, u.turns, MaxLeaderTurns)

\* The leader has ended: retry a transient failure at most twice, give up on
\* another, and wake for what the inbox holds.
OnLeaderEnd(s, err) ==
  LET e == [s EXCEPT !.leader = 0, !.stream = NoStream]
      pending == \E m \in In(s, "pending") : Wakes(m)
      r == [e EXCEPT !.retries = @ + 1]
      note == <<"resume", IF r.retries = 1 THEN "first" ELSE "second">>
  IN CASE s.stopping -> e
       [] ~s.stopping /\ s.hard -> StopForLimit(e)
       [] ~s.stopping /\ ~s.hard /\ err = "none" ->
            IF ~s.ctx THEN Abort([e EXCEPT !.retries = 0], "cancelled")
            ELSE IF pending THEN ScheduleWake([e EXCEPT !.retries = 0])
            ELSE [e EXCEPT !.retries = 0]
       [] ~s.stopping /\ ~s.hard /\ err = "retry" /\ s.retries < 2 ->
            IF ~s.ctx THEN Abort(r, "cancelled")
            ELSE ScheduleWake(IF pending THEN r ELSE QueueNotification(r, note))
       [] OTHER -> Abort(e, err)

\* A mutant: a leader that waits for the tasks it has cancelled is not answered.
OnTaskEndSilent(s, t, err) ==
  UpdateTask([s EXCEPT !.task[t].active = FALSE], t,
             IF err = "none" THEN "succeeded" ELSE "failed", {Ended(t)})

\* A member has ended: its state and the wake message are saved together, and a
\* leader that waits for results is answered.
OnTaskEnd(s, t, err) ==
  LET e == [s EXCEPT !.task[t].active = FALSE]
      byLeader == s.task[t].leaderCancelled
      state == CASE byLeader \/ (err # "none" /\ s.stopping) -> "cancelled"
                 [] ~byLeader /\ err = "none" -> "succeeded"
                 [] ~byLeader /\ ~s.stopping /\ err = "cancelled" -> "interrupted"
                 [] OTHER -> "failed"
      tells == ~byLeader /\ ~s.stopping
      u == UpdateTask(e, t, state, IF tells THEN {Ended(t)} ELSE {})
      a == IF WaitingForResults(u) THEN u ELSE Answer(u)
  IN IF tells /\ ~a.stopping THEN WakeLeader(a) ELSE a

\* A member's event.
OnTaskEvent(s, t, name) ==
  CASE name = "approval" -> UpdateTask(s, t, "waiting", {})
    [] name = "resumed" -> IF s.task[t].state = "waiting"
                           THEN UpdateTask(s, t, "running", {}) ELSE s
    [] name = "text" ->
         LET u == IF s.task[t].state = "waiting" THEN UpdateTask(s, t, "running", {}) ELSE s
         IN IF Writable(s) THEN QueueNotification(u, Progress(t)) ELSE Abort(u, "error")

\* Collecting the results of a leader that is finishing: it waits for the tasks
\* it has cancelled, and for all of them when the execution stops.
OnCollect(s) ==
  LET a == IF s.ctx THEN s ELSE Abort(s, "cancelled")
      b == IF a.hard THEN StopForLimit(a) ELSE a
      c == IF b.leaderErr # "none" /\ (b.leaderErr # "retry" \/ b.retries >= 2)
           THEN Abort(b, b.leaderErr) ELSE b
      d == [c EXCEPT !.collecting = TRUE]
  IN IF WaitingForResults(d) THEN d ELSE Answer(d)

Delegate(s, t) ==
  LET queued == [s EXCEPT !.task[t].state = "queued", !.task[t].saved = "queued",
                          !.order = Append(@, t), !.count = @ + 1]
  IN IF s.hard \/ s.count >= MaxTasks THEN s
     ELSE IF ~Writable(s) THEN Abort(s, "error")
     ELSE CheckLimit(queued, queued.count, MaxTasks)

CancelTask(s, t) ==
  LET doomed == [s EXCEPT !.task[t].leaderCancelled = TRUE]
  IN IF s.task[t].state \in Terminal \cup {"none"} THEN s
     ELSE IF s.task[t].active THEN [doomed EXCEPT !.task[t].stopped = TRUE]
     ELSE UpdateTask(doomed, t, "cancelled", {})

\* toolSend: the leader sends to a member's stream, a member to the leader's inbox.
\* The limit per sender is taken to be no smaller than the one for all.
ToolSend(s, t, toMember) ==
  LET told == [s EXCEPT !.messages = @ + 1]
      sent == CheckLimit(told, told.messages, MaxAgentMessages)
  IN IF \/ s.hard \/ s.messages >= MaxAgentMessages
        \/ s.task[t].state \in Terminal \/ ~s.task[t].active
     THEN s
     ELSE IF toMember
     THEN [sent EXCEPT !.deliveries = Append(@, [to |-> 0, item |-> {}, host |-> FALSE]),
                       !.sending = @ + 1]
     ELSE CheckLimit(QueueNotification(told, Question(t)), told.messages, MaxAgentMessages)

\* handleTool: ask is a member's send.  A call whose execution has been detached is
\* refused.
OnTool(s, c) ==
  LET t == c.task
      live == IF c.name = "ask" THEN s.task[t].active /\ ~s.task[t].over
              ELSE c.from = s.leader /\ s.stream.pc \in {"starting", "running", "collecting"}
  IN CASE s.stopping \/ ~live -> s
       [] ~s.stopping /\ live /\ c.name = "delegate" -> Delegate(s, t)
       [] ~s.stopping /\ live /\ c.name = "cancel" -> CancelTask(s, t)
       [] ~s.stopping /\ live /\ c.name \in {"send", "ask"} -> ToolSend(s, t, c.name = "send")

Handled(s, c) ==
  CASE c.kind = "host" -> OnHost(s, c.of, FALSE)
    [] c.kind = "sendEnd" -> OnSendEnd(s, c)
    [] c.kind = "update" -> OnMessageUpdate(s, c)
    [] c.kind = "turn" -> OnTurnEnd(s, c.err)
    [] c.kind = "end" -> OnLeaderEnd(s, c.err)
    [] c.kind = "collect" -> OnCollect(s)
    [] c.kind = "tool" -> OnTool(s, c)
    [] c.kind = "event" -> OnTaskEvent(s, c.task, c.name)
    [] c.kind = "taskEnd" -> OnTaskEnd(s, c.task, c.err)

-----------------------------------------------------------------------------
(* The loop of execute. *)

Quiet(s) == s.leader = 0 /\ ActiveTasks(s) = {} /\ s.sending = 0
Stopped == team.stopping /\ Quiet(team)
Idle == ~team.stopping /\ Quiet(team) /\ ~Queued(team) /\ ~team.wake
\* Idle with messages that should wake the leader, claimed ones included.
Pending ==
  ~team.hard /\ \E m \in In(team, "pending") \cup In(team, "delivering") : Wakes(m)

Handle ==
  /\ Running /\ commands # <<>> /\ ~Stopped
  /\ Idle => team.ctx /\ ~Pending
  /\ \E s \in {Handled(team, Head(commands))} : team' = IF Idle THEN s ELSE ScheduleTasks(s)
  /\ commands' = Tail(commands)

IdleWake ==
  /\ Running /\ Idle /\ team.ctx /\ Pending
  /\ team' = ScheduleWake(team)
  /\ UNCHANGED commands

WakeFires ==
  /\ Running /\ ~Stopped /\ team.wake
  /\ \E s \in {[team EXCEPT !.wake = FALSE]} :
       team' = ScheduleTasks(IF s.leader = 0 /\ ~s.hard /\ ~s.stopping
                             THEN FlushNotifications(s) ELSE s)
  /\ UNCHANGED commands

ContextEnds ==
  /\ Running /\ ~Stopped /\ ~team.ctx /\ ~team.seen
  /\ team' = ScheduleTasks(Abort([team EXCEPT !.seen = TRUE], "cancelled"))
  /\ UNCHANGED commands

RenewFails ==
  /\ Running /\ ~Stopped /\ team.lease = "lost" /\ ~team.stopping
  /\ team' = ScheduleTasks(Abort(team, "error"))
  /\ UNCHANGED commands

\* finish releases the lease; commands that were not taken are never handled.
Finish ==
  /\ Running
  /\ Stopped \/ (Idle /\ team.ctx /\ ~Pending /\ commands = <<>>)
  /\ team' = [team EXCEPT !.phase = "finished", !.wake = FALSE,
                          !.lease = IF Holds(team) THEN "free" ELSE @,
                          !.fatal = IF @ = "none" /\ ~Holds(team) THEN "error" ELSE @]
  /\ commands' = <<>>

\* startOwned and the start of execute: acquire the scope, mark the tasks of a lost
\* execution interrupted, admit the first message.
Start(h) ==
  /\ h \in Opening /\ ~Running /\ team.lease \in {"free", "expired"} /\ team.runs < MaxRuns
  /\ team.send[h].pc # "posted"
  /\ LET m == FromHost(h)
         lost == {t \in Task : team.task[t].saved \notin Terminal \cup {"none"}}
         a == AcquireScope(Fresh(team))
         l == [a EXCEPT !.order = SetToSeq(lost),
                        !.task = [t \in Task |->
                           LET saved == IF t \in lost THEN "interrupted" ELSE @[t].saved
                           IN [NoTask EXCEPT !.state = saved, !.saved = saved]]]
         p == PutMessage([l EXCEPT !.send[h].pc = "returned"], m)
     IN team' = IF p.inbox[m].state = "pending"
                THEN StartLeader(Mark(p, {m}, "delivering"), {m}) ELSE p
  /\ commands' = <<>>

-----------------------------------------------------------------------------
(* The other goroutines: what posts commands. *)

\* post blocks while the channel is full; what one goroutine posts in a row is
\* one step.
PostAll(cs) == Len(commands) < Depth /\ commands' = commands \o cs
Post(c) == PostAll(<<c>>)
Posted(kind) == \E c \in ToSet(commands) : c.kind = kind
Change(s) == team' = s

Leading == Running /\ team.leader # 0
Update(i, state, reason) == [kind |-> "update", item |-> i, state |-> state, reason |-> reason]
Collect == [kind |-> "collect"]
\* The outcome of every message the leader has accepted.
Failures(reason) ==
  [i \in 1..Cardinality(team.stream.accepted) |->
     Update(SetToSeq(team.stream.accepted)[i], "failed", reason)]

LeaderReads(i) ==
  /\ Leading /\ i \in team.stream.accepted
  /\ \/ team.stream.pc = "running"
     \/ team.stream.pc = "starting" /\ i = team.stream.first
  /\ Change([team EXCEPT !.stream.pc = "running", !.stream.accepted = @ \ {i}, !.read = @ \cup i,
                         !.unmarked = @ \cup {m \in i : m \in team.read
                                                        /\ ~team.inbox[m].dup}])
  /\ Post(Update(i, "delivered", "none"))

LeaderTurns ==
  /\ Leading /\ team.stream.pc = "running" /\ team.stream.turns < team.stream.cap
  /\ Change([team EXCEPT !.stream.turns = @ + 1])
  /\ Post([kind |-> "turn", err |-> "none"])

LeaderCalls(name, t) ==
  /\ Leading /\ team.stream.pc = "running" /\ ~Posted("tool")
  /\ (name = "delegate") = (team.task[t].state = "none")
  /\ Post([kind |-> "tool", name |-> name, task |-> t, from |-> team.leader])
  /\ UNCHANGED team

\* closeIfIdle, or the turn budget is spent.
LeaderSucceeds ==
  /\ Leading /\ team.stream.pc = "running" /\ team.stream.turns > 0
  /\ team.stream.accepted = {} \/ team.stream.turns = team.stream.cap
  /\ Change([team EXCEPT !.stream.pc = "collecting", !.stream.open = FALSE,
                         !.stream.accepted = {}])
  /\ PostAll(Append(Failures("limit"), Collect))

LeaderErrors == {"retry", "fatal"} \cup IF team.stream.cancelled THEN {"cancelled"} ELSE {}
LeaderFails(err) ==
  /\ Leading /\ team.stream.pc \in {"starting", "running"} /\ err \in LeaderErrors
  /\ team.stream.turns < team.stream.cap
  /\ Change([team EXCEPT !.stream.pc = "collecting", !.stream.err = err,
                         !.stream.reason = IF team.stream.cancelled THEN "cancelled"
                                           ELSE "runFailed"])
  /\ PostAll(<<[kind |-> "turn", err |-> err], Collect>>)

\* The leader's preparation fails: no turn, and nothing to collect.
LeaderRefused(err) ==
  /\ Leading /\ team.stream.pc = "starting" /\ err \in LeaderErrors
  /\ Change([team EXCEPT !.stream.pc = "collected", !.stream.err = err,
                         !.stream.reason = IF team.stream.cancelled THEN "cancelled"
                                           ELSE "rejected"])
  /\ UNCHANGED commands

LeaderEnds ==
  /\ Leading /\ team.stream.pc = "collected"
  /\ Change([team EXCEPT !.stream.pc = "ended", !.stream.open = FALSE,
                         !.stream.accepted = {}])
  /\ PostAll(Append(Failures(team.stream.reason),
                    [kind |-> "end", err |-> team.stream.err]))

\* The goroutine of deliver, in order per stream unless its context has ended.
DeliverySends(i) ==
  LET d == team.deliveries[i]
      h == CHOOSE x \in Host : FromHost(x) \in d.item
      live == IF d.host THEN team.send[h].ctx ELSE team.ctx
      done == d.host /\ team.send[h].answer # "open"
      rest == [team EXCEPT !.deliveries = RemoveAt(@, i)]
      End(err) == [kind |-> "sendEnd", item |-> d.item, host |-> d.host, err |-> err]
      Reply(s, answer) == IF d.host THEN Complete(s, h, answer) ELSE s
  IN /\ Running /\ i \in DOMAIN team.deliveries
     /\ ~live \/ \A j \in 1..(i - 1) : team.deliveries[j].to # d.to
     /\ \/ /\ done
           /\ Change(rest) /\ Post(End(team.send[h].answer))
        \/ /\ ~done /\ d.to = 0
           /\ Change(rest) /\ Post(End("none"))
        \/ /\ ~done /\ d.to # 0 /\ (~live \/ (d.to = team.leader /\ team.stream.cancelled))
           /\ Change(Reply(rest, "cancelled")) /\ Post(End("cancelled"))
        \/ /\ ~done /\ live /\ d.to = team.leader /\ team.stream.open /\ ~team.stream.cancelled
           /\ Change(Reply([rest EXCEPT !.stream.accepted = @ \cup {d.item}], "ok"))
           /\ Post(End("none"))
        \/ /\ ~done /\ live /\ d.to = team.leader /\ team.stream.open /\ ~team.stream.cancelled
           /\ "admission" \in Faults
           /\ Change(Reply(rest, "rejected")) /\ Post(End("rejected"))
        \/ /\ ~done /\ live /\ d.to # 0 /\ ~team.stream.cancelled
           /\ ~(d.to = team.leader /\ team.stream.open)
           /\ Change(rest) /\ Post(End("finished"))

TaskWorks(t) == Running /\ team.task[t].active /\ ~team.task[t].over
\* Bound: a member has one unhandled event or question at a time.
TaskQuiet(t) == ~\E c \in ToSet(commands) : c.kind \in {"event", "tool"} /\ c.task = t

TaskEmits(t, name) ==
  /\ TaskWorks(t) /\ TaskQuiet(t)
  /\ name = "text" => team.inbox[Progress(t)].state = "none"
  /\ name = "approval" => team.task[t].state = "running"
  /\ name = "resumed" => team.task[t].state = "waiting"
  /\ Post([kind |-> "event", task |-> t, name |-> name])
  /\ UNCHANGED team

TaskAsks(t) ==
  /\ TaskWorks(t) /\ TaskQuiet(t) /\ team.inbox[Question(t)].state = "none"
  /\ Post([kind |-> "tool", name |-> "ask", task |-> t, from |-> 0])
  /\ UNCHANGED team

TaskEnds(t, err) ==
  /\ TaskWorks(t)
  /\ err = "cancelled" => team.task[t].stopped
  /\ Change([team EXCEPT !.task[t].over = TRUE])
  /\ Post([kind |-> "taskEnd", task |-> t, err |-> err])

\* Stream.Send.
HostSends(h) ==
  /\ Running /\ team.send[h].pc = "idle" /\ h \in team.scene.hosts
  /\ Change([team EXCEPT !.send[h].pc = "posted"])
  /\ Post([kind |-> "host", of |-> h])

\* The context of a Send ends.
HostGivesUp(h) ==
  /\ "giveUp" \in Faults /\ team.send[h].pc = "posted" /\ team.send[h].ctx
  /\ Change(Complete([team EXCEPT !.send[h].ctx = FALSE], h, "cancelled"))
  /\ UNCHANGED commands

SendReturns(h) ==
  /\ team.send[h].pc = "posted"
  /\ team.send[h].answer # "open" \/ ~Running
  /\ Change([Complete(team, h, "finished") EXCEPT !.send[h].pc = "returned"])
  /\ UNCHANGED commands

-----------------------------------------------------------------------------
(* Faults. *)

\* Stream.Cancel, Team.Close or the end of the caller's context.
CancelExecution ==
  /\ "cancel" \in Faults /\ Running /\ team.ctx
  /\ Change([team EXCEPT !.ctx = FALSE, !.stream.cancelled = @ \/ team.leader # 0,
                         !.task = [t \in Task |-> IF @[t].active
                                                  THEN [@[t] EXCEPT !.stopped = TRUE]
                                                  ELSE @[t]]])
  /\ UNCHANGED commands

LoseLease ==
  /\ "lease" \in Faults /\ Running /\ Holds(team)
  /\ Change([team EXCEPT !.lease = "lost"])
  /\ UNCHANGED commands

\* The process dies; its lease runs out later.
Crash ==
  /\ "crash" \in Faults /\ Running
  /\ Change([Fresh(team) EXCEPT !.phase = "idle", !.runs = team.runs,
               !.lease = IF Holds(team) THEN "orphan" ELSE team.lease,
               !.task = [t \in Task |-> [NoTask EXCEPT !.saved = team.task[t].saved]],
               !.send = [h \in Host |-> IF team.send[h].pc = "posted"
                                        THEN [NoSend EXCEPT !.pc = "returned", !.answer = "lost"]
                                        ELSE team.send[h]]])
  /\ commands' = <<>>

LeaseExpires ==
  /\ ~Running /\ team.lease \in {"orphan", "lost"}
  /\ Change([team EXCEPT !.lease = "expired"])
  /\ UNCHANGED commands

-----------------------------------------------------------------------------

Loop == Handle \/ IdleWake \/ WakeFires \/ ContextEnds \/ RenewFails \/ Finish
Leader ==
  \/ \E i \in team.stream.accepted : LeaderReads(i)
  \/ LeaderTurns \/ LeaderSucceeds \/ LeaderEnds
  \/ \E err \in {"retry", "fatal", "cancelled"} : LeaderFails(err) \/ LeaderRefused(err)
  \/ \E name \in Calls, t \in Task : LeaderCalls(name, t)
Members ==
  \E t \in Task :
    \/ "ask" \in Acts /\ TaskAsks(t)
    \/ \E name \in Acts \ {"ask"} : TaskEmits(t, name)
    \/ \E err \in {"none", "failed", "cancelled"} : TaskEnds(t, err)
Hosts == \E h \in Host : \/ Start(h) \/ HostSends(h) \/ HostGivesUp(h)
                         \/ SendReturns(h)
Environment == CancelExecution \/ LoseLease \/ Crash \/ LeaseExpires

Next ==
  \/ Loop \/ Leader \/ Members \/ Hosts \/ Environment
  \/ \E i \in DOMAIN team.deliveries : DeliverySends(i)

Spec == Init /\ [][Next]_vars

LeaderStops ==
  LeaderSucceeds \/ \E err \in {"retry", "fatal", "cancelled"} :
                      LeaderFails(err) \/ LeaderRefused(err)

\* The loop runs and its timer fires; a leader and a member come to an end, whatever
\* they do before; a goroutine blocked on the channel is served in its turn (strong
\* fairness: the channel is full again and again); the host need do nothing.
FairSpec ==
  /\ Spec
  /\ WF_vars(Loop)
  /\ SF_vars(\/ LeaderStops \/ LeaderEnds
             \/ \E t \in Task, err \in {"none", "failed", "cancelled"} : TaskEnds(t, err))
  /\ SF_vars(\E i \in DOMAIN team.deliveries : DeliverySends(i))

-----------------------------------------------------------------------------
(* Properties. *)

\* The execution has finished and released its lease.
Over == team.phase = "finished" /\ team.lease = "free"

\* NothingStranded: an execution that has released its scope leaves no message in
\* delivery.  A claim passes through the delivery goroutine, the leader's hub and the
\* loop (deliver, onEvent, sendEnd), any of which may be the last to hold it.
NothingStranded == Over => In(team, "delivering") = {}

\* RejectedWithdrawn: when a Send has returned an error and the execution is over, the
\* message is not left in the durable inbox, where a later execution would deliver
\* what the host believes refused (execute, sendEnd and rejectHostClaim).
RejectedWithdrawn ==
  \A h \in Host :
    (/\ Over /\ team.send[h].pc = "returned"
     /\ team.send[h].answer \notin {"open", "ok", "lost"})
      => team.inbox[FromHost(h)].state \notin {"pending", "delivering"}

\* ReplayMarked: a message that a leader reads a second time, because the process
\* died after the first, is marked as a possible duplicate (AcquireScope).
ReplayMarked == team.unmarked = {}

\* OutcomesTold: an execution that ends without an error and below its limits leaves
\* no message that should wake the leader, every task it took on is settled in the
\* store, and the leader has read how each one ended that it did not cancel
\* (onEnd, flushNotifications and the idle check of execute).
OutcomesTold ==
  Over /\ team.fatal = "none" /\ ~team.hard =>
    /\ \A m \in In(team, "pending") : ~Wakes(m)
    /\ \A t \in ToSet(team.order) :
         /\ team.task[t].saved \in Terminal
         /\ team.task[t].saved \in {"succeeded", "failed"} =>
              team.inbox[Ended(t)].state = "delivered"

\* ExecutionsEnd: every execution ends once its leaders and members do.  The loop
\* stops only when nobody runs and nothing is in delivery, a leader waits in Results
\* for the tasks it has cancelled, and the goroutines wait for room in the channel.
ExecutionsEnd == []<>~Running
=============================================================================
