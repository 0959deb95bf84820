# A TLA+ development of agent-adaptor

agent-adaptor drives command-line agents (Codex, Claude Code, Cursor,
CodeBuddy) from Go. A host opens an `Agent`, sends prompts directly or on a
stored `Thread`, and reads a `Stream` of events; while a run is on it may send
supplemental messages and answer approval requests. This directory models the
parts of that runtime in which several goroutines share state.

## Parts and modules

| Part | Source | Module |
|---|---|---|
| message hub of one execution | `messages.go` | `MessageHub` |
| execution loop around the hub | `invocation.go`, `sink.go`, `stream.go` | `Invocation` |

`MessageHub` has one action per critical section of `messageHub.mu`. Its
variables are the fields of `messageHub` and `hubItem` (`items`, `st`,
`claimed`, `turnOf`, `endOnly`, `dup`, `delivered`, `receipts`, `finished`,
`cancelled`, ...), plus the progress of every `Send` call. A message is an opaque
ID; its text is reduced to a size in provider units, because only the budget
(`MaxUnits`) looks at it. The order in which the core calls the hub is left open.

`Invocation` extends it with the loop of `executeInvocation`: prepare, dispatch
`Driver.Run`, acknowledge the prompt, complete the turn, judge it, seal the hub or
claim what is pending for another turn, tear down. Sends, the driver's claims and
acknowledgements, and cancellation interleave with every step.

## Runs

| Run | Question |
|---|---|
| `invocation_races` | two sends on a queue of one race the driver, the seal and cancellation |
| `invocation_claims` | batches under a provider budget, the wrap-up instruction, doubtful redelivery |
| `agent_close` | callers of Close race runs, processes and failing steps |
| `invocation_live` | under fair scheduling every execution ends and every send returns |

## Proofs

`MessageHubProofs` proves the hub's invariants for every set of messages and
calls and every policy. The inductive invariant `HubInv` adds `Consistent` to
the properties: `byID` and `items` name the same messages, and before the driver
runs only the prompt and carried messages are claimed. Without the second fact
`Load` could not be shown to keep deliveries unique. `InvocationProofs` shows
that an execution only makes steps the hub allows, and carries the invariant over.
