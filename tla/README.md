# Formal models of agent-framework-go

TLA+ models of the parts of this repository where ordering, concurrency and
failure decide whether the program is right. Eight models (the event stream of
a run, its state, its supersteps, the ownership of a workflow, the checkpoint
store, the fan-in barrier, the turns of an agent with approvals, and the group
chat) are model-checked with TLC on small instances, and theorems about each
are proved with TLAPS for every value of its constants.

Paths are relative to the repository root. `workflow/internal/execution` is
abbreviated to `execution` below.

## 1. The system

The repository has two halves. `workflow/` is a message-passing engine in the
style of bulk synchronous parallel computing: executors connected by edges run
in supersteps, and a run can be checkpointed after each of them. `agent/` is a library of agents over model
providers: one run of an agent is a sequential chain of middlewares around
calls of a model, each with books of its own in a session that outlives the
run. They meet in `workflow/agentworkflow`, where executors host agents and a
workflow can be wrapped as an agent again. Most of what interleaves, fails
half-way, persists or resumes is in `workflow/`; in `agent/` it is what several
turns, failures and reloads do to the books of a session.

### Components

| Component | State | Operations | Status |
|---|---|---|---|
| Run event stream (`execution/eventstream.go`, `run.go`) | input epoch and binary semaphore, run status, event queue, ready channel, cancel contexts | run loop; send, respond, watch, cancel, close, restore | modelled (streaming mode) |
| Run state (`execution/state.go`) | published scopes, queued updates per executor/scope/key | read, read keys, write, init, clear, publish, export, import | modelled |
| Superstep runner (`inproc/runner.go`, `context.go`) | external deliveries, next step, pending requests and their owners, last checkpoint | enqueue message/response, advance, deliver, post, send, checkpoint, restore, resume, close | modelled without events, hooks and joined subworkflows |
| Workflow ownership (`workflow/workflow.go`) | owner pointer, `needsReset` flag | take, hand back, release, reset | modelled without concurrent runs |
| Checkpoint store (`checkpoint/jsonstore.go`) | a file per checkpoint, `index.jsonl`, index in memory | open, create, undo a refused one, close | modelled without sessions |
| Edges (`execution/edgerunner.go`) | buffer and unseen sources of each barrier | process a message, map, export, import | fan-in barrier modelled |
| Subworkflow host (`inproc/subworkflow.go`) | joined child run, in-memory checkpoint manager | bind, start, join, checkpoint, restore, reset | its ownership only |
| Checkpoint managers (`checkpoint/manager.go`, `internal/checkpoint`) | map per session | commit, lookup | as a sequence inside Runner |
| Builder, graph, routing, executors | the graph | build, validate, look up a handler | not modelled (sequential) |
| Agents in workflows (`workflow/agentworkflow`) | accumulated messages, held turn token and pending requests of a hosted agent; transcript, speaker and count of a group chat; session of a wrapped workflow | turns, answers, dispatch, checkpoint, restore, turns of the session | group chat and hosting modelled; the other orchestrations not |
| Agent core (`agent/`) | session, history, injected messages | run, middlewares | message injection and per-call history modelled |
| Tool calling (`harness/toolautocall`) | pending requests, safe calls kept back | loop of model calls and tools, binding of answers | modelled without the iteration limit and tools that cannot be called |
| Tool approval (`harness/toolapproval`) | standing rules, collected answers, queued and surfaced requests | prepare, classify, surface, automatic rounds | modelled |
| Other harness providers (`agent/harness`) | todos, modes, files in the session | tools over it | not modelled (sequential) |
| Compaction (`agent/compaction`) | message index | strategies | planned as operators |
| Shell tool session (`tool/shelltool`) | external process | run, time out, close | planned if room is left |
| Providers, messages, tools, memory, skills, vector data, observability, generated clients | none, or a map behind one lock | translation and I/O | not modelled |

`PROJECT.json` lists them all with their files and reasons.

### How they interact

A caller holds a run handle (`execution/run.go`). It enqueues messages and
responses into the runner (external deliveries) and signals the stream's
`inputWaiter`; the stream's background loop (off-thread mode) or the consumer
itself (lockstep mode) calls `runner.RunSuperStep` as long as there is work.
A superstep drains the deliveries into the next step, swaps the steps, and runs
the receivers concurrently. Their handlers send through the edges into the
*next* step, post external requests, and queue state updates in the state
manager. When all handlers are through, the runner publishes the updates,
exports state, messages, requests and edges, and commits the whole to the
checkpoint manager, which may pass it to a store on disk. A restore goes the
other way, in place or in a new process. A subworkflow host is an executor
whose run of the child workflow is joined to the parent's supersteps. All runs
of one workflow value share its executors, which is what ownership is for.

An agent's run passes through its layers from the outside in: tool approval,
which keeps the queue of requests and shows its caller one at a time; tool
calling, which binds the answers to the calls they are about, runs tools and
calls the model again; message injection, which puts messages from other
goroutines before the next call; and history, persisted at each model call.
What a layer knows between turns is in the session, saved by each at moments
of its own, so that a run that fails leaves the layers at different ones.

A hosted agent accumulates messages until a turn token comes, runs, and sends
its answer and the token on; while its agent waits for answers of the caller
it holds the token. In a group chat the tokens go between a host, which
broadcasts what is said, asks its manager who is next and keeps the transcript,
and the participants. Wrapped as an agent, the workflow is run by a session
that turns its caller's messages into messages, responses and turn tokens, and
closes the run after each turn.

### Behaviours that are hard

Concurrent clients, watchers, restorers and cancellers around a loop that
sleeps on a binary semaphore; a halt event that acknowledges work while more
work arrives; handlers that run concurrently inside a superstep and fail one
by one; updates contested at publish; late, duplicate and forged responses;
restores between, and restarts inside, everything above; pointers compared
and swapped where nil is reused; file-system calls that fail half-way; a batch
of tools some of which have run when one fails; answers that are repeated,
changed or late over several turns; one turn token among executors that are
checkpointed apart.
`PROJECT.json` lists each hazard at its line with the properties that watch
it, or why none does yet.

### What makes each component correct

- *Stream*: a halt acknowledges exactly what was processed; no wake-up is lost;
  no watcher waits for a halt that cannot come; a run that dies says why;
  cancel joins the loop.
- *State*: each executor sees its own view during a superstep, views merge when
  it ends, a contested superstep leaves nothing to export.
- *Runner*: a checkpoint is a consistent cut; its parent is its past; nothing
  is handled twice nor lost without a failure; a response reaches the poster.
- *Ownership*: one run at a time, a bound workflow is not run directly, and it
  has one parent; nobody starts on what an earlier run left behind.
- *Store*: what was acknowledged survives, what was refused stays out, the
  index lists only what can be read and keeps the order.
- *Barrier*: rounds are complete, leave one at a time, and nothing is lost,
  duplicated or reordered.
- *Agent turns*: a guarded tool runs with consent only; a call has one outcome;
  every call of the model gets a result, whoever holds it in between; a
  standing rule covers what was queued before it.
- *Group chat*: one turn at a time; everybody hears what the others say, once
  and in order; transcripts are whole; the chat stands still only for its
  caller's answer, and goes on with it, also after a restore; together, it is one
  conversation in turns.

## 2. The modules

Definitions keep the names of the functions they model; the `map` of
`PROJECT.json` gives the lines of each. Where a handler's work is visible to
others in the middle (a lock let go, an atomic read and a later swap, two
signals in a row, two file-system calls), it is several actions joined by a
program counter; where a lock covers it, it is one action. Definitions with a
comment that begins "Mutant:" are wrong on purpose: each is a plausible bug,
and each property of a passing run is violated when one of them takes the
place of the definition it imitates.

**RunEventStream** models `execution/eventstream.go` (streaming mode) and what
`run.go` calls. Variables: `inputEpoch`/`signal`/`waiterClosed` are the
`inputWaiter`; `loopPc`/`epoch`/`status`/`cancelled`/`loopDone` the run loop;
`queue`/`eventReady`/`emit` the events, where `emit` splits the put from the
ready signal; the `...Pc` variables are the callers. A piece of *work* is one
external message and all that follows from it; what executors make of it is
chosen freely, up to `MaxTurns`. `stamp` is a history variable: the epoch of
the first signal after a piece of work was enqueued.

**SharedState** is the abstract specification of run state: a snapshot, a view
per executor, and a merge. **StateManager** is `execution/state.go` with its
queue of updates; it implements SharedState under the mapping in which an
executor's view is the published scopes with its queued updates applied
(`KeepsPromise`).

**Runner** is `inproc/runner.go` and `context.go`, composed with StateManager
(`Mgr == INSTANCE StateManager`). `offThread` tells the two modes apart: off
thread an error ends the loop, in lockstep the consumer may go on. Executors
log in their own scope what they handled and made, which is what lets an
invariant compare a checkpoint's state with its messages and requests. A sent
message goes to one receiver.

**WorkflowOwnership** is `TakeOwnership`, `ReleaseOwnershipTo` and `TryReset`
with each atomic load, swap and store a step of its own. A party is a
top-level run, a host that binds the workflow for good, or a run of a host.
Hosts have `new(struct{})` for a token, and Go may give all of these one address;
`OneIdentity` says whether the build does. Go's own compiler does, as these are
allocated on the heap, and the runs are of that case.

**CheckpointStore** is `checkpoint/jsonstore.go` over an explicit disk: files
and index lines that are written, synced, torn, truncated. Every call may
fail; a kill keeps what was written, a power failure only what was synced or
happened to reach the disk. **CheckpointLog** is what it promises its caller: a
log that a checkpoint is added to as a whole or not at all, also when the
process stops in the middle. CheckpointStore implements it under the mapping
that takes for the log the lines of the file, without the one in the making
(`IsALog`); once the store is `spoiled` nothing is promised.

**FanIn** is the barrier of `execution/edgerunner.go`: the locked
`processMessage`, the mapping of a released batch after the lock is gone,
export, import, and superstep boundaries.

**ToolApproval** holds the pure part of `toolapproval.go` as operators on a
record of rules, collected answers and queued requests: what an answer records,
what a rule takes out of the queue, how the requests of an inner run are
classified.

**AgentTurn** extends it to the turns of one session. `saved`, `surfaced` and
`raw` are the approval layer's books, `pending` and `auto` those of tool
calling, `called`/`answered` the history, `injected` the injector's queue; `st`
is the copy of the approval state a run works on, `todo`, `results`, `halt` the
batch of tools under way. `Receive`, `Surface` and `Classify` are the approval
layer, `Bind`, `RunTool`, `EndBatch`, `BatchFails` and `Terminate` tool
calling, `CallModel` and what follows it the inner layers and the model;
`Enqueue`, `Cancel` and `Reload` come from outside at any time, and `Abandon`
is a caller who stops reading. `consent`, `promised`, `ran`, `refused`,
`dropped` and `heard` record what happened for the properties.

**GroupChat** models `groupchat.go` and `hosting.go` with the accumulation of
messages and the request handlers under them, over a run with supersteps and
checkpoints (`Deliver`, `BeginStep`, `EndStep`, `Restore`). `Dispatch`,
`Decline` and `Terminate` are the host, `TakeTurn` and `TakeAnswer` a
participant, `Accumulate` either. `setup.hosted` chooses who drives the run: a
program, which sends messages and a token once (`Ask`) and responses
(`Answer`), or the session of the wrapped workflow (`AgentTurn`, `CloseRun`,
`AbortRun`). `said`, `aired` and `yielded` are history.
**Conversation** is what the chat is to somebody who drives it: a turn that the
caller hands over, the host passes on and a participant gives back, what was said
since the last transcript, and the transcripts. GroupChat implements it
(`IsAConversation`) under a mapping that reads the turn off the place of the
token and what was said off the host and the queues on the way to it
(`TurnAt`, `Spoken`); a checkpoint maps to a saved conversation. To the wrapped
workflow (`hosted`) nothing of it is promised, as it does run two turns at a time
(finding 2).

**MC...** modules instantiate these for TLC; **...Proofs** modules hold the
theorems.

```
SharedState   <--refined by-- StateManager <--INSTANCE-- Runner
CheckpointLog <--refined by-- CheckpointStore
Conversation  <--refined by-- GroupChat
ToolApproval  <--EXTENDS----- AgentTurn
RunEventStream    WorkflowOwnership    FanIn
```

RunEventStream and Runner are two views of one run: the former abstracts the
superstep to a loop over work, the latter abstracts the stream to an
alternation of idle and running. The store is what Runner calls a commit,
FanIn one edge that Runner abstracts to a direct send, and GroupChat a workflow
that runs on Runner's supersteps, whose checkpoint is one record here. An agent
that a participant of GroupChat hosts is one that speaks and may ask its
caller; AgentTurn is what goes on inside such an agent.

### Simplifications

Named here because a property could depend on them:

- Stream: the lockstep stream is not in RunEventStream; Runner has its loop.
  What one superstep does is one loop of nondeterministic steps on work.
- State: a scope without entries and no scope are the same.
- Runner: events, telemetry, output filters, executor hooks and joined
  subworkflow runners are left out; there is one port, and a response is
  either to the request's port or not.
- Ownership: concurrent runs, which check the owner and own nothing, are left
  out; two hazards name what they could do.
- Store: one caller at a time, as its comment asks; a truncation reaches the
  disk at once; sessions only filter and are left out.
- FanIn: conditions, target ids and types, which choose targets without state,
  are left out; a failed superstep is followed by a restore.
- AgentTurn: left out are the iteration limit, which takes the tools from the
  last model call; unknown tools and those declared only; calls the server
  handled; call ids used twice; requests and responses a caller writes into
  the messages himself; a stream abandoned while results are yielded; a tool
  that fails and ends the loop at once; history kept by a service, and history
  persisted per run and not per call.
- GroupChat: left out are the history filter of the builder and intercepted
  requests; an agent says one message in a turn. Requests that a resumed run
  posts again are skipped, as they change nothing, and ids used twice, which
  are refused. After a failed superstep the run is restored. Duplicate and
  forged answers are Runner's subject.

## 3. What is checked

Each model has one type invariant, `TypeOK`. It is proved for every value of the
constants, and is therefore no property of a run. Each property stands
with a comment in its module. A run takes seconds to a few minutes on two
workers.

| Run | Configuration | What it shows |
|---|---|---|
| `stream` | MCStreamSafe: 2 pieces of work, 2 watchers, a canceller, a restorer, 2 inputs, 1 turn | `HaltAcknowledgesInput`, `NoLostWakeup`, `NoStrandedWatcher`, `DeathIsReported`, `WatchReturnsOnlyWhenSettled` |
| `stream_live` | MCStreamLive: one of each, 1 input | `WatchReturns`, `WorkIsHandled`, `CancelReturns` under fairness |
| `state` | MCState: 2 executors, 1 shared and 2 private scopes, 2 keys, 1 value and nil, 1 export | `KeysAreReadable`, `ContestedIsFinal`, refinement `KeepsPromise` |
| `runner` | MCRunner: 2 executors, 1 input, 1 send, 2 requests, 3 supersteps (4 in lockstep without failures and restores), 2 responses, 1 failure, 2 restores, both modes | `CheckpointIsACut`, `ParentIsThePast`, `HandledOnce`, `ResponseReachesPoster`, and `ResponseCompletes` under fairness |
| `owner` | MCOwnerHosts: 2 runs, 2 hosts with 2 runs each, one address for the tokens of hosts | `OneRun`, `BoundIsNotRun`, `CleanUnlessRaced` |
| `owner_parents` | MCOwnerParents: the same | violates `OneParent` (finding 1) |
| `store` | MCStore: 3 checkpoints, 3 faults of any kind, 2 stops | `CommittedSurvives`, `IndexedIsReadable`, `InOrder`, refinement `IsALog` |
| `fanin` | MCFanIn: 3 sources, 2 sends each, 2 checkpoints, 2 failures or restores | `RoundIsComplete`, `DeliveredInOrder` |
| `approval` | MCApproval: 4 calls (two of one guarded tool, one of a guarded tool with a configured rule, one safe), 1 failure, 1 injected message (3 where the model makes one call), 1 automatic round, no error tolerated | `ConsentedOnly`, `OneOutcome`, `NothingForgotten`, `BooksAgree`, `InjectedOnce`, `RuleHolds` |
| `approval_live` | MCApprovalLive: 3 calls (two guarded, one safe), 1 failure, 1 error tolerated | `EveryCallAnswered` under fairness |
| `group_chat` | MCGroupChat: 3 participants, 2 turns (up to 4 with a round-robin manager), either caller, either manager, up to 2 messages or 2 requests, 1 restart | `OneTurn`, `HeardInOrder`, `TranscriptIsWhole`, `WaitsOnlyForAnswers`, `TurnsGoRound`, refinement `IsAConversation`, and `ChatEnds` under fairness |
| `group_chat_wrapped` | MCGroupChatWrapped: 1 message, 2 requests, 3 turns, wrapped as an agent | violates `TurnIsHeld` (finding 2) |

### Why the bounds are enough

- *stream*: the races are between at most three goroutines over one signal, so
  the instance has the loop, one watcher or two, and two clients or one client
  and a canceller or restorer. `Scenario` in MCRunEventStream chooses who
  takes part in the initial state: two messages with one watcher on a fresh
  run, one message with a second party beside it, and a run resumed with a
  pending request, alone or beside somebody who restores it. Two inputs make
  one arrive while the halt of the other is on its way.
- *state*: two executors make a conflict; two keys let a publish fail after
  part of it was applied; one private and one shared scope cover the two kinds
  of `ScopeID`. `TwoKeysOrPrivate` leaves out states that use everything at
  once; the proofs have no such limit.
- *runner*: three supersteps are the shortest history with a request, its
  response and a checkpoint after; two restores allow a restore of a restored
  run; one failure hits any handler, commit or superstep. `Bounds` in MCRunner
  has at most two failures and restores together, and a fourth superstep only
  in lockstep without any: a response that a forged one has wrongly consumed
  takes one more to be missed. `InTurn` names the request first that is posted
  first, which loses nothing as they are interchangeable.
- *owner*: the two-word races need two takers; a third party and a second run
  of a host cover the hand-back chains, and a second host the one that the
  shared address lets in.
- *store*: three checkpoints put one on either side of the one that fails;
  three faults let an undo fail after a write and a sync have.
- *fanin*: three sources leave one that has sent, one that has sent twice and
  one that has not; two sends begin a second round.
- *approval*: two calls of one tool are what a standing rule needs to cover a
  request in the queue; a third request keeps the queue in use, and its
  configured rule makes automatic rounds, one of which reaches the cap; a safe
  call waits beside them. One failure can hit any point of a turn, or be the
  caller abandoning it. Of three injected messages two can wait together for
  one drain while a third comes behind it, in the middle of a call of the model
  or between that and the next; `FewCalls` has more than one only where the
  model has made one call at most. Two calls suffice for liveness, where the second has
  to wait for the first.
- *group_chat*: three participants leave one who neither speaks nor is next;
  two turns let a participant answer what another said, and a second message
  begins a second chat with executors that are not new. A round-robin manager
  has up to four turns, in which its cursor wraps and the first participant speaks
  again in one chat. `MCSetups` gives a setup more of one bound for less of
  another.

Every safety property of these runs is also proved, for any number of all that
is bounded here (section 4).

Deadlock is not checked where a run may end (a workflow finishes, a loop
stops, callers return, bounds run out). The state manager, and the turns of an
agent, whose caller can always send another message, never stop and are
checked for it.

### Fairness

`FairSpec` of RunEventStream assumes weak fairness of the run loop, of opening
a run, of an event being enqueued, of the rest of a send once it has enqueued,
of joining in Cancel, of a restore once begun and of a watcher once watching:
all are goroutines the Go scheduler keeps running, none waits for something
that is enabled and disabled again and again. Nobody is forced to send, answer,
watch, cancel or begin a restore. A watcher is fair as long as its consumer
keeps taking events; it may also stop. Runner assumes the loop goes on (in
lockstep: the consumer keeps watching) and handlers return.

AgentTurn assumes that a turn goes on, that tools and the model return (weak
fairness of a tool that succeeds and of a model that answers, as failures are
bounded), and a caller who goes on: he sends something again and again, and
each request he is shown he answers at some time (strong fairness per call,
since a request can be answered only between turns). GroupChat assumes that
the run goes on while it has work and that its caller answers; both are weak,
and `ChatEnds` is promised only to callers who drive the run themselves.

### Findings

1. *Two parents* (`workflow.go:424`, `inproc/subworkflow.go:51`). The tokens of
   hosts are pointers to variables of size zero on the heap, to which Go's
   compiler gives one address; tokens are compared by type and address. A second
   host is taken for the first and binds the workflow too, which `workflow.go:434`
   means to refuse: "cannot use a Workflow as a subworkflow of multiple parent
   workflows". `owner_parents` finds it with two hosts. The runs of two parents
   exclude one another all the same (`OneRun`, proved), but one may begin before
   the executors the other has used are reset: `CleanUnlessRaced` has one parent
   for a condition.
2. *Two turns at once* (`agentworkflow/workflow.go:215`). When the caller of a
   group chat that is wrapped as an agent answers a participant's request, the
   session sends the response and a turn token for the host. The host takes it
   for the end of the participant's turn and lets the next one on. In the run of
   `group_chat_wrapped` the first one asks again when it is answered (or has a
   second request open), and holds its token while the next takes its turn,
   although the turn "is held until all outstanding requests are resolved"
   (`hosting.go:89`); an extra token, `workflow.go:210` says of the start
   executor, "would drive an additional agent turn".

### Observations

Behaviour met on the way that no line of the repository contradicts outright,
or that no run isolates. The properties above name it in their exceptions.

- *Reuse races with the reset* (`workflow.go`): a run that saw no owner and no
  reset due can swap itself in after another run came and went, and its
  executors are then reset under it or still dirty. `CleanUnlessRaced` is what
  holds without that stall. The runs of a host never look at the reset.
- *The kind of owner* (`workflow.go:474`): a run of a host takes the workflow as
  no subworkflow and hands it back as what it took. From then on the host owns it
  with the flag of a direct runner (`workflow.go:394` says what it is for), and
  refusals name the wrong case.
- *A rejected response ends the run* (`inproc/context.go`): off thread, the
  error of a forged or duplicate response ends the loop, and the good response
  behind it is never delivered. In lockstep it is (`ResponseCompletes`).
- *Written, not synced* (`checkpoint/jsonstore.go`): the index is synced, the
  checkpoint's own file and the directory are not. The properties of `store`
  are about processes that stop; a machine that does may lose the file.
- *Truncation errors are dropped* (`checkpoint/jsonstore.go`): after one only
  `InOrder` is promised.
- *A failed turn forgets answers* (`harness/toolapproval`): the map of surfaced
  requests is the session's own, the rest of the state a copy that is saved at
  the end. A turn that fails has used up the requests it was answered for, and
  neither the answers nor a rule given with them are kept. `dropped` counts
  these calls.
- *Results after a failed model call* (`agent/history.go`): they are stored
  nowhere, the caller has to bring them back, and a turn that surfaces a queued
  request ignores what he brings. Injected messages are drained before the
  call they go with and lost with it.
- *A chat can end twice* (`groupchat.go:386`): a manager that selects the one
  who has just spoken makes the workflow put out the transcript and then an
  empty one.
- *An aborted turn* of a wrapped workflow leaves a run with a request pending
  that the session no longer knows (`workflow.go:205`).
- *Subworkflows and restores* (`inproc/subworkflow.go`): a parent's checkpoint
  holds the child's checkpoint manager and no checkpoint of the child. Where
  the parent's manager keeps it in memory, a restore in place finds the manager
  the host has and leaves the child where it is, and a resume goes to the last
  checkpoint in it, so that parent and child may be put back to different
  moments. A host that was created by a send and has not yet run its child has
  nothing in the parent's checkpoint to resume from. Read from the code; no
  module has it yet.

## 4. What is proved

All proofs are checked by TLAPS to the last leaf; assumptions are the named
ASSUMEs of the modules, which TLC evaluates in the runs. Every safety property
and action property of a passing run, and the three refinements, are theorems, for
every value of the constants.

**RunEventStreamProofs.** `AckInv` strengthens `HaltAcknowledgesInput` with:
epochs in use never exceed the input epoch; what is being handled is handled
inside a step; and, per program counter of the loop, what its epoch already
acknowledges. The last is needed because the halt is built
from an epoch loaded two steps before. It is inductive, and gives
`HaltAcknowledges` and the action property `WatchSettles`. `WakeInv` (a loop
that has ended is cancelled; a sleeping loop with work has a signal or a waker)
gives `WakeupsAreKept`. `DeathReported` rests on `ReportInv`: once the loop has
died of an error, and as long as nobody ended the run and no restore cleared
the buffer, a watcher has been told, or the error is in the queue or about to
be put there (`ErrorKept`). `WatchersAreServed` rests on `StrandInv`, which adds
to `AckInv` that there is one watcher at a time, that a loop whose epoch is
behind the input has a signal or a waker (`SignalPending`), and that a loop asleep
that has caught up has left, in the queue or about to be put, a halt new enough
for each watcher that waits (`HaltWaiting`): earlier ones may have consumed any
halt but that. It is assumed that no restorer is the loop itself
(`"loop" \notin Restorers`): each has an event of its own to put.

**StateManagerProofs.** Types, `KeysReadable`, `ContestedStays`, `ClearingClears`
(of a property too plain to spend a run on), and `QueueKeepsPromise`: the
initial state maps to the initial state of SharedState, and every step maps to
a step or a stutter. The one invariant needed is that queued updates lie in
scopes their executor can see, and that what is recorded as cleared is hidden.

**WorkflowOwnershipProofs.** `OneRunAtATime`, `BoundIsNeverRun` and
`RunsStartClean`, for any runs and hosts and with either value of `OneIdentity`.
Mutual exclusion is not inductive over compare-and-swap alone: the invariant says
that whoever owns is the party the owner record names (`OwnersAreOwner`), that a
token belongs to its taker, that a loaded pointer is one seen, and that a bound
workflow has an owner. For `RunsStartClean`, `HostInv` adds the converse: the
owner's token stands for a run that owns or for some host that is bound (which
one it does not tell), and a run past its first look has its host bound.
`CleanInv` then speaks of the two words, owner and `needsReset`, together: a reset
is due from a run's mark to the end of its own (`ResetDue`), nobody else owns
meanwhile (`ResetAlone`), a workflow that nobody owns and that is not due for a
reset is clean (`NobodyLeft`). This part holds as long as nobody was overtaken
between look and swap and there is one parent (both, once broken, stay so:
`RacedForGood`, `ParentForGood`); the rest of `CleanInv` always does.

**FanInProofs.** `RoundsAreComplete` and `OneReleaseAtATime` (of `OneRelease`,
which no run repeats, as `DeliveredInOrder` includes it): a source that
holds a released batch is again unseen (`HolderIsUnseen`), so a second release
has to wait for it; saved barriers are consistent, so a restore keeps it.
`NothingIsReordered` follows the way of the messages (handled, next step,
released batch, buffer) as one sequence, in which a step moves a border or adds
at the end. That there is one batch at a time is what makes it a sequence. The
invariant says so of checkpoints too (`WayInv`).

**RunnerProofs.** `RunTypes`, `ParentsAreThePast`, `ResponsesReachPosters`,
`NothingTwice`, `CheckpointsAreCuts`. Types need one fact more, that a pending
request, in a checkpoint too, has an owner. For the parent, `QueueInv` says that
an executor queues nothing but its own log (and the shared cell), and that what
it queues contains what is published, so logs only grow between restores;
`PastInv` adds that the present contains the checkpoint the run has gone on
from. For responses, `PosterInv` says that whatever names a request (messages,
owners, logs, and each of these in every checkpoint) agrees with a history of
who posted it, and that what was posted is minted and so not posted anew,
restores included. The last two share `CutInv`, which says of each id that it is
at one place at most, among deliveries, steps, hands, pending requests and logs
(`Single`), that one executor made it (`OneMaker`), that it was given out
(`IdMinted`), and that it was made just if it is somewhere, as long as no
superstep lost anything (`IdKnown`). It says the same of each checkpoint, as a
restore makes that the present. Ids of inputs, sends and requests are assumed to
be different (`RunnerNames`).

**CheckpointStoreProofs.** `StoreTypes`, and from one invariant `ReturnedIsKept`,
`IndexIsReadable`, `RefusedIsOut`. `SafeInv` separates the lines that are settled
from one that is being made or undone (`InMaking`): every settled line is whole,
listed and has its file, and per program counter of the call under way it says
which of file and line exist. It holds with every call failing at any point
and the process stopping at any other, for any checkpoints and faults, up to
the first truncation that fails, line left half written or power failure
(`spoiled`), after which nothing more is promised. `LatestIsLast` has no such
exception: `OrderInv` says of the synced lines, also below the offset an undo goes
back to, that they have all that was created, in its order, unless one is torn
and the store never opens again. `StoreIsALog` is the refinement of CheckpointLog:
`SafeInv` says what the lines are at each program counter, `LogInv` that the index
is what is read of the settled ones, and `Knows` that an id refused is not used
again. Opening, closing, the first and the last step of a call and a kill are
steps of the log; appending, syncing and truncating are none.

**AgentTurnProofs.** `CallsHaveOneOutcome` rests on `OneInv`: a call on its way to
a tool is in at most one book (the calls waiting for an answer, the safe calls
kept back, or the batch), and once it ran or was refused it is in none.
`GuardedCallsHaveConsent` rests on `ConsentInv`: every positive answer in the
session, in the run's copy or bound in the batch is one the caller gave, for
the call or for its tool, or that a configured rule gives. `TypeCorrect` needs to
know which books are empty between turns (`PhaseInv`) and which are parts of
others (`BookInv`). `NothingIsForgotten` adds `HandsInv`: while
requests are queued and no run has failed, the caller has no results to bring,
which the turn that surfaces the next request would ignore.
`RulesHold` (`RulesInv`) and the first two need to know what remains of a queue
when calls are taken out of it: `WithoutIsFilter`, by a least counterexample
(`WFMin`), since the prover cannot expand `SelectSeq`. `InjectedAreOnce` looks at
the messages heard, in flight and waiting as one sequence that only grows at its
end (`InjectInv`) and from whose middle a failure may take some. `TheBooksAgree`
follows each request from book to book, through a turn as well: surfaced,
queued, answered, brought by the caller or asked by the inner run, they are
together what the inner middleware waits for (`AgreeInv`), and no queue has a
call twice, so that surfacing its head leaves none behind. All hold for any
calls, tools, rules and bounds, with failures, cancellations, abandoned streams
and reloads in any order.

**GroupChatProofs.** `TypeCorrect` covers every checkpoint, as a restore takes it
back. `TurnIsOne`: the places a turn token can be in (with the caller, in the
next or the present superstep of a node, held) have at most one among them, its
participant is the host's speaker (`TurnInv`); all this is said of the saved
checkpoint as well, since a restart makes it the present. It holds for the
caller who drives the run; for the other the second finding is the
counterexample. `RoundsAgree` needs that the successor modulo N commutes with
counting (`NextRound`). `OnlyAnswersAreAwaited` (`WaitInv`) keeps the books of each
request, which is open with a participant exactly while it is pending for it or
the answer is on the way, once (`Book`), and shows that who waits holds the token,
so that a chat that stands still with nobody waiting has ended (`Alive`).
`NothingSaidIsLost` (`WholeInv`) joins what the chats put out, what the host keeps,
has accumulated and has on its way, and shows that this is what was said, in
that order. `EverybodyHearsTheChat` (`HeardInv`) does the same for a participant,
against what was broadcast without its own. A broadcast leaves out the one who
spoke last, so the invariant has to know that all it carries is by that one
(`Chair`): nothing is said behind a token on its way back to the host, which
takes `TurnInv` and `WaitInv`. The laws of flattening and filtering these need
(`FlattenAppend`, `FlattenHead`, `NotByMore`) are about recursive functions and are
proved by a least counterexample (`Least`). `ChatIsAConversation` is the
refinement, and brings these together: by `TurnInv` whoever is `With` the token is
the one whose turn it is, by `WaitInv` who answers a request still has it, by
`Chair` the transcript is all that was said, since nothing follows the token into
the host's queues, and by `Asked` a caller's message comes with the token behind
it, so while nobody has the turn. Supersteps, buffering, questions and answers on
their way are no steps of the conversation; a restore is one.

### Only model-checked

- Liveness under fairness, which is out of this prover's reach: `WatchReturns`,
  `WorkIsHandled`, `CancelReturns`, `ResponseCompletes`, `EveryCallAnswered`,
  `ChatEnds`.
- What the findings violate: `OneParent`, `TurnIsHeld`.

## 5. Plan

Done: stream, state, runner, ownership, store, barrier; the tool loop and
approvals with injection and history; hosted agents in a group chat; proofs
of every safety property, and three refinements. Left, in this order:

1. *Subworkflow*: the child run joined to the parent's supersteps, its
   checkpoints beside the parent's, the translation of requests, a host created
   before its child has a checkpoint. Composes two runs of Runner's kind at a
   coarser grain; the observations above are what it would isolate.
2. *Refinements*: Runner, with its commits and restarts, against SharedState
   with steps for them; ownership against an abstract lock that is lent and
   handed back.
3. *Concurrent orchestration*: the aggregator of `agentworkflow` on FanIn's
   barrier.
4. *Operators*: validation of a graph, compaction strategies against reference
   definitions.

Not modelled: providers and generated clients (translation of wire formats),
observability, vector data and embeddings (I/O behind interfaces), routing by
reflected types, the builders and the checkpoint managers (sequential, or a map
behind one lock), the shell tool's process.
