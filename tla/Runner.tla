--------------------------------- MODULE Runner ---------------------------------
(***************************************************************************)
(* A workflow run (workflow/inproc/runner.go, context.go): external        *)
(* deliveries are drained into the next step, a superstep delivers every   *)
(* receiver its messages concurrently, and what the superstep did becomes  *)
(* a checkpoint that the run can be restored to, in place or after a crash.*)
(* The state executors keep is StateManager's; here each executor keeps in *)
(* its private scope what it has handled and what it has made, so that the *)
(* invariants can compare a checkpoint's state with its messages.          *)
(* Edges are abstracted: a sent message reaches one receiver.              *)
(***************************************************************************)
EXTENDS Sequences, FiniteSets, Integers

CONSTANTS Executors,  \* executors of the workflow
          Start,      \* the start executor, receiver of the input
          Inputs,     \* external messages
          Sends,      \* messages executors send
          Requests,   \* external requests; a response has the id of its request
          None,       \* no executor, no message, no value
          Unqueued,   \* no state update queued
          Shared,     \* a scope all executors share
          MaxSteps,       \* bound: supersteps
          MaxResponses,   \* bound: responses sent in
          MaxFailures,    \* bound: failures of handlers and of the store
          MaxRestores     \* bound: restores and crashes

ASSUME RunnerAssumption ==
  /\ Start \in Executors
  /\ {MaxSteps, MaxResponses, MaxFailures, MaxRestores} \subseteq Nat

Ids == Inputs \cup Sends \cup Requests

\* An executor's log: what it has handled, what it has made.
Marks == {"did", "made"} \X Ids
Log   == "log"

ASSUME RunnerNames ==
  /\ Inputs \cap Sends = {} /\ (Inputs \cup Sends) \cap Requests = {}
  /\ Shared \notin Executors /\ None \notin Executors \cup [id : Ids, made : SUBSET Ids]
  /\ None # Unqueued /\ \A log \in SUBSET Marks : log # None /\ log # Unqueued

VARIABLES
  offThread,   \* fixed: TRUE, a background loop runs supersteps and an ErrorEvent
               \* ends it; FALSE, the consumer runs them in lockstep
  deliveries,  \* queuedExternalDeliveries: [id, port]; port TRUE if it matches
  nextStep,    \* executor -> messages of the next superstep
  current,     \* executor -> messages of this superstep it has still to handle
  busy,        \* executor -> [id, made] of the message in its handler, or None
  failed,      \* a receiver of this superstep has failed
  pending,     \* externalRequests: requests without a response
  owner,       \* requestOwners: request -> executor it was posted by
  portOwner,   \* responsePortOwners of the one port: the last executor to post
  phase,       \* "idle", "advancing", "delivering", "ended" (the run is over)
  loopAlive,   \* FALSE once an error has ended the background loop
  checkpoints, \* what the manager holds, in the order of the commits
  last,        \* lastCheckpointInfo: its index, 0 for none
  scopes, queued, \* the StateManager
  minted,      \* history: ids given out
  posted,      \* history: request -> its poster
  steps, responses, failures, restores \* counters for the bounds

stepVars  == <<nextStep, current, busy, failed>>
reqVars   == <<pending, owner, portOwner>>
stateVars == <<scopes, queued>>
cpVars    == <<checkpoints, last>>
histVars  == <<minted, posted>>
counters  == <<steps, responses, failures, restores>>
vars == <<offThread, deliveries, stepVars, reqVars, phase, loopAlive, cpVars, stateVars,
          histVars, counters>>

Mgr == INSTANCE StateManager WITH
  SharedScopes <- {Shared}, Keys <- {Log}, Values <- SUBSET Marks,
  exported <- {}, cleared <- {}, MaxSaved <- 0

NoMessages == [e \in Executors |-> <<>>]

Init ==
  /\ offThread \in BOOLEAN
  /\ deliveries = <<>>
  /\ nextStep = NoMessages
  /\ current = NoMessages
  /\ busy = [e \in Executors |-> None]
  /\ failed = FALSE
  /\ pending = {}
  /\ owner = [r \in Requests |-> None]
  /\ portOwner = None
  /\ phase = "idle"
  /\ loopAlive = TRUE
  /\ checkpoints = <<>>
  /\ last = 0
  /\ Mgr!Init
  /\ minted = {}
  /\ posted = [r \in Requests |-> None]
  /\ steps = 0 /\ responses = 0 /\ failures = 0 /\ restores = 0

-----------------------------------------------------------------------------
(* Clients                                                                 *)

\* addExternalMessage, at any time before the run has ended.
EnqueueMessage(i) ==
  /\ phase # "ended"
  /\ i \notin minted
  /\ deliveries' = Append(deliveries, [id |-> i, port |-> TRUE])
  /\ minted' = minted \cup {i}
  /\ UNCHANGED <<offThread, stepVars, reqVars, phase, loopAlive, cpVars, stateVars, posted, counters>>

\* addExternalResponse, of any request posted some time, to its port or not.
EnqueueResponse(r, port) ==
  /\ phase # "ended"
  /\ r \in minted
  /\ responses < MaxResponses
  /\ responses' = responses + 1
  /\ deliveries' = Append(deliveries, [id |-> r, port |-> port])
  /\ UNCHANGED <<offThread, stepVars, reqVars, phase, loopAlive, cpVars, stateVars, histVars,
                 steps, failures, restores>>

-----------------------------------------------------------------------------
(* A superstep                                                             *)

HasUnprocessedMessages == deliveries # <<>> \/ nextStep # NoMessages

\* RunSuperStep, under executionMu from here to the end of the superstep.
BeginStep ==
  /\ phase = "idle" /\ loopAlive
  /\ HasUnprocessedMessages
  /\ steps < MaxSteps
  /\ steps' = steps + 1
  /\ phase' = "advancing"
  /\ UNCHANGED <<offThread, deliveries, stepVars, reqVars, loopAlive, cpVars, stateVars, histVars,
                 responses, failures, restores>>

\* The error of an advance ends the background loop; a consumer in lockstep is
\* handed it and may go on.
AdvanceError ==
  /\ phase' = "idle"
  /\ loopAlive' = ~offThread

\* The delivery of an input is mapped to the start executor.
DeliverInput ==
  /\ phase = "advancing" /\ deliveries # <<>>
  /\ Head(deliveries).id \in Inputs
  /\ nextStep' = [nextStep EXCEPT ![Start] = Append(@, Head(deliveries).id)]
  /\ deliveries' = Tail(deliveries)
  /\ UNCHANGED <<offThread, current, busy, failed, reqVars, phase, loopAlive, cpVars, stateVars,
                 histVars, counters>>

\* Mutant: to the executor registered for the port.
ReceiverOfPort(r) == portOwner

\* The response is delivered to the executor that posted the request.
Receiver(r) == owner[r]

\* completeRequest: the request is answered once.
Complete(r) ==
  /\ pending' = pending \ {r}
  /\ owner' = [owner EXCEPT ![r] = None]

DeliverResponse ==
  /\ phase = "advancing" /\ deliveries # <<>>
  /\ LET d == Head(deliveries)
     IN /\ d.id \in pending /\ d.port
        /\ nextStep' = [nextStep EXCEPT ![Receiver(d.id)] = Append(@, d.id)]
        /\ Complete(d.id)
  /\ deliveries' = Tail(deliveries)
  /\ UNCHANGED <<offThread, current, busy, failed, portOwner, phase, loopAlive, cpVars, stateVars,
                 histVars, counters>>

\* Mutant: the request is consumed before its port is compared.
RejectResponseConsumes ==
  /\ phase = "advancing" /\ deliveries # <<>>
  /\ LET d == Head(deliveries)
     IN d.id \in Requests /\ ~(d.id \in pending /\ d.port) /\ Complete(d.id)
  /\ deliveries' = Tail(deliveries)
  /\ AdvanceError
  /\ UNCHANGED <<offThread, stepVars, portOwner, cpVars, stateVars, histVars, counters>>

\* No such request is pending, or the port is another one's: the deliveries
\* behind it stay queued, those before it stay in the next step.
RejectResponse ==
  /\ phase = "advancing" /\ deliveries # <<>>
  /\ LET d == Head(deliveries) IN d.id \in Requests /\ ~(d.id \in pending /\ d.port)
  /\ deliveries' = Tail(deliveries)
  /\ AdvanceError
  /\ UNCHANGED <<offThread, stepVars, reqVars, cpVars, stateVars, histVars, counters>>

\* The next step becomes the current one and a new one is opened.
Swap ==
  /\ phase = "advancing" /\ deliveries = <<>>
  /\ current' = nextStep
  /\ nextStep' = NoMessages
  /\ failed' = FALSE
  /\ phase' = "delivering"
  /\ UNCHANGED <<offThread, deliveries, busy, reqVars, loopAlive, cpVars, stateVars, histVars, counters>>

\* deliverMessages: a receiver takes its messages one by one; the receivers
\* run concurrently.
Take(e) ==
  /\ phase = "delivering"
  /\ busy[e] = None /\ current[e] # <<>>
  /\ busy' = [busy EXCEPT ![e] = [id |-> Head(current[e]), made |-> {}]]
  /\ current' = [current EXCEPT ![e] = Tail(@)]
  /\ UNCHANGED <<offThread, deliveries, nextStep, failed, reqVars, phase, loopAlive, cpVars, stateVars,
                 histVars, counters>>

Handling(e) == phase = "delivering" /\ busy[e] # None

\* SendMessage: into the next step.
Send(e, m, to) ==
  /\ Handling(e)
  /\ m \notin minted
  /\ minted' = minted \cup {m}
  /\ nextStep' = [nextStep EXCEPT ![to] = Append(@, m)]
  /\ busy' = [busy EXCEPT ![e].made = @ \cup {m}]
  /\ UNCHANGED <<offThread, deliveries, current, failed, reqVars, phase, loopAlive, cpVars, stateVars,
                 posted, counters>>

\* PostRequest.
Post(e, r) ==
  /\ Handling(e)
  /\ r \notin minted
  /\ minted' = minted \cup {r}
  /\ posted' = [posted EXCEPT ![r] = e]
  /\ pending' = pending \cup {r}
  /\ owner' = [owner EXCEPT ![r] = e]
  /\ portOwner' = e
  /\ busy' = [busy EXCEPT ![e].made = @ \cup {r}]
  /\ UNCHANGED <<offThread, deliveries, nextStep, current, failed, phase, loopAlive, cpVars, stateVars,
                 counters>>

LogOf(s, e) == IF s[<<e, Log>>] = None THEN {} ELSE s[<<e, Log>>]

\* What the executor sees in its log (StateManager.ReadState).
View(e) ==
  IF Mgr!ReadState(e, <<e, Log>>) = None THEN {} ELSE Mgr!ReadState(e, <<e, Log>>)

\* The handler returns, having queued an update of the executor's log.
Return(e) ==
  /\ Handling(e)
  /\ Mgr!WriteState(e, <<e, Log>>,
       View(e) \cup {<<"did", busy[e].id>>} \cup {<<"made", m>> : m \in busy[e].made})
  /\ busy' = [busy EXCEPT ![e] = None]
  /\ UNCHANGED <<offThread, deliveries, nextStep, current, failed, reqVars, phase, loopAlive, cpVars,
                 histVars, counters>>

\* A handler may also update state all executors share, once in a superstep.
WriteShared(e) ==
  /\ Handling(e)
  /\ ~Mgr!IsQueued(e, <<Shared, Log>>)
  /\ Mgr!WriteState(e, <<Shared, Log>>, {})
  /\ UNCHANGED <<offThread, deliveries, stepVars, reqVars, phase, loopAlive, cpVars, histVars, counters>>

\* The handler returns an error, after whatever it did: the rest of its queue is
\* gone with the step, the other receivers finish theirs.
Fail(e) ==
  /\ Handling(e)
  /\ failures < MaxFailures
  /\ failures' = failures + 1
  /\ failed' = TRUE
  /\ busy' = [busy EXCEPT ![e] = None]
  /\ current' = [current EXCEPT ![e] = <<>>]
  /\ UNCHANGED <<offThread, deliveries, nextStep, reqVars, phase, loopAlive, cpVars, stateVars, histVars,
                 steps, responses, restores>>

Delivered ==
  /\ phase = "delivering"
  /\ current = NoMessages
  /\ \A e \in Executors : busy[e] = None

\* An error of the superstep becomes an ErrorEvent, which ends the background
\* loop; in lockstep the consumer is handed the event and goes on.
StepError ==
  /\ phase' = "idle"
  /\ loopAlive' = ~offThread

StepFails ==
  /\ Delivered /\ failed
  /\ StepError
  /\ UNCHANGED <<offThread, deliveries, stepVars, reqVars, cpVars, stateVars, histVars, counters>>

-----------------------------------------------------------------------------
(* Checkpoints                                                             *)

\* Mutant: the messages of the next step are left to the next superstep.
ExportedWithoutMessages ==
  [state |-> scopes', messages |-> NoMessages, pending |-> pending, owner |-> owner,
   portOwner |-> portOwner, parent |-> last]

\* What exportState, ExportState and the parent make of the run.
Exported ==
  [state |-> scopes', messages |-> nextStep, pending |-> pending, owner |-> owner,
   portOwner |-> portOwner, parent |-> last]

Checkpoint ==
  /\ Delivered /\ ~failed
  /\ Mgr!PublishUpdates
  /\ checkpoints' = Append(checkpoints, Exported)
  /\ last' = Len(checkpoints')
  /\ phase' = "idle"
  /\ UNCHANGED <<offThread, deliveries, stepVars, reqVars, loopAlive, histVars, counters>>

\* Two executors updated the shared scope.
CheckpointContested ==
  /\ Delivered /\ ~failed
  /\ Mgr!PublishUpdatesFails
  /\ StepError
  /\ UNCHANGED <<offThread, deliveries, stepVars, reqVars, cpVars, histVars, counters>>

\* The store fails: the updates are published, the checkpoint is not there.
CheckpointNotCommitted ==
  /\ Delivered /\ ~failed
  /\ failures < MaxFailures
  /\ failures' = failures + 1
  /\ Mgr!PublishUpdates
  /\ StepError
  /\ UNCHANGED <<offThread, deliveries, stepVars, reqVars, cpVars, histVars, steps, responses, restores>>

\* Mutant: the run's last checkpoint stays its last.
ImportKeepsLast(n) ==
  LET c == checkpoints[n]
  IN /\ scopes' = c.state
     /\ deliveries' = <<>>
     /\ nextStep' = c.messages
     /\ pending' = c.pending
     /\ owner' = c.owner
     /\ portOwner' = c.portOwner
     /\ last' = last

\* The run becomes what the checkpoint says (ImportState, importState).
Import(n) ==
  LET c == checkpoints[n]
  IN /\ scopes' = c.state
     /\ deliveries' = <<>>
     /\ nextStep' = c.messages
     /\ pending' = c.pending
     /\ owner' = c.owner
     /\ portOwner' = c.portOwner
     /\ last' = n

\* Mutant: between the deliveries of a superstep too.
RestoreAnyTime(n) ==
  /\ phase # "ended"
  /\ restores < MaxRestores
  /\ restores' = restores + 1
  /\ Mgr!ImportState(checkpoints[n].state)
  /\ Import(n)
  /\ UNCHANGED <<offThread, current, busy, failed, phase, loopAlive, checkpoints, histVars,
                 steps, responses, failures>>

\* restoreCheckpointCore: refused while a superstep runs, and while the state
\* manager has updates queued. It does not bring a dead loop back.
Restore(n) ==
  /\ phase = "idle"
  /\ restores < MaxRestores
  /\ restores' = restores + 1
  /\ Mgr!ImportState(checkpoints[n].state)
  /\ Import(n)
  /\ UNCHANGED <<offThread, current, busy, failed, phase, loopAlive, checkpoints, histVars,
                 steps, responses, failures>>

\* The process dies, or the run is closed and given up, and a new runner is
\* opened from a checkpoint of the session (resumeStreamWithRepublish).
Resume(n) ==
  /\ restores < MaxRestores
  /\ restores' = restores + 1
  /\ Import(n)
  /\ queued' = [e \in Executors |-> [c \in Mgr!Cells |-> Unqueued]]
  /\ current' = NoMessages
  /\ busy' = [e \in Executors |-> None]
  /\ failed' = FALSE
  /\ phase' = "idle"
  /\ loopAlive' = TRUE
  /\ UNCHANGED <<offThread, checkpoints, histVars, steps, responses, failures>>

\* Close joins the background loop before it ends the run; in lockstep it ends
\* the run under the consumer's superstep, whose calls are refused from then on.
Close ==
  /\ phase # "ended"
  /\ offThread => phase = "idle"
  /\ phase' = "ended"
  /\ loopAlive' = FALSE
  /\ UNCHANGED <<offThread, deliveries, stepVars, reqVars, cpVars, stateVars, histVars, counters>>

-----------------------------------------------------------------------------

Client ==
  \/ \E i \in Inputs : EnqueueMessage(i)
  \/ \E r \in Requests, port \in BOOLEAN : EnqueueResponse(r, port)
  \/ \E n \in 1..Len(checkpoints) : Restore(n)
  \/ \E n \in 1..Len(checkpoints) : Resume(n)
  \/ Close

Loop ==
  \/ BeginStep \/ DeliverInput \/ DeliverResponse \/ RejectResponse \/ Swap
  \/ StepFails
  \/ Checkpoint \/ CheckpointContested \/ CheckpointNotCommitted

Handler(e) ==
  \/ Take(e)
  \/ \E m \in Sends, to \in Executors : Send(e, m, to)
  \/ \E r \in Requests : Post(e, r)
  \/ WriteShared(e)
  \/ Return(e)
  \/ Fail(e)

Next == Client \/ Loop \/ (\E e \in Executors : Handler(e))

Spec == Init /\ [][Next]_vars

-----------------------------------------------------------------------------
(* Properties                                                              *)

Messages == [Executors -> Seq(Ids)]
CheckpointType ==
  [state : [Mgr!Cells -> (SUBSET Marks) \cup {None}], messages : Messages,
   pending : SUBSET Requests, owner : [Requests -> Executors \cup {None}],
   portOwner : Executors \cup {None}, parent : Nat]

TypeOK ==
  /\ offThread \in BOOLEAN
  /\ deliveries \in Seq([id : Inputs \cup Requests, port : BOOLEAN])
  /\ nextStep \in Messages
  /\ current \in Messages
  /\ busy \in [Executors -> [id : Ids, made : SUBSET Ids] \cup {None}]
  /\ failed \in BOOLEAN
  /\ pending \in SUBSET Requests
  /\ owner \in [Requests -> Executors \cup {None}]
  /\ \A r \in pending : owner[r] # None
  /\ portOwner \in Executors \cup {None}
  /\ phase \in {"idle", "advancing", "delivering", "ended"}
  /\ loopAlive \in BOOLEAN
  /\ checkpoints \in Seq(CheckpointType)
  /\ last \in 0..Len(checkpoints)
  /\ scopes \in [Mgr!Cells -> (SUBSET Marks) \cup {None}]
  /\ queued \in [Executors -> [Mgr!Cells -> (SUBSET Marks) \cup {None, Unqueued}]]
  /\ minted \in SUBSET Ids
  /\ posted \in [Requests -> Executors \cup {None}]

InQueue(m, messages) ==
  UNION {{e} \X {k \in DOMAIN messages[e] : messages[e][k] = m} : e \in Executors}
In(mark, m, state) == {e \in Executors : <<mark, m>> \in LogOf(state, e)}

\* How often a message, or a request and then its response, is to be handled
\* or has been, if the run had these messages, requests and logs.
Places(m, messages, requests, state) ==
  Cardinality(InQueue(m, messages)) + Cardinality(requests \cap {m})
    + Cardinality(In("did", m, state))

\* A checkpoint is a consistent cut of the run: what the executors' state in it
\* says they sent or requested is still to be handled or has been, once, and
\* nothing is that no executor's state knows of. The parts of a checkpoint are
\* exported one after the other, after a superstep whose handlers ran
\* concurrently, failed, or were restored under. (A consumer in lockstep that
\* goes on after a handler failed makes checkpoints of what was left.)
CheckpointIsACut ==
  offThread \/ failures = 0 => \A n \in 1..Len(checkpoints) :
    LET c == checkpoints[n]
    IN /\ \A m \in Inputs : Places(m, c.messages, c.pending, c.state) <= 1
       /\ \A m \in Sends \cup Requests :
            Places(m, c.messages, c.pending, c.state) = Cardinality(In("made", m, c.state))
       /\ \A m \in Sends \cup Requests : Cardinality(In("made", m, c.state)) <= 1

\* A checkpoint's parent is an earlier state of the same history, whatever
\* restores, failed commits and restarts lie between them.
ParentIsThePast ==
  \A n \in 1..Len(checkpoints) :
    LET p == checkpoints[n].parent
    IN /\ p < n
       /\ p # 0 => \A e \in Executors :
            LogOf(checkpoints[p].state, e) \subseteq LogOf(checkpoints[n].state, e)

\* What an executor has in its log, published or not.
Logs == [c \in Mgr!Cells |-> IF c[1] \in Executors THEN View(c[1]) ELSE None]

InHand(m) == {e \in Executors : busy[e] # None /\ busy[e].id = m}
Live(m) == Places(m, nextStep, pending, Logs) + Cardinality(InQueue(m, current))
             + Cardinality(InHand(m))
             + Cardinality({k \in 1..Len(deliveries) :
                              m \in Inputs /\ deliveries[k].id = m})

\* Nothing is handled twice in a run, restored or not; and unless a handler
\* failed, or a checkpoint put the run back, nothing accepted is lost.
HandledOnce ==
  phase # "ended" =>
    /\ \A m \in Ids : Live(m) <= 1
    /\ failures = 0 /\ restores = 0 => \A m \in minted : Live(m) = 1

\* The response to a request reaches the executor that posted it, and no other,
\* although requests share a port and the port's owner changes with each.
ResponseReachesPoster ==
  \A r \in Requests :
    LET waiting == {p[1] : p \in InQueue(r, nextStep) \cup InQueue(r, current)}
    IN waiting \cup InHand(r) \cup In("did", r, Logs) \subseteq {posted[r]}

\* A good response to a pending request is handled, whatever forged, late or
\* duplicate responses are queued around it, while nothing fails. A bad response
\* ends the background loop, but in lockstep the run goes on.
Answered(r) ==
  r \in pending /\ \E k \in 1..Len(deliveries) : deliveries[k] = [id |-> r, port |-> TRUE]
ResponseCompletes ==
  \A r \in Requests :
    Answered(r) ~> \/ In("did", r, Logs) # {}
                   \/ phase = "ended" \/ ~loopAlive \/ failures + restores > 0
                   \/ steps = MaxSteps

\* The loop goes on, in lockstep because the consumer keeps watching, and
\* handlers return.
Fairness ==
  /\ WF_vars(Loop)
  /\ \A e \in Executors : WF_vars(Take(e)) /\ WF_vars(Return(e))

FairSpec == Spec /\ Fairness
=============================================================================
