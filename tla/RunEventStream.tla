--------------------------- MODULE RunEventStream ---------------------------
(***************************************************************************)
(* The streaming event stream of one workflow run                          *)
(* (workflow/internal/execution/eventstream.go, run.go): the background    *)
(* run loop, the clients that send messages and answer requests, the       *)
(* watchers that read events until the run halts, the goroutine that       *)
(* restores a checkpoint, and the ones that cancel the run.                *)
(*                                                                         *)
(* A piece of work is one external message and everything that follows     *)
(* from it; what the workflow makes of it (nothing more, another message,  *)
(* an external request, a failure) is chosen freely.                       *)
(***************************************************************************)
EXTENDS Naturals, Sequences

CONSTANTS Work,             \* pieces of work; each has the client that sends and answers it
          Watchers,         \* callers of TakeEventStream
          Stoppers,         \* callers of Cancel
          Restorers,        \* callers of RestoreCheckpoint
          MayFail,          \* executors, deliveries and the loading of checkpoints may fail
          MaxInputs,        \* bound: calls of the clients
          MaxTurns          \* bound: follow-up messages, requests and raised events

ASSUME RunEventStreamAssumption ==
    /\ MaxInputs \in Nat /\ MaxTurns \in Nat
    /\ MayFail \in BOOLEAN
    /\ "loop" \notin Restorers

VARIABLES
    work,         \* what each piece of work is waiting for in the runner
    stamp,        \* epoch of the first input signal after it was last enqueued, 0 when none
    saved,        \* the work recorded by each checkpoint
    turns, inputs,\* budgets left
    needsRepublish,
    inputEpoch, signal, waiterClosed,                       \* inputWaiter
    status, cancelled, loopDone,                            \* the run loop's outside
    loopPc, epoch,                                          \* the run loop's locals
    queue, eventReady, emit,                                \* event queue, events being enqueued
    openPc, clientPc, stopPc, endRun, restorePc, cleared,   \* callers
    watchPc, blocking, myEpoch, taken, outcome, told        \* watchers

runnerVars == <<work, stamp, saved, turns, inputs, needsRepublish>>
waiterVars == <<inputEpoch, signal, waiterClosed>>
loopVars   == <<status, cancelled, loopDone, loopPc, epoch>>
eventVars  == <<queue, eventReady, emit>>
callerVars == <<openPc, clientPc, stopPc, endRun, restorePc, cleared>>
watchVars  == <<watchPc, blocking, myEpoch, taken, outcome, told>>
vars == <<runnerVars, waiterVars, loopVars, eventVars, callerVars, watchVars>>

-----------------------------------------------------------------------------
(* Events. A halt carries the epoch its cycle acknowledges and the status. *)

Event == [kind : {"event", "haltRequest", "error"}]
Halt  == [kind : {"halt"}, epoch : Nat, status : {"Idle", "PendingRequests"}]
IsHalt(e) == e.kind = "halt"

(* Goroutines that enqueue events: the run loop (with the executors it     *)
(* drives) and the restorers, which republish pending requests.            *)
Emitters == {"loop"} \cup Restorers
Silent == [stage |-> "none"]
Emitting(stage, e) == [stage |-> stage, event |-> e]

(* What a piece of work may be doing: not sent; queued as an external      *)
(* message; in the next step; being handled; waiting for a response; its   *)
(* response queued; finished; dropped by a failure.                        *)
WorkStates == {"new", "queued", "next", "handled", "asking", "answered", "done", "lost"}
Unprocessed(w) == work[w] \in {"queued", "next", "answered"}
HasUnprocessedMessages == \E w \in Work : Unprocessed(w)
HasUnservicedRequests  == \E w \in Work : work[w] \in {"asking", "answered"}
StepRunning == \E w \in Work : work[w] = "handled"

-----------------------------------------------------------------------------
(* SignalInput is two steps: the epoch, then the binary semaphore.         *)

AddEpoch ==
    /\ inputEpoch' = inputEpoch + 1
    /\ stamp' = [w \in Work |-> IF stamp[w] = 0 THEN inputEpoch + 1 ELSE stamp[w]]

SignalInput == signal' = IF waiterClosed THEN signal ELSE TRUE

(* enqueueEvent refuses once the run loop is cancelled; otherwise it puts  *)
(* the event in the queue and then signals the reader.                     *)
Emit(p, e) == emit' = [emit EXCEPT ![p] = IF cancelled THEN Silent ELSE Emitting("put", e)]
Idle(p) == emit[p].stage = "none"

EmitPut(p) ==
    /\ emit[p].stage = "put"
    /\ queue' = Append(queue, emit[p].event)
    /\ emit' = [emit EXCEPT ![p].stage = "ready"]
    /\ UNCHANGED <<runnerVars, waiterVars, loopVars, eventReady, callerVars, watchVars>>

EmitReady(p) ==
    /\ emit[p].stage = "ready"
    /\ eventReady' = TRUE
    /\ emit' = [emit EXCEPT ![p] = Silent]
    /\ UNCHANGED <<runnerVars, waiterVars, loopVars, queue, callerVars, watchVars>>

-----------------------------------------------------------------------------
(* A run starts afresh, or is opened from a checkpoint that holds a        *)
(* pending request. Callers that never call are done from the start.       *)
Init ==
    /\ \/ work = [w \in Work |-> "new"] /\ saved = {} /\ needsRepublish = FALSE
       \/ work \in [Work -> {"new", "next", "asking"}] /\ HasUnservicedRequests
          /\ saved = {work} /\ needsRepublish \in BOOLEAN
    /\ stamp = [w \in Work |-> 0]
    /\ turns \in 0..MaxTurns /\ inputs \in 0..MaxInputs
    /\ inputEpoch = 0 /\ signal = FALSE /\ waiterClosed = FALSE
    /\ status = "NotStarted" /\ cancelled = FALSE /\ loopDone = FALSE
    /\ loopPc = "start" /\ epoch = 0
    /\ queue = <<>> /\ eventReady = FALSE /\ emit = [p \in Emitters |-> Silent]
    /\ openPc = (IF HasUnprocessedMessages \/ HasUnservicedRequests THEN "add" ELSE "done")
    /\ clientPc = [w \in Work |-> "idle"]
    /\ stopPc \in [Stoppers -> {"idle", "done"}] /\ endRun = FALSE
    /\ restorePc \in [Restorers -> {"idle", "done"}] /\ cleared = FALSE
    /\ watchPc \in [Watchers -> {"idle", "done"}] /\ blocking = [r \in Watchers |-> FALSE]
    /\ myEpoch = [r \in Watchers |-> 0] /\ taken = FALSE
    /\ outcome = [r \in Watchers |-> "none"] /\ told = {}

-----------------------------------------------------------------------------
(* The run loop.                                                           *)

LoopStart ==
    /\ loopPc = "start"
    /\ IF needsRepublish /\ HasUnservicedRequests
       THEN Emit("loop", [kind |-> "event"]) ELSE UNCHANGED emit
    /\ needsRepublish' = FALSE
    /\ loopPc' = IF needsRepublish /\ HasUnservicedRequests /\ cancelled THEN "end" ELSE "wait"
    /\ UNCHANGED <<work, stamp, saved, turns, inputs, waiterVars, status, cancelled, loopDone,
                   epoch, queue, eventReady, callerVars, watchVars>>

LoopWake ==
    /\ loopPc = "wait" /\ Idle("loop")
    /\ \/ signal /\ signal' = FALSE /\ loopPc' = "top"
       \/ cancelled /\ loopPc' = "end" /\ UNCHANGED signal
    /\ UNCHANGED <<runnerVars, inputEpoch, waiterClosed, status, cancelled, loopDone, epoch,
                   eventVars, callerVars, watchVars>>

LoopTop ==
    /\ loopPc = "top"
    /\ loopPc' = IF cancelled THEN "end" ELSE "check"
    /\ epoch' = IF cancelled THEN epoch ELSE inputEpoch
    /\ UNCHANGED <<runnerVars, waiterVars, status, cancelled, loopDone, eventVars, callerVars,
                   watchVars>>

LoopCheck ==
    /\ loopPc = "check"
    /\ IF HasUnprocessedMessages
       THEN /\ status' = "Running" /\ loopPc' = "more"
            /\ Emit("loop", [kind |-> "event"])
       ELSE loopPc' = "capture" /\ UNCHANGED <<status, emit>>
    /\ UNCHANGED <<runnerVars, waiterVars, cancelled, loopDone, epoch, queue, eventReady,
                   callerVars, watchVars>>

LoopMore ==
    /\ loopPc = "more" /\ Idle("loop")
    /\ loopPc' = CASE ~HasUnprocessedMessages -> "capture"
                   [] HasUnprocessedMessages /\ cancelled -> "end"
                   [] OTHER -> "advance"
    /\ UNCHANGED <<runnerVars, waiterVars, status, cancelled, loopDone, epoch, eventVars,
                   callerVars, watchVars>>

(* advance drains the external deliveries in the next step and takes it.   *)
LoopAdvance ==
    /\ loopPc = "advance" /\ ~cancelled
    /\ work' = [w \in Work |-> IF Unprocessed(w) THEN "handled" ELSE work[w]]
    /\ loopPc' = IF HasUnprocessedMessages THEN "step" ELSE "more"
    /\ UNCHANGED <<stamp, saved, turns, inputs, needsRepublish, waiterVars, status, cancelled,
                   loopDone, epoch, eventVars, callerVars, watchVars>>

(* A delivery that fails (an unknown request, a message that cannot be     *)
(* routed) ends the run; RunSuperStep also fails on a cancelled context.   *)
LoopAdvanceFails ==
    /\ loopPc = "advance"
    /\ \/ cancelled /\ UNCHANGED work
       \/ /\ MayFail
          /\ \E w \in Work, before \in SUBSET Work :
                /\ work[w] \in {"queued", "answered"} /\ w \notin before
                /\ \A b \in before : work[b] \in {"queued", "answered"}
                /\ work' = [v \in Work |-> IF v = w THEN "lost"
                                           ELSE IF v \in before THEN "next" ELSE work[v]]
    /\ Emit("loop", [kind |-> "error"])
    /\ loopPc' = "end"
    /\ UNCHANGED <<stamp, saved, turns, inputs, needsRepublish, waiterVars, status, cancelled,
                   loopDone, epoch, queue, eventReady, callerVars, watchVars>>

(* An executor finishes its part of the work, sends a follow-up message    *)
(* for the next step, or posts an external request.                        *)
LoopHandle(w) ==
    /\ loopPc = "step" /\ Idle("loop") /\ work[w] = "handled"
    /\ \/ work' = [work EXCEPT ![w] = "done"] /\ UNCHANGED turns
       \/ /\ turns > 0 /\ turns' = turns - 1
          /\ \E x \in {"next", "asking"} : work' = [work EXCEPT ![w] = x]
    /\ UNCHANGED <<stamp, saved, inputs, needsRepublish, waiterVars, loopVars, eventVars,
                   callerVars, watchVars>>

(* An executor raises an event; a refused event fails its handler.         *)
LoopRaise ==
    /\ loopPc = "step" /\ Idle("loop") /\ turns > 0 /\ ~cancelled
    /\ \E x \in {"event", "haltRequest"} : Emit("loop", [kind |-> x])
    /\ turns' = turns - 1
    /\ UNCHANGED <<work, stamp, saved, inputs, needsRepublish, waiterVars, loopVars, queue,
                   eventReady, callerVars, watchVars>>

\* Mutant: a failed superstep cancels the run without raising its ErrorEvent.
LoopStepFailsSilently ==
    /\ loopPc = "step" /\ Idle("loop") /\ StepRunning /\ MayFail
    /\ work' = [w \in Work |-> IF work[w] = "handled" THEN "lost" ELSE work[w]]
    /\ loopPc' = "fail"
    /\ UNCHANGED <<stamp, saved, turns, inputs, needsRepublish, waiterVars, status, cancelled,
                   loopDone, epoch, eventVars, callerVars, watchVars>>

(* A failed superstep reports an ErrorEvent, whose handler cancels the     *)
(* run; in a cancelled run the report is refused.                          *)
LoopStepFails ==
    /\ loopPc = "step" /\ Idle("loop") /\ StepRunning
    /\ \/ MayFail /\ ~cancelled /\ loopPc' = "fail"
       \/ cancelled /\ loopPc' \in {"more", "end"}
    /\ work' = [w \in Work |-> IF work[w] = "handled" THEN "lost" ELSE work[w]]
    /\ Emit("loop", [kind |-> "error"])
    /\ UNCHANGED <<stamp, saved, turns, inputs, needsRepublish, waiterVars, status, cancelled,
                   loopDone, epoch, queue, eventReady, callerVars, watchVars>>

LoopCancelsOnError ==
    /\ loopPc = "fail" /\ Idle("loop")
    /\ cancelled' = TRUE /\ loopPc' = "more"
    /\ UNCHANGED <<runnerVars, waiterVars, status, loopDone, epoch, eventVars, callerVars,
                   watchVars>>

(* The checkpoint holds the next step and the pending requests; external   *)
(* deliveries not yet drained are not part of it.                          *)
LoopStepEnds ==
    /\ loopPc = "step" /\ Idle("loop") /\ ~StepRunning
    /\ saved' = saved \cup {[w \in Work |-> CASE work[w] = "queued" -> "new"
                                              [] work[w] = "answered" -> "asking"
                                              [] OTHER -> work[w]]}
    /\ loopPc' = "more"
    /\ UNCHANGED <<work, stamp, turns, inputs, needsRepublish, waiterVars, status, cancelled,
                   loopDone, epoch, eventVars, callerVars, watchVars>>

\* Mutant: the end of a cycle drains the semaphore as if its signal were stale.
LoopCaptureDrains ==
    /\ loopPc = "capture"
    /\ status' = IF HasUnservicedRequests THEN "PendingRequests" ELSE "Idle"
    /\ loopPc' = "halt" /\ signal' = FALSE
    /\ UNCHANGED <<runnerVars, inputEpoch, waiterClosed, cancelled, loopDone, epoch, eventVars,
                   callerVars, watchVars>>

LoopCapture ==
    /\ loopPc = "capture"
    /\ status' = IF HasUnservicedRequests THEN "PendingRequests" ELSE "Idle"
    /\ loopPc' = "halt"
    /\ UNCHANGED <<runnerVars, waiterVars, cancelled, loopDone, epoch, eventVars, callerVars,
                   watchVars>>

\* Mutant: the epoch is loaded when the halt is sent, not when the cycle starts.
LoopHaltLoadsLate ==
    /\ loopPc = "halt"
    /\ Emit("loop", [kind |-> "halt", epoch |-> inputEpoch, status |-> status])
    /\ loopPc' = IF cancelled THEN "end" ELSE "wait"
    /\ UNCHANGED <<runnerVars, waiterVars, status, cancelled, loopDone, epoch, queue,
                   eventReady, callerVars, watchVars>>

LoopHalt ==
    /\ loopPc = "halt"
    /\ Emit("loop", [kind |-> "halt", epoch |-> epoch, status |-> status])
    /\ loopPc' = IF cancelled THEN "end" ELSE "wait"
    /\ UNCHANGED <<runnerVars, waiterVars, status, cancelled, loopDone, epoch, queue,
                   eventReady, callerVars, watchVars>>

(* The deferred calls of runLoop: the status, the cancellation, the close. *)
LoopEnd ==
    /\ loopPc = "end" /\ Idle("loop")
    /\ status' = "Ended" /\ loopPc' = "cancel"
    /\ UNCHANGED <<runnerVars, waiterVars, cancelled, loopDone, epoch, eventVars, callerVars,
                   watchVars>>

LoopCancel ==
    /\ loopPc = "cancel"
    /\ cancelled' = TRUE /\ loopPc' = "close"
    /\ UNCHANGED <<runnerVars, waiterVars, status, loopDone, epoch, eventVars, callerVars,
                   watchVars>>

\* Mutant: the run loop returns without closing runLoopDone.
LoopCloseForgets ==
    /\ loopPc = "close" /\ loopPc' = "done"
    /\ UNCHANGED <<runnerVars, waiterVars, status, cancelled, loopDone, epoch, eventVars,
                   callerVars, watchVars>>

LoopClose ==
    /\ loopPc = "close"
    /\ loopDone' = TRUE /\ loopPc' = "done"
    /\ UNCHANGED <<runnerVars, waiterVars, status, cancelled, epoch, eventVars, callerVars,
                   watchVars>>

Loop == \/ LoopStart \/ LoopWake \/ LoopTop \/ LoopCheck \/ LoopMore \/ LoopAdvance
        \/ LoopAdvanceFails \/ LoopRaise \/ LoopStepFails \/ LoopCancelsOnError
        \/ LoopStepEnds \/ LoopCapture \/ LoopHalt \/ LoopEnd \/ LoopCancel \/ LoopClose
        \/ \E w \in Work : LoopHandle(w)

-----------------------------------------------------------------------------
(* Callers of the run handle.                                              *)

(* NewRunHandle signals once when the run is opened with something to do.  *)
Open ==
    /\ \/ openPc = "add" /\ AddEpoch /\ openPc' = "wake" /\ UNCHANGED signal
       \/ openPc = "wake" /\ SignalInput /\ openPc' = "done" /\ UNCHANGED <<inputEpoch, stamp>>
    /\ UNCHANGED <<work, saved, turns, inputs, needsRepublish, waiterClosed, loopVars, eventVars,
                   clientPc, stopPc, endRun, restorePc, cleared, watchVars>>

(* EnqueueMessageUntyped wakes the run loop even for a rejected message.   *)
ClientSend(w) ==
    /\ openPc = "done" /\ clientPc[w] = "idle" /\ ~endRun /\ inputs > 0
    /\ work[w] \in {"new", "done", "lost"}
    /\ inputs' = inputs - 1
    /\ \/ work' = [work EXCEPT ![w] = "queued"] /\ stamp' = [stamp EXCEPT ![w] = 0]
       \/ UNCHANGED <<work, stamp>>
    /\ clientPc' = [clientPc EXCEPT ![w] = "add"]
    /\ UNCHANGED <<saved, turns, needsRepublish, waiterVars, loopVars, eventVars, openPc, stopPc,
                   endRun, restorePc, cleared, watchVars>>

ClientRespond(w) ==
    /\ openPc = "done" /\ clientPc[w] = "idle" /\ ~endRun /\ inputs > 0
    /\ work[w] = "asking"
    /\ inputs' = inputs - 1
    /\ work' = [work EXCEPT ![w] = "answered"] /\ stamp' = [stamp EXCEPT ![w] = 0]
    /\ clientPc' = [clientPc EXCEPT ![w] = "add"]
    /\ UNCHANGED <<saved, turns, needsRepublish, waiterVars, loopVars, eventVars, openPc, stopPc,
                   endRun, restorePc, cleared, watchVars>>

\* Mutant: enqueueing counts the input but does not wake the run loop.
ClientOnlyCounts(w) ==
    /\ clientPc[w] = "add" /\ AddEpoch
    /\ clientPc' = [clientPc EXCEPT ![w] = "idle"]
    /\ UNCHANGED <<work, saved, turns, inputs, needsRepublish, signal, waiterClosed, loopVars,
                   eventVars, openPc, stopPc, endRun, restorePc, cleared, watchVars>>

ClientSignal(w) ==
    /\ \/ /\ clientPc[w] = "add" /\ AddEpoch /\ UNCHANGED signal
          /\ clientPc' = [clientPc EXCEPT ![w] = "wake"]
       \/ /\ clientPc[w] = "wake" /\ SignalInput /\ UNCHANGED <<inputEpoch, stamp>>
          /\ clientPc' = [clientPc EXCEPT ![w] = "idle"]
    /\ UNCHANGED <<work, saved, turns, inputs, needsRepublish, waiterClosed, loopVars, eventVars,
                   openPc, stopPc, endRun, restorePc, cleared, watchVars>>

Cancel(s) ==
    /\ openPc = "done" /\ stopPc[s] = "idle"
    /\ endRun' = TRUE /\ stopPc' = [stopPc EXCEPT ![s] = "cancel"]
    /\ UNCHANGED <<runnerVars, waiterVars, loopVars, eventVars, openPc, clientPc, restorePc,
                   cleared, watchVars>>

Stop(s) ==
    /\ \/ /\ stopPc[s] = "cancel" /\ cancelled' = TRUE /\ UNCHANGED <<signal, waiterClosed>>
          /\ stopPc' = [stopPc EXCEPT ![s] = "wake"]
       \/ /\ stopPc[s] = "wake" /\ SignalInput /\ UNCHANGED <<cancelled, waiterClosed>>
          /\ stopPc' = [stopPc EXCEPT ![s] = "join"]
       \/ /\ stopPc[s] = "join" /\ loopDone /\ waiterClosed' = TRUE
          /\ stopPc' = [stopPc EXCEPT ![s] = "done"] /\ UNCHANGED <<signal, cancelled>>
    /\ UNCHANGED <<runnerVars, inputEpoch, status, loopDone, loopPc, epoch, eventVars, openPc,
                   clientPc, endRun, restorePc, cleared, watchVars>>

(* RestoreCheckpoint: ClearBufferedEvents one event at a time, then the    *)
(* restore (refused while a superstep holds the lock), the republishing of *)
(* pending requests, and the input signal, which a failed restore skips.   *)
RestoreClear(k) ==
    /\ restorePc[k] \in {"idle", "clear"} /\ openPc = "done" /\ saved # {}
    /\ IF queue = <<>>
       THEN restorePc' = [restorePc EXCEPT ![k] = "restore"] /\ UNCHANGED <<queue, cleared>>
       ELSE /\ queue' = Tail(queue) /\ cleared' = TRUE
            /\ restorePc' = [restorePc EXCEPT ![k] = "clear"]
    /\ UNCHANGED <<runnerVars, waiterVars, loopVars, eventReady, emit, openPc, clientPc, stopPc,
                   endRun, watchVars>>

\* Mutant: a successful restore does not signal input.
RestoreSilently(k) ==
    /\ restorePc[k] = "restore" /\ loopPc \notin {"step", "fail"}
    /\ work' \in saved /\ stamp' = [w \in Work |-> 0]
    /\ restorePc' = [restorePc EXCEPT ![k] = "done"]
    /\ UNCHANGED <<saved, turns, inputs, needsRepublish, waiterVars, loopVars, eventVars, openPc,
                   clientPc, stopPc, endRun, cleared, watchVars>>

Restore(k) ==
    /\ restorePc[k] = "restore"
    /\ \/ /\ loopPc \notin {"step", "fail"}
          /\ work' \in saved /\ stamp' = [w \in Work |-> 0]
          /\ restorePc' = [restorePc EXCEPT ![k] =
                \* republishing is left out when nothing is pending
                IF \E w \in Work : work'[w] = "asking" THEN "republish" ELSE "add"]
       \/ /\ loopPc \in {"step", "fail"}
          /\ restorePc' = [restorePc EXCEPT ![k] = "done"] /\ UNCHANGED <<work, stamp>>
       \/ /\ MayFail
          /\ restorePc' = [restorePc EXCEPT ![k] = "failed"] /\ UNCHANGED <<work, stamp>>
    /\ UNCHANGED <<saved, turns, inputs, needsRepublish, waiterVars, loopVars, eventVars, openPc,
                   clientPc, stopPc, endRun, cleared, watchVars>>

RestoreRepublish(k) ==
    /\ restorePc[k] = "republish"
    /\ Emit(k, [kind |-> "event"])
    /\ restorePc' = [restorePc EXCEPT ![k] = IF cancelled THEN "done" ELSE "add"]
    /\ UNCHANGED <<runnerVars, waiterVars, loopVars, queue, eventReady, openPc, clientPc, stopPc,
                   endRun, cleared, watchVars>>

RestoreSignal(k) ==
    /\ \/ /\ restorePc[k] = "add" /\ Idle(k) /\ AddEpoch /\ UNCHANGED signal
          /\ restorePc' = [restorePc EXCEPT ![k] = "wake"]
       \/ /\ restorePc[k] = "wake" /\ SignalInput /\ UNCHANGED <<inputEpoch, stamp>>
          /\ restorePc' = [restorePc EXCEPT ![k] = "done"]
    /\ UNCHANGED <<work, saved, turns, inputs, needsRepublish, waiterClosed, loopVars, eventVars,
                   openPc, clientPc, stopPc, endRun, cleared, watchVars>>

-----------------------------------------------------------------------------
(* Watchers: RunHandle.TakeEventStream over the stream's own.              *)

Return(r, how) ==
    /\ outcome' = [outcome EXCEPT ![r] = how]
    /\ watchPc' = [watchPc EXCEPT ![r] = "done"]
    /\ taken' = FALSE

GoTo(r, pc) ==
    /\ watchPc' = [watchPc EXCEPT ![r] = pc]
    /\ UNCHANGED <<outcome, taken>>

WatchBegin(r) ==
    /\ openPc = "done" /\ watchPc[r] = "idle"
    /\ IF taken
       THEN /\ outcome' = [outcome EXCEPT ![r] = "refused"]
            /\ watchPc' = [watchPc EXCEPT ![r] = "done"] /\ UNCHANGED <<taken, blocking>>
       ELSE /\ taken' = TRUE /\ watchPc' = [watchPc EXCEPT ![r] = "load"]
            /\ \E b \in BOOLEAN : blocking' = [blocking EXCEPT ![r] = b]
            /\ UNCHANGED outcome
    /\ UNCHANGED <<runnerVars, waiterVars, loopVars, eventVars, callerVars, myEpoch, told>>

\* Mutant: a watcher does not ask for a fresh halt.
WatchLoadOnly(r) ==
    /\ watchPc[r] = "load" /\ GoTo(r, "snapshot")
    /\ UNCHANGED <<runnerVars, waiterVars, loopVars, eventVars, callerVars, blocking, myEpoch,
                   told>>

WatchLoad(r) ==
    /\ watchPc[r] = "load"
    /\ GoTo(r, IF inputEpoch = 0 THEN "snapshot" ELSE "add")
    /\ UNCHANGED <<runnerVars, waiterVars, loopVars, eventVars, callerVars, blocking, myEpoch,
                   told>>

WatchSignal(r) ==
    /\ \/ watchPc[r] = "add" /\ AddEpoch /\ GoTo(r, "wake") /\ UNCHANGED signal
       \/ /\ watchPc[r] = "wake" /\ SignalInput /\ GoTo(r, "snapshot")
          /\ UNCHANGED <<inputEpoch, stamp>>
    /\ UNCHANGED <<work, saved, turns, inputs, needsRepublish, waiterClosed, loopVars, eventVars,
                   callerVars, blocking, myEpoch, told>>

WatchSnapshot(r) ==
    /\ watchPc[r] = "snapshot"
    /\ myEpoch' = [myEpoch EXCEPT ![r] = inputEpoch]
    /\ GoTo(r, "next")
    /\ UNCHANGED <<runnerVars, waiterVars, loopVars, eventVars, callerVars, blocking, told>>

\* Mutant: any halt satisfies a watcher.
SatisfiedByAny(h, r) == h.status = "Idle" \/ ~blocking[r]

(* A halt older than the watcher's epoch is skipped.                       *)
Satisfies(h, r) ==
    /\ h.epoch >= myEpoch[r]
    /\ h.status = "Idle" \/ ~blocking[r]

WatchHalt(r) ==
    /\ watchPc[r] = "next" /\ queue # <<>> /\ IsHalt(Head(queue))
    /\ queue' = Tail(queue)
    /\ IF Satisfies(Head(queue), r) THEN Return(r, "halt") ELSE GoTo(r, "next")
    /\ UNCHANGED <<runnerVars, waiterVars, loopVars, eventReady, emit, callerVars, blocking,
                   myEpoch, told>>

(* Any other event: the handle filters the halt requests and stops when    *)
(* the run was cancelled; the consumer may stop at any event.              *)
WatchEvent(r) ==
    /\ watchPc[r] = "next" /\ queue # <<>> /\ ~IsHalt(Head(queue))
    /\ queue' = Tail(queue)
    /\ \/ endRun /\ Return(r, "cancelled") /\ UNCHANGED told
       \/ Head(queue).kind = "haltRequest" /\ Return(r, "haltRequest") /\ UNCHANGED told
       \/ /\ Head(queue).kind # "haltRequest"
          /\ told' = IF Head(queue).kind = "error" THEN told \cup {r} ELSE told
          /\ GoTo(r, "next") \/ Return(r, "abandoned")
    /\ UNCHANGED <<runnerVars, waiterVars, loopVars, eventReady, emit, callerVars, blocking,
                   myEpoch>>

WatchEmpty(r) ==
    /\ watchPc[r] = "next" /\ queue = <<>>
    /\ GoTo(r, "select")
    /\ UNCHANGED <<runnerVars, waiterVars, loopVars, eventVars, callerVars, blocking, myEpoch,
                   told>>

WatchSelect(r) ==
    /\ watchPc[r] = "select"
    /\ \/ eventReady /\ eventReady' = FALSE /\ GoTo(r, "next")
       \/ endRun /\ Return(r, "cancelled") /\ UNCHANGED eventReady
       \/ /\ cancelled /\ UNCHANGED eventReady
          /\ IF queue = <<>> THEN Return(r, "ended") ELSE GoTo(r, "next")
    /\ UNCHANGED <<runnerVars, waiterVars, loopVars, queue, emit, callerVars, blocking, myEpoch,
                   told>>

Watch(r) == WatchLoad(r) \/ WatchSignal(r) \/ WatchSnapshot(r) \/ WatchHalt(r)
            \/ WatchEvent(r) \/ WatchEmpty(r) \/ WatchSelect(r)

-----------------------------------------------------------------------------
EmitStep(p) == EmitPut(p) \/ EmitReady(p)
RestoreStep(k) == RestoreClear(k) \/ Restore(k) \/ RestoreRepublish(k) \/ RestoreSignal(k)

Next ==
    \/ Loop \/ Open
    \/ \E p \in Emitters : EmitStep(p)
    \/ \E w \in Work : ClientSend(w) \/ ClientRespond(w) \/ ClientSignal(w)
    \/ \E s \in Stoppers : Cancel(s) \/ Stop(s)
    \/ \E k \in Restorers : RestoreStep(k)
    \/ \E r \in Watchers : WatchBegin(r) \/ Watch(r)

(* Every goroutine that has started runs on; whether a client sends, a     *)
(* watcher watches or somebody cancels or restores is up to them.          *)
Fairness ==
    /\ WF_vars(Loop) /\ WF_vars(Open)
    /\ \A p \in Emitters : WF_vars(EmitStep(p))
    /\ \A w \in Work : WF_vars(ClientSignal(w))
    /\ \A s \in Stoppers : WF_vars(Stop(s))
    /\ \A k \in Restorers : WF_vars(restorePc[k] # "idle" /\ RestoreStep(k))
    /\ \A r \in Watchers : WF_vars(Watch(r))

Spec == Init /\ [][Next]_vars
FairSpec == Spec /\ Fairness

-----------------------------------------------------------------------------
(* Everything is of its type, group of variables by group.                 *)
RunnerTypeOK ==
    /\ work \in [Work -> WorkStates] /\ stamp \in [Work -> Nat]
    /\ saved \subseteq [Work -> WorkStates]
    /\ turns \in Nat /\ inputs \in Nat /\ needsRepublish \in BOOLEAN
WaiterTypeOK == inputEpoch \in Nat /\ signal \in BOOLEAN /\ waiterClosed \in BOOLEAN
LoopTypeOK ==
    /\ status \in {"NotStarted", "Running", "Idle", "PendingRequests", "Ended"}
    /\ cancelled \in BOOLEAN /\ loopDone \in BOOLEAN
    /\ loopPc \in {"start", "wait", "top", "check", "more", "advance", "step", "fail", "capture",
                   "halt", "end", "cancel", "close", "done"}
    /\ epoch \in Nat
    /\ loopPc = "halt" => status \in {"Idle", "PendingRequests"}
EventsTypeOK ==
    /\ queue \in Seq(Event \cup Halt) /\ eventReady \in BOOLEAN
    /\ emit \in [Emitters -> {Silent} \cup [stage : {"put", "ready"}, event : Event \cup Halt]]
CallersTypeOK ==
    /\ openPc \in {"add", "wake", "done"}
    /\ clientPc \in [Work -> {"idle", "add", "wake"}]
    /\ stopPc \in [Stoppers -> {"idle", "cancel", "wake", "join", "done"}]
    /\ endRun \in BOOLEAN /\ cleared \in BOOLEAN
    /\ restorePc \in [Restorers -> {"idle", "clear", "restore", "republish", "add", "wake", "done",
                                    "failed"}]
WatchTypeOK ==
    /\ watchPc \in [Watchers -> {"idle", "load", "add", "wake", "snapshot", "next", "select",
                                 "done"}]
    /\ blocking \in [Watchers -> BOOLEAN] /\ myEpoch \in [Watchers -> Nat] /\ taken \in BOOLEAN
    /\ outcome \in [Watchers -> {"none", "refused", "halt", "haltRequest", "cancelled", "ended",
                                 "abandoned"}]
    /\ told \subseteq Watchers
TypeOK ==
    /\ RunnerTypeOK /\ WaiterTypeOK /\ LoopTypeOK
    /\ EventsTypeOK /\ CallersTypeOK /\ WatchTypeOK

(* A cycle that started at epoch e and ended with status st left nothing   *)
(* undone of what was enqueued before the input signal e.                  *)
Settled(w, st) == work[w] \in ({"new", "done", "lost"} \cup
                               IF st = "Idle" THEN {} ELSE {"asking"})
Acknowledges(e, st) == \A w \in Work : stamp[w] \in 1..e => Settled(w, st)

(* A halt is an acknowledgement: while it waits in the queue, or is on its *)
(* way there, everything enqueued before the input signals it counts has   *)
(* been handled, and with status Idle no request of it is still pending    *)
(* (runLoop loads the epoch before it looks for work).                     *)
Outstanding ==
    LET events == {queue[i] : i \in 1..Len(queue)}
                  \cup {emit[p].event : p \in {q \in Emitters : emit[q].stage = "put"}}
    IN  {e \in events : IsHalt(e)}
HaltAcknowledgesInput == \A h \in Outstanding : Acknowledges(h.epoch, h.status)

(* A watcher returns on a halt only when everything enqueued before its    *)
(* epoch snapshot's signals was handled; a blocking watcher also only when *)
(* none of it still waits for a response.                                  *)
WatchReturnsOnlyWhenSettled ==
    [][\A r \in Watchers : outcome[r] = "none" /\ outcome'[r] = "halt" =>
          Acknowledges(myEpoch[r], IF blocking[r] THEN "Idle" ELSE "PendingRequests")]_vars

(* Somebody is between enqueueing (or restoring) work and the semaphore.   *)
Waking ==
    \/ openPc \in {"add", "wake"}
    \/ \E w \in Work : clientPc[w] \in {"add", "wake"}
    \/ \E k \in Restorers : restorePc[k] \in {"republish", "add", "wake"}
    \/ \E r \in Watchers : watchPc[r] \in {"add", "wake"}

(* No wake-up is lost: when a live run loop is past its check for work,    *)
(* new work comes with a set semaphore or with somebody about to set it,   *)
(* although the semaphore swallows a signal when it is already set.        *)
NoLostWakeup ==
    loopPc \in {"capture", "halt", "wait"} /\ HasUnprocessedMessages /\ ~cancelled
        => signal \/ Waking

(* A watcher that will not wait for responses is never stranded: a run     *)
(* loop asleep with no signal coming has left it a halt that satisfies it, *)
(* or is still enqueueing it; only a restore that fails once it has        *)
(* cleared the buffer can take that halt away.                             *)
NoStrandedWatcher ==
    \A r \in Watchers :
        /\ watchPc[r] \in {"next", "select"} /\ ~blocking[r] /\ myEpoch[r] > 0
        /\ loopPc = "wait" /\ Idle("loop") /\ ~cancelled /\ ~signal /\ ~Waking
        /\ \A k \in Restorers : restorePc[k] \in {"idle", "done"}
        => \E i \in 1..Len(queue) : IsHalt(queue[i]) /\ queue[i].epoch >= myEpoch[r]

(* A run that dies on its own says why: a watch that ends because the run  *)
(* loop ended, when nobody cancelled the run and no restore cleared the    *)
(* buffer, comes after some watcher received the ErrorEvent.               *)
DeathIsReported ==
    \A r \in Watchers : outcome[r] = "ended" /\ ~endRun /\ ~cleared => told # {}

(* A watcher that does not wait for responses returns once the run had any *)
(* input, as long as it keeps reading and no restore fails.                *)
WatchReturns ==
    \A r \in Watchers :
        watchPc[r] \in {"next", "select"} /\ ~blocking[r] /\ inputEpoch > 0
            ~> watchPc[r] = "done" \/ \E k \in Restorers : restorePc[k] = "failed"

(* Signalled work is handled, unless the run is cancelled or fails.        *)
WorkIsHandled ==
    \A w \in Work : Unprocessed(w) /\ stamp[w] > 0 ~> ~Unprocessed(w) \/ cancelled

(* Cancel returns: the run loop ends and is joined, whatever it was doing. *)
CancelReturns == \A s \in Stoppers : stopPc[s] = "cancel" ~> stopPc[s] = "done"

=============================================================================
