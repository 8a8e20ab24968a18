-------------------------------- MODULE AgentTurn --------------------------------
(***************************************************************************)
(* The turns of one session of an agent as docs/agent-harness.md composes it: *)
(* tool approval (ToolApproval) around tool invocation (toolautocall) around  *)
(* message injection around the history that is persisted per model call.    *)
(* The caller sends answers and the results only he has; the turn works      *)
(* through the layers in its goroutine, while messages are injected and the  *)
(* request may be cancelled at any time. Every layer keeps books of its own  *)
(* in the session, and what a run that fails has not saved is gone.          *)
(*                                                                           *)
(* Left out: the iteration limit, which only takes the tools from the last   *)
(* model call; unknown and non-invocable tools; hosted calls; call ids used  *)
(* twice; requests and responses a caller writes into the messages himself.  *)
(***************************************************************************)
EXTENDS ToolApproval

CONSTANTS MaxErrors,    \* MaximumConsecutiveErrorsPerRequest
          MaxRounds,    \* MaxAutoApprovalIterations
          MaxFailures,  \* bound: runs that fail, are cancelled or abandoned
          MaxInjected   \* bound: injected messages

ASSUME AgentTurnAssumption == {MaxErrors, MaxRounds, MaxFailures, MaxInjected} \subseteq Nat

VARIABLES
  \* the session
  saved,      \* toolApprovalState: rules, collected, queued
  surfaced,   \* its map of surfaced requests
  raw,        \* the map in the JSON the session was loaded from, as long as that counts
  pending,    \* toolautocall: requests whose response is to be bound
  auto,       \* toolautocall: safe calls that wait beside them
  called,     \* history: calls of the model
  answered,   \* history: calls with a result
  injected,   \* MessageInjector's queue
  \* the run
  pc,
  st,         \* the middleware's copy of its state
  round,      \* inner runs of this turn that ended with nothing but auto-approved calls
  mine,       \* responses in the caller's messages
  todo,       \* calls of the batch not yet invoked
  results,    \* results (and those the caller returned) on their way to the model
  erred,      \* a call of this batch failed
  errs,       \* errCount
  halt,       \* what ended a serial batch early: "no", "error", "terminate"
  asked,      \* requests of the inner run, to be classified
  inflight,   \* injected messages in the model call
  cancelled,  \* the request's context
  concurrent, \* AllowConcurrentInvocations
  \* the caller, and what happened
  shown,      \* requests he was shown
  handed,     \* results he was handed and the history does not have
  consent,    \* calls he approved
  promised,   \* tools he has approved for the session
  ran,        \* call -> times its tool was called
  refused,    \* calls with a rejection for a result
  dropped,    \* calls that a failed or abandoned run left to nobody
  heard,      \* injected messages the model answered to
  sent, failures

session == <<saved, surfaced, raw, pending, auto>>
history == <<called, answered>>
batch   == <<todo, results, erred, errs, halt>>
run     == <<st, round, mine, asked, inflight, cancelled>>
caller  == <<shown, handed, consent, promised, dropped>>
doings  == <<ran, refused>>
inject  == <<injected, heard, sent>>
vars == <<session, history, batch, run, caller, doings, inject, pc, concurrent, failures>>

Init ==
  /\ saved = NoState /\ st = NoState
  /\ surfaced = {} /\ raw = {} /\ pending = {} /\ auto = {}
  /\ called = {} /\ answered = {}
  /\ injected = <<>> /\ heard = <<>> /\ inflight = <<>> /\ sent = 0
  /\ pc = "idle" /\ round = 0 /\ mine = {} /\ asked = <<>> /\ cancelled = FALSE
  /\ todo = {} /\ results = {} /\ erred = FALSE /\ errs = 0 /\ halt = "no"
  /\ concurrent \in BOOLEAN
  /\ shown = {} /\ handed = {} /\ consent = {} /\ promised = {} /\ dropped = {}
  /\ ran = [c \in Calls |-> 0] /\ refused = {}
  /\ failures = 0

Fails == failures < MaxFailures /\ failures' = failures + 1
BreaksOff == IF cancelled THEN UNCHANGED failures ELSE Fails

\* saveState: the copy becomes the session's, and a session that was loaded
\* from JSON no longer marshals to that JSON.
Save(s) == saved' = s /\ st' = s /\ raw' = {}

\* The turn is over; the results it did not bring to the model stay with the
\* caller, to whom they were yielded.
Ends(undelivered) ==
  /\ pc' = "idle"
  /\ handed' = handed \cup undelivered
  /\ round' = 0 /\ mine' = {} /\ asked' = <<>> /\ inflight' = <<>>
  /\ todo' = {} /\ results' = {} /\ erred' = FALSE /\ errs' = 0 /\ halt' = "no"

\* An error ends the turn: what the middleware did to its copy is not saved.
\* Answers and requests that only the copy knew are with nobody then.
Known == CallsOf(saved.collected) \cup InQueue(saved.queued) \cup surfaced
EndsInError ==
  /\ Ends(results)
  /\ st' = saved
  /\ dropped' = dropped \cup ((CallsOf(mine \cup st.collected) \cup InQueue(asked)) \ Known)
  /\ UNCHANGED <<saved, raw>>

-----------------------------------------------------------------------------
(* Tool approval, outside                                                  *)

\* The caller sends answers to requests he was shown, once more if he likes,
\* text, and the results he was left with (the text is not modelled).
Receive(answers) ==
  /\ pc = "idle"
  /\ pc' = "turn"
  /\ st' = PrepareInbound(saved, answers, surfaced)
  /\ mine' = KeptInMessages(saved, answers, surfaced)
  /\ surfaced' = surfaced \ DOMAIN answers
  /\ results' = handed /\ handed' = {}
  /\ consent' = consent \cup {c \in DOMAIN answers : answers[c] # "no"}
  /\ promised' = promised \cup NewRules(answers, surfaced)
  /\ cancelled' = FALSE
  /\ UNCHANGED <<saved, raw, pending, auto, history, todo, erred, errs, halt, round, asked,
                 inflight, shown, dropped, doings, inject, concurrent, failures>>

\* The next queued request that no rule covers is surfaced; nothing else of the
\* caller's messages is used, the results in them included.
Surface ==
  /\ pc = "turn"
  /\ LET s == Drain(st)
     IN /\ s.queued # <<>>
        /\ Save([s EXCEPT !.queued = Tail(@)])
        /\ surfaced' = surfaced \cup {Head(s.queued)}
        /\ shown' = shown \cup {Head(s.queued)}
  /\ Ends({})
  /\ dropped' = dropped \cup results
  /\ UNCHANGED <<pending, auto, history, cancelled, consent, promised, doings, inject, concurrent, failures>>

\* Nothing is queued any more: the inner agent is called.
Enter ==
  /\ pc = "turn"
  /\ Drain(st).queued = <<>>
  /\ st' = Drain(st)
  /\ pc' = "inner"
  /\ UNCHANGED <<session, history, batch, round, mine, asked, inflight, cancelled, caller,
                 doings, inject, concurrent, failures>>

\* A configured rule fails, on a queued request or a new one that no standing
\* rule covers.
RuleFails ==
  /\ pc = "turn" \/ (pc = "classify" /\ round < MaxRounds)
  /\ \E c \in InQueue(st.queued \o asked) : ToolOf[c] \notin st.rules
  /\ Fails
  /\ EndsInError
  /\ UNCHANGED <<surfaced, pending, auto, history, cancelled, shown, consent, promised, doings,
                 inject, concurrent>>

\* The requests of the inner run. After MaxRounds runs with nothing but
\* auto-approved calls they are all passed on; otherwise the first that needs
\* approval is surfaced, or else the inner agent is run again.
Classify ==
  /\ pc = "classify"
  /\ LET s == Classified(st, asked)
         needs == NeedsApproval(st, asked)
         show == IF round >= MaxRounds THEN InQueue(asked)
                 ELSE IF needs = <<>> THEN {} ELSE {Head(needs)}
     IN /\ surfaced' = surfaced \cup show
        /\ shown' = shown \cup show
        /\ IF show # {}
             THEN /\ Save(IF round >= MaxRounds THEN st ELSE s)
                  /\ Ends({})
             ELSE /\ st' = s
                  /\ pc' = "inner"
                  /\ round' = round + 1
                  /\ asked' = <<>>
                  /\ UNCHANGED <<saved, raw, mine, inflight, batch, handed>>
  /\ UNCHANGED <<pending, auto, history, cancelled, consent, promised, dropped, doings, inject,
                 concurrent, failures>>

-----------------------------------------------------------------------------
(* Tool invocation, inside                                                 *)

\* The inner agent fails before it looks at the responses: a context provider,
\* or the cancelled request.
InnerFails ==
  /\ pc = "inner"
  /\ BreaksOff
  /\ EndsInError
  /\ UNCHANGED <<surfaced, pending, auto, history, cancelled, shown, consent, promised, doings,
                 inject, concurrent>>

\* Mutant: an answered request can be answered again.
StillPendingKept(bound) == pending

\* bindApprovalResponses consumes the requests it binds.
StillPending(bound) == pending \ bound

\* injectPendingAutoApprovedCalls takes the safe calls out of the session.
StillAuto == {}

\* bindApprovalResponses, injectPendingAutoApprovedCalls and
\* processToolApprovalResponses: a response whose request is not pending is
\* dropped, a rejected call gets its result, approved and safe calls are the batch.
Bind ==
  /\ pc = "inner" /\ ~cancelled
  /\ LET responses == mine \cup st.collected
         bound == (CallsOf(responses) \cap pending) \ results
         yes == {c \in bound : <<c, TRUE>> \in responses}
     IN /\ pending' = StillPending(bound)
        /\ auto' = StillAuto
        /\ refused' = refused \cup (bound \ yes)
        /\ results' = results \cup (bound \ yes)
        /\ todo' = yes \cup auto
        /\ pc' = IF yes \cup auto = {} THEN "model" ELSE "tools"
  /\ st' = [st EXCEPT !.collected = {}]
  /\ mine' = {} /\ errs' = 0
  /\ UNCHANGED <<saved, surfaced, raw, history, erred, halt, round, asked, inflight, cancelled,
                 caller, ran, inject, concurrent, failures>>

\* processFunctionCall: a tool runs, fails, or asks for the loop to end. With
\* MaxErrors failed batches behind it a serial batch ends at its first error.
RunTool(c, how) ==
  /\ pc = "tools" /\ c \in todo
  /\ ~cancelled /\ (halt = "no" \/ concurrent)
  /\ how = "error" => failures < MaxFailures
  /\ ran' = [ran EXCEPT ![c] = @ + 1]
  /\ todo' = todo \ {c}
  /\ results' = results \cup {c}
  /\ erred' = (erred \/ how = "error")
  /\ halt' = IF how = "terminate" \/ (how = "error" /\ ~concurrent /\ errs >= MaxErrors)
             THEN how ELSE halt
  /\ UNCHANGED <<session, history, errs, run, caller, refused, inject, pc, concurrent, failures>>

\* processFunctionCalls and updateConsecutiveErrorCountOrThrow: every call of
\* the batch gets a result, the ones not invoked too.
BatchOver == todo = {} \/ cancelled \/ (halt # "no" /\ ~concurrent)
TooManyErrors == erred /\ errs >= MaxErrors
EndBatch ==
  /\ pc = "tools" /\ BatchOver /\ ~cancelled /\ ~TooManyErrors /\ halt # "terminate"
  /\ results' = results \cup todo
  /\ todo' = {}
  /\ errs' = IF erred THEN errs + 1 ELSE 0
  /\ erred' = FALSE
  /\ pc' = "model"
  /\ UNCHANGED <<session, history, halt, run, caller, doings, inject, concurrent, failures>>

\* The error limit or the cancelled request ends the run.
BatchFails ==
  /\ pc = "tools" /\ BatchOver /\ (cancelled \/ TooManyErrors)
  /\ Ends(results \cup todo)
  /\ st' = saved
  /\ failures' = IF cancelled THEN failures ELSE failures + 1
  /\ UNCHANGED <<session, history, cancelled, shown, consent, promised, dropped, doings, inject,
                 concurrent>>

\* A tool asked for termination: the run is complete without the model.
Terminate ==
  /\ pc = "tools" /\ BatchOver /\ ~cancelled /\ ~TooManyErrors /\ halt = "terminate"
  /\ Ends(results \cup todo)
  /\ Save(st)
  /\ UNCHANGED <<surfaced, pending, auto, history, cancelled, shown, consent, promised, dropped,
                 doings, inject, concurrent, failures>>

-----------------------------------------------------------------------------
(* Message injection and the persisted model call                          *)

\* Mutant: the newest message is taken, not all of them.
DrainInjectedNewest ==
  LET older == SubSeq(injected, 1, Len(injected) - 1)
  IN inflight' = SubSeq(injected, Len(older) + 1, Len(injected)) /\ injected' = older

\* drain
DrainInjected == inflight' = injected /\ injected' = <<>>

\* MessageInjector.run: the queue goes along with the results.
CallModel ==
  /\ pc = "model" /\ ~cancelled
  /\ DrainInjected
  /\ pc' = "calling"
  /\ UNCHANGED <<session, history, batch, st, round, mine, asked, cancelled, caller, doings, heard,
                 sent, concurrent, failures>>

\* persistServiceCallHistory: what went to the model, and its answer, is stored.
Persist(new) ==
  /\ called' = called \cup new
  /\ answered' = answered \cup results
  /\ heard' = heard \o inflight

\* The model or its history fails, or the request is cancelled: nothing is stored.
ModelFails ==
  /\ \/ pc = "calling" /\ BreaksOff
     \/ pc = "model" /\ cancelled /\ UNCHANGED failures
  /\ EndsInError
  /\ UNCHANGED <<surfaced, pending, auto, history, cancelled, shown, consent, promised, doings,
                 inject, concurrent>>

\* An answer without calls. Messages injected meanwhile make another model call.
ModelText ==
  /\ pc = "calling"
  /\ Persist({})
  /\ IF injected # <<>>
       THEN /\ DrainInjected
            /\ results' = {}
            /\ UNCHANGED <<saved, raw, st, pc, handed, round, mine, asked, todo, erred, errs, halt>>
       ELSE Ends({}) /\ Save(st) /\ UNCHANGED injected
  /\ UNCHANGED <<surfaced, pending, auto, cancelled, shown, consent, promised, dropped, doings, sent,
                 concurrent, failures>>

\* Mutants: the safe calls beside guarded ones are not recorded, or the
\* guarded ones are recorded with them.
RecordSafeNot(new) == {}
RecordSafeAll(new) == new

\* recordPendingAutoApprovedCalls
RecordSafe(new) == {c \in new : ~GuardedCall(c)}

Orders(S) == {f \in [1..Cardinality(S) -> S] : \A c \in S : c \in InQueue(f)}

\* The model makes calls. If one of them needs approval none is invoked:
\* prepareApprovalContents turns the guarded ones into requests, which are
\* recorded as they pass (recordPendingApprovalRequests), and keeps the safe ones.
ModelCalls(new) ==
  /\ pc = "calling"
  /\ new # {} /\ new \cap called = {}
  /\ Persist(new)
  /\ results' = {} /\ inflight' = <<>>
  /\ LET guarded == {c \in new : GuardedCall(c)}
     IN IF guarded = {}
          THEN /\ todo' = new
               /\ pc' = "tools"
               /\ UNCHANGED <<pending, auto, asked>>
          ELSE /\ pending' = pending \cup guarded
               /\ auto' = auto \cup RecordSafe(new)
               /\ asked' \in Orders(guarded)
               /\ pc' = "classify"
               /\ UNCHANGED todo
  /\ UNCHANGED <<saved, surfaced, raw, erred, errs, halt, st, round, mine, cancelled, caller, doings,
                 injected, sent, concurrent, failures>>

\* The consumer stops reading: before a call came, what was sent is stored
\* and the answer is not; after it, only the updates he has read are recorded,
\* and their requests are not surfaced but for the run that passes them on.
Abandon(new, read) ==
  /\ pc = "calling" /\ Fails
  /\ new \cap called = {} /\ read \subseteq new
  /\ Persist(new)
  /\ LET wait == IF \E c \in new : GuardedCall(c) THEN read ELSE {}
         asks == {c \in wait : GuardedCall(c)}
         passed == IF round >= MaxRounds THEN asks ELSE {}
     IN /\ pending' = pending \cup asks
        /\ auto' = auto \cup RecordSafe(wait)
        /\ surfaced' = surfaced \cup passed
        /\ shown' = shown \cup passed
        /\ dropped' = dropped \cup (new \ (RecordSafe(wait) \cup passed))
  /\ Ends({})
  /\ Save(st)
  /\ UNCHANGED <<cancelled, consent, promised, doings, injected, sent, concurrent>>

-----------------------------------------------------------------------------
(* The surroundings                                                        *)

\* EnqueueMessages, from any goroutine.
Enqueue ==
  /\ sent < MaxInjected
  /\ sent' = sent + 1
  /\ injected' = Append(injected, sent + 1)
  /\ UNCHANGED <<session, history, batch, run, caller, doings, heard, pc, concurrent, failures>>

\* The request's context is cancelled.
Cancel ==
  /\ pc # "idle" /\ ~cancelled /\ Fails
  /\ cancelled' = TRUE
  /\ UNCHANGED <<session, history, batch, st, round, mine, asked, inflight, caller, doings, inject,
                 pc, concurrent>>

\* The session is stored as JSON and loaded again, in another process: what a
\* turn did to the map without saving is undone if it stood in the JSON.
Reload ==
  /\ pc = "idle"
  /\ surfaced' = IF raw = {} THEN surfaced ELSE UNION raw
  /\ raw' = {surfaced'}
  /\ UNCHANGED <<saved, pending, auto, history, batch, run, caller, doings, inject, pc, concurrent,
                 failures>>

\* What the run's goroutine does by itself; the tools and the model return.
Turn == Surface \/ Enter \/ Classify \/ Bind \/ EndBatch \/ BatchFails \/ Terminate \/ CallModel
        \/ (cancelled /\ (InnerFails \/ ModelFails))
Answers == UNION {[some -> Kinds] : some \in SUBSET shown}

Next ==
  \/ \E answers \in Answers : Receive(answers)
  \/ Surface
  \/ Enter
  \/ RuleFails
  \/ Classify
  \/ InnerFails
  \/ Bind
  \/ \E c \in Calls, how \in {"ok", "error", "terminate"} : RunTool(c, how)
  \/ EndBatch
  \/ BatchFails
  \/ Terminate
  \/ CallModel
  \/ ModelFails
  \/ ModelText
  \/ \E new \in SUBSET Calls : ModelCalls(new)
  \/ \E new \in SUBSET Calls : \E read \in SUBSET new : Abandon(new, read)
  \/ Enqueue
  \/ Cancel
  \/ Reload

Spec == Init /\ [][Next]_vars

\* The caller goes on: he sends something, if only the results he has, and he
\* answers each request he was shown again and again.
Fairness ==
  /\ WF_vars(Turn)
  /\ WF_vars(\E c \in Calls : RunTool(c, "ok"))
  /\ WF_vars(ModelText \/ \E new \in SUBSET Calls : ModelCalls(new))
  /\ WF_vars(\E answers \in Answers : Receive(answers))
  /\ \A c \in Calls : SF_vars(\E answers \in Answers : c \in DOMAIN answers /\ Receive(answers))

FairSpec == Spec /\ Fairness

-----------------------------------------------------------------------------
(* Properties                                                              *)

\* The shape of every book.
StateTypes == [rules : SUBSET Tools, collected : SUBSET (Calls \X BOOLEAN), queued : Seq(Calls)]
TypeOK ==
  /\ saved \in StateTypes /\ st \in StateTypes
  /\ pc \in {"idle", "turn", "inner", "tools", "model", "calling", "classify"}
  /\ surfaced \cup pending \cup auto \cup todo \cup results \cup handed \cup shown \subseteq Calls
  /\ raw \subseteq SUBSET Calls /\ Cardinality(raw) <= 1
  /\ answered \subseteq called /\ called \subseteq Calls
  /\ asked \in Seq(Calls) /\ mine \subseteq Calls \X BOOLEAN
  /\ halt \in {"no", "error", "terminate"} /\ failures \in 0..MaxFailures
  /\ ran \in [Calls -> Nat]

\* A tool that requires approval is called for a call somebody agreed to: the
\* caller for the call or, earlier, for the tool, or a configured rule; no
\* other order of turns, failures and reloads lets it through (autocall.run,
\* toolapproval.run).
Agreed(c) == c \in consent \cup AutoRule \/ ToolOf[c] \in promised
ConsentedOnly ==
  \A c \in Calls : ran[c] > 0 /\ GuardedCall(c) => Agreed(c)

\* A call is invoked at most once, and never after it was refused, however
\* often the caller repeats or changes his answer and whatever a failed run
\* has left in the books (bindApprovalResponses).
OneOutcome ==
  \A c \in Calls : ran[c] <= 1 /\ (c \in refused => ran[c] = 0)

\* A call of the model without a result in the history is in the hands of
\* somebody who will bring one: the session, the run or the caller; one whose
\* request both sides still know can be answered. Only failed and abandoned
\* runs drop calls.
Answerable ==
  pending \cap ((surfaced \cap shown) \cup InQueue(st.queued) \cup CallsOf(st.collected)
                \cup CallsOf(mine) \cup InQueue(asked))
NothingForgotten ==
  /\ called \ answered \subseteq auto \cup todo \cup results \cup handed \cup Answerable \cup dropped
  /\ failures = 0 => dropped = {}

\* Between turns without failures the books of the two middlewares agree: each
\* request is surfaced, queued or answered, one of the three, and the inner
\* middleware still waits for its answer.
BooksAgree ==
  pc = "idle" /\ failures = 0 =>
    /\ surfaced \cap InQueue(saved.queued) = {}
    /\ (surfaced \cup InQueue(saved.queued)) \cap CallsOf(saved.collected) = {}
    /\ surfaced \cup InQueue(saved.queued) \cup CallsOf(saved.collected) = pending

\* Injected messages reach the model once and in the order they came in; none
\* is lost but by a failed run (MessageInjector.drain).
InjectedOnce ==
  LET all == heard \o inflight \o injected
  IN /\ \A k \in 2..Len(all) : all[k - 1] < all[k]
     /\ failures = 0 => Len(all) = sent

\* Once the caller has approved a tool for the session he is not asked about it
\* again, for requests that were queued before the rule too, unless a run
\* failed or reached its limit of automatic rounds (drainAutoApprovable).
RuleHolds ==
  [][failures = 0 /\ round < MaxRounds => \A c \in shown' \ shown : ToolOf[c] \notin promised]_vars

\* With a caller who goes on answering, every call of the model gets a result,
\* if no failed or abandoned run dropped it: no turn waits for another forever.
EveryCallAnswered == []<>(called \subseteq answered \cup dropped)
=============================================================================
