------------------------ MODULE RunEventStreamProofs ------------------------
(***************************************************************************)
(* Proofs about RunEventStream, for any number of clients, watchers,       *)
(* restorers and stoppers, any bounds, with and without failures: typing,  *)
(* what a halt acknowledges, that no wake-up is lost, that a run which     *)
(* dies on its own says why, and that no watcher is left without its halt. *)
(***************************************************************************)
EXTENDS RunEventStream, TLAPS

(* The parts of the type invariant an action leaves alone.                 *)
LEMMA TypeStutter ==
  ASSUME TypeOK
  PROVE  /\ UNCHANGED runnerVars => RunnerTypeOK'
         /\ UNCHANGED waiterVars => WaiterTypeOK'
         /\ UNCHANGED loopVars => LoopTypeOK'
         /\ UNCHANGED eventVars => EventsTypeOK'
         /\ UNCHANGED callerVars => CallersTypeOK'
         /\ UNCHANGED watchVars => WatchTypeOK'
  BY DEF TypeOK, RunnerTypeOK, WaiterTypeOK, LoopTypeOK, EventsTypeOK, CallersTypeOK, WatchTypeOK,
         runnerVars, waiterVars, loopVars, eventVars, callerVars, watchVars

LEMMA TypeInit == Init => TypeOK
<1> SUFFICES ASSUME Init PROVE TypeOK
  OBVIOUS
<1>1. RunnerTypeOK
  <2>1. work \in [Work -> WorkStates] /\ saved \subseteq [Work -> WorkStates]
    <3>1. CASE work = [w \in Work |-> "new"] /\ saved = {}
      BY <3>1 DEF WorkStates
    <3>2. CASE work \in [Work -> {"new", "next", "asking"}] /\ saved = {work}
      BY <3>2 DEF WorkStates
    <3> QED
      BY <3>1, <3>2 DEF Init
  <2>2. turns \in Nat /\ inputs \in Nat /\ stamp \in [Work -> Nat]
    BY RunEventStreamAssumption DEF Init
  <2>3. needsRepublish \in BOOLEAN
    BY Zenon DEF Init
  <2> QED
    BY <2>1, <2>2, <2>3 DEF RunnerTypeOK
<1>2. WaiterTypeOK /\ LoopTypeOK
  BY DEF Init, WaiterTypeOK, LoopTypeOK
<1>3. EventsTypeOK
  <2>1. <<>> \in Seq(Event \cup Halt)
    OBVIOUS
  <2>2. emit \in [Emitters -> {Silent} \cup [stage : {"put", "ready"}, event : Event \cup Halt]]
    BY DEF Init
  <2> QED
    BY <2>1, <2>2 DEF Init, EventsTypeOK
<1>4. CallersTypeOK
  BY DEF Init, CallersTypeOK
<1>5. WatchTypeOK
  BY DEF Init, WatchTypeOK
<1> QED
  BY <1>1, <1>2, <1>3, <1>4, <1>5 DEF TypeOK

(* What an action does to the events being enqueued keeps them typed.      *)
LEMMA TypeEmit ==
  ASSUME TypeOK, UNCHANGED <<queue, eventReady>>,
         NEW p \in Emitters, NEW e \in Event \cup Halt, Emit(p, e)
  PROVE  EventsTypeOK'
  BY DEF TypeOK, EventsTypeOK, Emit, Emitting

LEMMA TypeSignal ==
  ASSUME TypeOK, UNCHANGED <<work, saved, turns, inputs, needsRepublish, waiterClosed>>,
         \/ AddEpoch /\ UNCHANGED signal
         \/ SignalInput /\ UNCHANGED <<inputEpoch, stamp>>
  PROVE  RunnerTypeOK' /\ WaiterTypeOK'
<1>1. CASE AddEpoch /\ UNCHANGED signal
  BY <1>1 DEF AddEpoch, TypeOK, RunnerTypeOK, WaiterTypeOK
<1>2. CASE SignalInput /\ UNCHANGED <<inputEpoch, stamp>>
  <2>1. signal' \in BOOLEAN
    BY <1>2 DEF SignalInput, TypeOK, WaiterTypeOK
  <2> QED
    BY <1>2, <2>1 DEF TypeOK, RunnerTypeOK, WaiterTypeOK
<1> QED
  BY <1>1, <1>2

LEMMA TypeStep == TypeOK /\ [Next]_vars => TypeOK'
<1> SUFFICES ASSUME TypeOK, [Next]_vars PROVE TypeOK'
  OBVIOUS
<1> "loop" \in Emitters /\ Restorers \subseteq Emitters
  BY DEF Emitters
<1>e. \A x \in {"event", "haltRequest", "error"} : [kind |-> x] \in Event \cup Halt
  BY DEF Event
<1> USE DEF TypeOK
<1>1. CASE LoopStart
  <2>1. WaiterTypeOK' /\ CallersTypeOK' /\ WatchTypeOK'
    BY <1>1, TypeStutter DEF LoopStart
  <2>2. RunnerTypeOK'
    BY <1>1 DEF LoopStart, RunnerTypeOK, WorkStates
  <2>3. LoopTypeOK'
    BY <1>1 DEF LoopStart, LoopTypeOK
  <2>4. EventsTypeOK'
    BY <1>1, <1>e, TypeEmit DEF LoopStart, EventsTypeOK
  <2> QED
    BY <2>1, <2>2, <2>3, <2>4
<1>2. CASE LoopWake
  <2>1. RunnerTypeOK' /\ EventsTypeOK' /\ CallersTypeOK' /\ WatchTypeOK'
    BY <1>2, TypeStutter DEF LoopWake
  <2>2. WaiterTypeOK'
    BY <1>2 DEF LoopWake, WaiterTypeOK
  <2>3. LoopTypeOK'
    BY <1>2 DEF LoopWake, LoopTypeOK
  <2> QED
    BY <2>1, <2>2, <2>3
<1>3. CASE LoopTop
  <2>1. RunnerTypeOK' /\ WaiterTypeOK' /\ EventsTypeOK' /\ CallersTypeOK' /\ WatchTypeOK'
    BY <1>3, TypeStutter DEF LoopTop
  <2>2. LoopTypeOK'
    BY <1>3 DEF LoopTop, LoopTypeOK, WaiterTypeOK
  <2> QED
    BY <2>1, <2>2
<1>4. CASE LoopCheck
  <2>1. RunnerTypeOK' /\ WaiterTypeOK' /\ CallersTypeOK' /\ WatchTypeOK'
    BY <1>4, TypeStutter DEF LoopCheck
  <2>2. LoopTypeOK'
    BY <1>4 DEF LoopCheck, LoopTypeOK
  <2>3. EventsTypeOK'
    BY <1>4, <1>e, TypeEmit DEF LoopCheck, EventsTypeOK
  <2> QED
    BY <2>1, <2>2, <2>3
<1>5. CASE LoopMore
  <2>1. RunnerTypeOK' /\ WaiterTypeOK' /\ EventsTypeOK' /\ CallersTypeOK' /\ WatchTypeOK'
    BY <1>5, TypeStutter DEF LoopMore
  <2>2. LoopTypeOK'
    BY <1>5 DEF LoopMore, LoopTypeOK
  <2> QED
    BY <2>1, <2>2
<1>6. CASE LoopAdvance
  <2>1. WaiterTypeOK' /\ EventsTypeOK' /\ CallersTypeOK' /\ WatchTypeOK'
    BY <1>6, TypeStutter DEF LoopAdvance
  <2>2. RunnerTypeOK'
    BY <1>6 DEF LoopAdvance, RunnerTypeOK, WorkStates
  <2>3. LoopTypeOK'
    BY <1>6 DEF LoopAdvance, LoopTypeOK
  <2> QED
    BY <2>1, <2>2, <2>3
<1>7. CASE LoopAdvanceFails
  <2>1. WaiterTypeOK' /\ CallersTypeOK' /\ WatchTypeOK'
    BY <1>7, TypeStutter DEF LoopAdvanceFails
  <2>2. RunnerTypeOK'
    BY <1>7 DEF LoopAdvanceFails, RunnerTypeOK, WorkStates
  <2>3. LoopTypeOK'
    BY <1>7 DEF LoopAdvanceFails, LoopTypeOK
  <2>4. EventsTypeOK'
    BY <1>7, <1>e, TypeEmit DEF LoopAdvanceFails
  <2> QED
    BY <2>1, <2>2, <2>3, <2>4
<1>8. CASE LoopRaise
  <2>1. WaiterTypeOK' /\ LoopTypeOK' /\ CallersTypeOK' /\ WatchTypeOK'
    BY <1>8, TypeStutter DEF LoopRaise
  <2>2. RunnerTypeOK'
    BY <1>8 DEF LoopRaise, RunnerTypeOK, WorkStates
  <2>3. EventsTypeOK'
    BY <1>8, <1>e, TypeEmit DEF LoopRaise
  <2> QED
    BY <2>1, <2>2, <2>3
<1>9. CASE LoopStepFails
  <2>1. WaiterTypeOK' /\ CallersTypeOK' /\ WatchTypeOK'
    BY <1>9, TypeStutter DEF LoopStepFails
  <2>2. RunnerTypeOK'
    BY <1>9 DEF LoopStepFails, RunnerTypeOK, WorkStates
  <2>3. LoopTypeOK'
    BY <1>9 DEF LoopStepFails, LoopTypeOK
  <2>4. EventsTypeOK'
    BY <1>9, <1>e, TypeEmit DEF LoopStepFails
  <2> QED
    BY <2>1, <2>2, <2>3, <2>4
<1>10. CASE LoopCancelsOnError
  <2>1. RunnerTypeOK' /\ WaiterTypeOK' /\ EventsTypeOK' /\ CallersTypeOK' /\ WatchTypeOK'
    BY <1>10, TypeStutter DEF LoopCancelsOnError
  <2>2. LoopTypeOK'
    BY <1>10 DEF LoopCancelsOnError, LoopTypeOK
  <2> QED
    BY <2>1, <2>2
<1>11. CASE LoopStepEnds
  <2>1. WaiterTypeOK' /\ EventsTypeOK' /\ CallersTypeOK' /\ WatchTypeOK'
    BY <1>11, TypeStutter DEF LoopStepEnds
  <2>2. RunnerTypeOK'
    BY <1>11 DEF LoopStepEnds, RunnerTypeOK, WorkStates
  <2>3. LoopTypeOK'
    BY <1>11 DEF LoopStepEnds, LoopTypeOK
  <2> QED
    BY <2>1, <2>2, <2>3
<1>12. CASE LoopCapture
  <2>1. RunnerTypeOK' /\ WaiterTypeOK' /\ EventsTypeOK' /\ CallersTypeOK' /\ WatchTypeOK'
    BY <1>12, TypeStutter DEF LoopCapture
  <2>2. LoopTypeOK'
    BY <1>12 DEF LoopCapture, LoopTypeOK
  <2> QED
    BY <2>1, <2>2
<1>13. CASE LoopHalt
  <2>1. RunnerTypeOK' /\ WaiterTypeOK' /\ CallersTypeOK' /\ WatchTypeOK'
    BY <1>13, TypeStutter DEF LoopHalt
  <2>2. LoopTypeOK'
    BY <1>13 DEF LoopHalt, LoopTypeOK
  <2>3. EventsTypeOK'
    <3>1. epoch \in Nat /\ status \in {"Idle", "PendingRequests"}
      BY <1>13 DEF LoopHalt, LoopTypeOK
    <3>2. [kind |-> "halt", epoch |-> epoch, status |-> status] \in Halt
      BY <3>1 DEF Halt
    <3> QED
      BY <1>13, <3>2, TypeEmit DEF LoopHalt
  <2> QED
    BY <2>1, <2>2, <2>3
<1>14. CASE LoopEnd
  <2>1. RunnerTypeOK' /\ WaiterTypeOK' /\ EventsTypeOK' /\ CallersTypeOK' /\ WatchTypeOK'
    BY <1>14, TypeStutter DEF LoopEnd
  <2>2. LoopTypeOK'
    BY <1>14 DEF LoopEnd, LoopTypeOK
  <2> QED
    BY <2>1, <2>2
<1>15. CASE LoopCancel
  <2>1. RunnerTypeOK' /\ WaiterTypeOK' /\ EventsTypeOK' /\ CallersTypeOK' /\ WatchTypeOK'
    BY <1>15, TypeStutter DEF LoopCancel
  <2>2. LoopTypeOK'
    BY <1>15 DEF LoopCancel, LoopTypeOK
  <2> QED
    BY <2>1, <2>2
<1>16. CASE LoopClose
  <2>1. RunnerTypeOK' /\ WaiterTypeOK' /\ EventsTypeOK' /\ CallersTypeOK' /\ WatchTypeOK'
    BY <1>16, TypeStutter DEF LoopClose
  <2>2. LoopTypeOK'
    BY <1>16 DEF LoopClose, LoopTypeOK
  <2> QED
    BY <2>1, <2>2
<1>17. ASSUME NEW w \in Work, LoopHandle(w) PROVE TypeOK'
  <2>1. WaiterTypeOK' /\ LoopTypeOK' /\ EventsTypeOK' /\ CallersTypeOK' /\ WatchTypeOK'
    BY <1>17, TypeStutter DEF LoopHandle
  <2>2. RunnerTypeOK'
    BY <1>17 DEF LoopHandle, RunnerTypeOK, WorkStates
  <2> QED
    BY <2>1, <2>2
<1>18. CASE Open
  <2>1. LoopTypeOK' /\ EventsTypeOK' /\ WatchTypeOK'
    BY <1>18, TypeStutter DEF Open
  <2>2. RunnerTypeOK' /\ WaiterTypeOK'
    BY <1>18, TypeSignal DEF Open
  <2>3. CallersTypeOK'
    BY <1>18 DEF Open, CallersTypeOK
  <2> QED
    BY <2>1, <2>2, <2>3
<1>19. ASSUME NEW p \in Emitters, EmitPut(p) PROVE TypeOK'
  <2>1. RunnerTypeOK' /\ WaiterTypeOK' /\ LoopTypeOK' /\ CallersTypeOK' /\ WatchTypeOK'
    BY <1>19, TypeStutter DEF EmitPut
  <2>2. EventsTypeOK'
    BY <1>19 DEF EmitPut, EventsTypeOK, Silent
  <2> QED
    BY <2>1, <2>2
<1>20. ASSUME NEW p \in Emitters, EmitReady(p) PROVE TypeOK'
  <2>1. RunnerTypeOK' /\ WaiterTypeOK' /\ LoopTypeOK' /\ CallersTypeOK' /\ WatchTypeOK'
    BY <1>20, TypeStutter DEF EmitReady
  <2>2. EventsTypeOK'
    BY <1>20 DEF EmitReady, EventsTypeOK, Silent
  <2> QED
    BY <2>1, <2>2
<1>21. ASSUME NEW w \in Work, ClientSend(w) PROVE TypeOK'
  <2>1. WaiterTypeOK' /\ LoopTypeOK' /\ EventsTypeOK' /\ WatchTypeOK'
    BY <1>21, TypeStutter DEF ClientSend
  <2>2. RunnerTypeOK'
    BY <1>21 DEF ClientSend, RunnerTypeOK, WorkStates
  <2>3. CallersTypeOK'
    BY <1>21 DEF ClientSend, CallersTypeOK
  <2> QED
    BY <2>1, <2>2, <2>3
<1>22. ASSUME NEW w \in Work, ClientRespond(w) PROVE TypeOK'
  <2>1. WaiterTypeOK' /\ LoopTypeOK' /\ EventsTypeOK' /\ WatchTypeOK'
    BY <1>22, TypeStutter DEF ClientRespond
  <2>2. RunnerTypeOK'
    BY <1>22 DEF ClientRespond, RunnerTypeOK, WorkStates
  <2>3. CallersTypeOK'
    BY <1>22 DEF ClientRespond, CallersTypeOK
  <2> QED
    BY <2>1, <2>2, <2>3
<1>23. ASSUME NEW w \in Work, ClientSignal(w) PROVE TypeOK'
  <2>1. LoopTypeOK' /\ EventsTypeOK' /\ WatchTypeOK'
    BY <1>23, TypeStutter DEF ClientSignal
  <2>2. RunnerTypeOK' /\ WaiterTypeOK'
    BY <1>23, TypeSignal DEF ClientSignal
  <2>3. CallersTypeOK'
    BY <1>23 DEF ClientSignal, CallersTypeOK
  <2> QED
    BY <2>1, <2>2, <2>3
<1>24. ASSUME NEW s \in Stoppers, Cancel(s) PROVE TypeOK'
  <2>1. RunnerTypeOK' /\ WaiterTypeOK' /\ LoopTypeOK' /\ EventsTypeOK' /\ WatchTypeOK'
    BY <1>24, TypeStutter DEF Cancel
  <2>2. CallersTypeOK'
    BY <1>24 DEF Cancel, CallersTypeOK
  <2> QED
    BY <2>1, <2>2
<1>25. ASSUME NEW s \in Stoppers, Stop(s) PROVE TypeOK'
  <2>1. RunnerTypeOK' /\ EventsTypeOK' /\ WatchTypeOK'
    BY <1>25, TypeStutter DEF Stop
  <2>2. WaiterTypeOK'
    BY <1>25 DEF Stop, WaiterTypeOK, SignalInput
  <2>3. LoopTypeOK'
    BY <1>25 DEF Stop, LoopTypeOK
  <2>4. CallersTypeOK'
    BY <1>25 DEF Stop, CallersTypeOK
  <2> QED
    BY <2>1, <2>2, <2>3, <2>4
<1>26. ASSUME NEW k \in Restorers, RestoreClear(k) PROVE TypeOK'
  <2>1. RunnerTypeOK' /\ WaiterTypeOK' /\ LoopTypeOK' /\ WatchTypeOK'
    BY <1>26, TypeStutter DEF RestoreClear
  <2>2. EventsTypeOK'
    BY <1>26 DEF RestoreClear, EventsTypeOK
  <2>3. CallersTypeOK'
    BY <1>26 DEF RestoreClear, CallersTypeOK
  <2> QED
    BY <2>1, <2>2, <2>3
<1>27. ASSUME NEW k \in Restorers, Restore(k) PROVE TypeOK'
  <2>1. WaiterTypeOK' /\ LoopTypeOK' /\ EventsTypeOK' /\ WatchTypeOK'
    BY <1>27, TypeStutter DEF Restore
  <2>2. RunnerTypeOK'
    BY <1>27 DEF Restore, RunnerTypeOK, WorkStates
  <2>3. CallersTypeOK'
    BY <1>27 DEF Restore, CallersTypeOK
  <2> QED
    BY <2>1, <2>2, <2>3
<1>28. ASSUME NEW k \in Restorers, RestoreRepublish(k) PROVE TypeOK'
  <2>1. RunnerTypeOK' /\ WaiterTypeOK' /\ LoopTypeOK' /\ WatchTypeOK'
    BY <1>28, TypeStutter DEF RestoreRepublish
  <2>2. CallersTypeOK'
    BY <1>28 DEF RestoreRepublish, CallersTypeOK
  <2>3. EventsTypeOK'
    BY <1>28, <1>e, TypeEmit DEF RestoreRepublish
  <2> QED
    BY <2>1, <2>2, <2>3
<1>29. ASSUME NEW k \in Restorers, RestoreSignal(k) PROVE TypeOK'
  <2>1. LoopTypeOK' /\ EventsTypeOK' /\ WatchTypeOK'
    BY <1>29, TypeStutter DEF RestoreSignal
  <2>2. RunnerTypeOK' /\ WaiterTypeOK'
    BY <1>29, TypeSignal DEF RestoreSignal
  <2>3. CallersTypeOK'
    BY <1>29 DEF RestoreSignal, CallersTypeOK
  <2> QED
    BY <2>1, <2>2, <2>3
<1>30. ASSUME NEW r \in Watchers, WatchBegin(r) PROVE TypeOK'
  <2>1. RunnerTypeOK' /\ WaiterTypeOK' /\ LoopTypeOK' /\ EventsTypeOK' /\ CallersTypeOK'
    BY <1>30, TypeStutter DEF WatchBegin
  <2>2. WatchTypeOK'
    BY <1>30 DEF WatchBegin, WatchTypeOK, Return, GoTo
  <2> QED
    BY <2>1, <2>2
<1>31. ASSUME NEW r \in Watchers, WatchLoad(r) PROVE TypeOK'
  <2>1. RunnerTypeOK' /\ WaiterTypeOK' /\ LoopTypeOK' /\ EventsTypeOK' /\ CallersTypeOK'
    BY <1>31, TypeStutter DEF WatchLoad
  <2>2. WatchTypeOK'
    BY <1>31 DEF WatchLoad, WatchTypeOK, Return, GoTo
  <2> QED
    BY <2>1, <2>2
<1>32. ASSUME NEW r \in Watchers, WatchSignal(r) PROVE TypeOK'
  <2>1. LoopTypeOK' /\ EventsTypeOK' /\ CallersTypeOK'
    BY <1>32, TypeStutter DEF WatchSignal
  <2>2. RunnerTypeOK' /\ WaiterTypeOK'
    BY <1>32, TypeSignal DEF WatchSignal
  <2>3. WatchTypeOK'
    BY <1>32 DEF WatchSignal, WatchTypeOK, Return, GoTo
  <2> QED
    BY <2>1, <2>2, <2>3
<1>33. ASSUME NEW r \in Watchers, WatchSnapshot(r) PROVE TypeOK'
  <2>1. RunnerTypeOK' /\ WaiterTypeOK' /\ LoopTypeOK' /\ EventsTypeOK' /\ CallersTypeOK'
    BY <1>33, TypeStutter DEF WatchSnapshot
  <2>2. WatchTypeOK'
    BY <1>33 DEF WatchSnapshot, WatchTypeOK, Return, GoTo, WaiterTypeOK
  <2> QED
    BY <2>1, <2>2
<1>34. ASSUME NEW r \in Watchers, WatchHalt(r) PROVE TypeOK'
  <2>1. RunnerTypeOK' /\ WaiterTypeOK' /\ LoopTypeOK' /\ CallersTypeOK'
    BY <1>34, TypeStutter DEF WatchHalt
  <2>2. EventsTypeOK'
    BY <1>34 DEF WatchHalt, EventsTypeOK
  <2>3. WatchTypeOK'
    BY <1>34 DEF WatchHalt, WatchTypeOK, Return, GoTo
  <2> QED
    BY <2>1, <2>2, <2>3
<1>35. ASSUME NEW r \in Watchers, WatchEvent(r) PROVE TypeOK'
  <2>1. RunnerTypeOK' /\ WaiterTypeOK' /\ LoopTypeOK' /\ CallersTypeOK'
    BY <1>35, TypeStutter DEF WatchEvent
  <2>2. EventsTypeOK'
    BY <1>35 DEF WatchEvent, EventsTypeOK
  <2>3. WatchTypeOK'
    BY <1>35 DEF WatchEvent, WatchTypeOK, Return, GoTo
  <2> QED
    BY <2>1, <2>2, <2>3
<1>36. ASSUME NEW r \in Watchers, WatchEmpty(r) PROVE TypeOK'
  <2>1. RunnerTypeOK' /\ WaiterTypeOK' /\ LoopTypeOK' /\ EventsTypeOK' /\ CallersTypeOK'
    BY <1>36, TypeStutter DEF WatchEmpty
  <2>2. WatchTypeOK'
    BY <1>36 DEF WatchEmpty, WatchTypeOK, Return, GoTo
  <2> QED
    BY <2>1, <2>2
<1>37. ASSUME NEW r \in Watchers, WatchSelect(r) PROVE TypeOK'
  <2>1. RunnerTypeOK' /\ WaiterTypeOK' /\ LoopTypeOK' /\ CallersTypeOK'
    BY <1>37, TypeStutter DEF WatchSelect
  <2>2. EventsTypeOK'
    BY <1>37 DEF WatchSelect, EventsTypeOK
  <2>3. WatchTypeOK'
    BY <1>37 DEF WatchSelect, WatchTypeOK, Return, GoTo
  <2> QED
    BY <2>1, <2>2, <2>3
<1>38. CASE UNCHANGED vars
  BY <1>38, TypeStutter DEF vars
<1> QED
  BY <1>1, <1>2, <1>3, <1>4, <1>5, <1>6, <1>7, <1>8, <1>9, <1>10, <1>11, <1>12, <1>13, <1>14, <1>15, <1>16, <1>17, <1>18, <1>19, <1>20, <1>21, <1>22, <1>23, <1>24, <1>25, <1>26, <1>27, <1>28, <1>29, <1>30, <1>31, <1>32, <1>33, <1>34, <1>35, <1>36, <1>37, <1>38
  DEF Next, Loop, EmitStep, RestoreStep, Watch

-----------------------------------------------------------------------------
(* What a halt acknowledges. The invariant is strengthened by three facts: *)
(* no epoch in use is ahead of the input epoch, so a later signal stamps   *)
(* work beyond every halt; work is being handled only inside a superstep,  *)
(* so a run loop that found nothing unprocessed has settled everything its *)
(* epoch covers; and this stays true until the halt is enqueued.           *)
EpochsBounded ==
    /\ epoch <= inputEpoch
    /\ \A h \in Outstanding : h.epoch <= inputEpoch
HandledInStep ==
    /\ loopPc # "step" => \A w \in Work : work[w] # "handled"
    /\ \A f \in saved, w \in Work : f[w] # "handled"
LoopAcknowledges ==
    /\ loopPc = "capture" => Acknowledges(epoch, "PendingRequests")
    /\ loopPc = "halt" => Acknowledges(epoch, status)
AckInv == TypeOK /\ EpochsBounded /\ HandledInStep /\ LoopAcknowledges /\ HaltAcknowledgesInput

InFlight(h) ==
    /\ IsHalt(h)
    /\ \/ \E i \in 1..Len(queue) : h = queue[i]
       \/ \E p \in Emitters : emit[p].stage = "put" /\ h = emit[p].event

LEMMA OutstandingInFlight == /\ \A h : h \in Outstanding <=> InFlight(h)
                             /\ \A h : h \in Outstanding' <=> InFlight(h)'
<1>1. \A h : h \in Outstanding <=> InFlight(h)
  BY DEF Outstanding, InFlight
<1>2. \A h : h \in Outstanding' <=> InFlight(h)'
  BY DEF Outstanding, InFlight
<1> QED
  BY <1>1, <1>2

LEMMA OutstandingTyped == TypeOK => Outstanding \subseteq Halt
<1> SUFFICES ASSUME TypeOK, NEW h \in Outstanding PROVE h \in Halt
  OBVIOUS
<1>1. InFlight(h)
  BY OutstandingInFlight
<1>2. CASE \E i \in 1..Len(queue) : h = queue[i]
  BY <1>1, <1>2 DEF TypeOK, EventsTypeOK, IsHalt, Event, InFlight
<1>3. CASE \E p \in Emitters : emit[p].stage = "put" /\ h = emit[p].event
  BY <1>1, <1>3 DEF TypeOK, EventsTypeOK, IsHalt, Event, Silent, InFlight
<1> QED
  BY <1>1, <1>2, <1>3 DEF InFlight

(* A step leaves the stamp of a piece of work, clears it, or gives it an   *)
(* epoch beyond the current one; and settled work stays as it is while its *)
(* stamp does.                                                             *)
Keeps == \A w \in Work :
    \/ stamp'[w] = 0
    \/ stamp[w] = 0 /\ stamp'[w] = inputEpoch + 1
    \/ /\ stamp'[w] = stamp[w]
       /\ work'[w] = work[w] \/ work[w] \in {"queued", "next", "answered", "handled"}

LEMMA KeepsSignal == ASSUME TypeOK, AddEpoch, UNCHANGED work PROVE Keeps
  BY DEF Keeps, AddEpoch, TypeOK, RunnerTypeOK

LEMMA StepKeeps == TypeOK /\ [Next]_vars => Keeps
<1> SUFFICES ASSUME TypeOK, [Next]_vars PROVE Keeps
  OBVIOUS
<1>1. CASE UNCHANGED <<work, stamp>>
  BY <1>1 DEF Keeps
<1>2. CASE AddEpoch /\ UNCHANGED work
  BY <1>2, KeepsSignal
<1>3. CASE LoopAdvance \/ LoopAdvanceFails \/ LoopStepFails \/ \E w \in Work : LoopHandle(w)
  BY <1>3 DEF Keeps, LoopAdvance, LoopAdvanceFails, LoopStepFails, LoopHandle, Unprocessed, TypeOK,
              RunnerTypeOK
<1>4. CASE \E w \in Work : ClientSend(w) \/ ClientRespond(w)
  BY <1>4 DEF Keeps, ClientSend, ClientRespond, TypeOK, RunnerTypeOK
<1>5. CASE \E k \in Restorers : Restore(k)
  BY <1>5 DEF Keeps, Restore, TypeOK, RunnerTypeOK
<1>6. CASE Open \/ (\E w \in Work : ClientSignal(w)) \/ (\E k \in Restorers : RestoreSignal(k))
           \/ (\E r \in Watchers : WatchSignal(r))
  BY <1>1, <1>2, <1>6 DEF Open, ClientSignal, RestoreSignal, WatchSignal
<1>7. CASE LoopStart \/ LoopWake \/ LoopTop \/ LoopCheck \/ LoopMore \/ LoopRaise
           \/ LoopCancelsOnError \/ LoopStepEnds \/ LoopCapture \/ LoopHalt \/ LoopEnd
           \/ LoopCancel \/ LoopClose
  BY <1>1, <1>7 DEF LoopStart, LoopWake, LoopTop, LoopCheck, LoopMore, LoopRaise,
     LoopCancelsOnError, LoopStepEnds, LoopCapture, LoopHalt, LoopEnd, LoopCancel, LoopClose,
     runnerVars
<1>8. CASE (\E p \in Emitters : EmitStep(p)) \/ (\E s \in Stoppers : Cancel(s) \/ Stop(s))
           \/ (\E k \in Restorers : RestoreClear(k) \/ RestoreRepublish(k))
  BY <1>1, <1>8 DEF EmitStep, EmitPut, EmitReady, Cancel, Stop, RestoreClear, RestoreRepublish,
     runnerVars
<1>9. CASE \E r \in Watchers : WatchBegin(r) \/ WatchLoad(r) \/ WatchSnapshot(r) \/ WatchHalt(r)
                               \/ WatchEvent(r) \/ WatchEmpty(r) \/ WatchSelect(r)
  BY <1>1, <1>9 DEF WatchBegin, WatchLoad, WatchSnapshot, WatchHalt, WatchEvent, WatchEmpty,
     WatchSelect, runnerVars
<1>10. CASE UNCHANGED vars
  BY <1>1, <1>10 DEF vars, runnerVars
<1> QED
  BY <1>3, <1>4, <1>5, <1>6, <1>7, <1>8, <1>9, <1>10 DEF Next, Loop, RestoreStep, Watch

LEMMA AcknowledgesStable ==
  ASSUME TypeOK, Keeps, NEW e \in Nat, e <= inputEpoch, NEW st, Acknowledges(e, st)
  PROVE  Acknowledges(e, st)'
  BY DEF Acknowledges, Settled, Keeps, TypeOK, RunnerTypeOK, WaiterTypeOK

(* The only new halt is the one the run loop enqueues.                     *)
ThisHalt == [kind |-> "halt", epoch |-> epoch, status |-> status]

LEMMA EmitOutstanding ==
  ASSUME TypeOK, UNCHANGED queue, NEW p \in Emitters, NEW e, Emit(p, e), NEW h, InFlight(h)'
  PROVE  InFlight(h) \/ h = e
  BY DEF InFlight, Emit, Emitting, Silent, TypeOK, EventsTypeOK, IsHalt

LEMMA TailOutstanding ==
  ASSUME TypeOK, queue # <<>>, queue' = Tail(queue), UNCHANGED emit, NEW h, InFlight(h)'
  PROVE  InFlight(h)
<1>1. \A i \in 1..Len(queue') : \E j \in 1..Len(queue) : queue'[i] = queue[j]
  BY DEF TypeOK, EventsTypeOK
<1> QED
  BY <1>1 DEF InFlight, IsHalt

LEMMA StepInFlight ==
  ASSUME TypeOK, [Next]_vars, NEW h, InFlight(h)'
  PROVE  InFlight(h) \/ (LoopHalt /\ h = ThisHalt)
<1> DEFINE Goal == InFlight(h) \/ (LoopHalt /\ h = ThisHalt)
<1> SUFFICES Goal
  OBVIOUS
<1> "loop" \in Emitters /\ Restorers \subseteq Emitters
  BY DEF Emitters
<1>h. IsHalt(h)
  BY DEF InFlight, IsHalt
<1>1. CASE UNCHANGED <<queue, emit>>
  BY <1>1 DEF InFlight, IsHalt
<1>2. ASSUME UNCHANGED queue, NEW p \in Emitters, NEW x \in {"event", "error", "haltRequest"},
             Emit(p, [kind |-> x])
      PROVE Goal
  BY <1>2, <1>h, EmitOutstanding DEF IsHalt
<1>t. ASSUME queue # <<>>, queue' = Tail(queue), UNCHANGED emit PROVE Goal
  BY <1>t, TailOutstanding
<1>3. ASSUME NEW p \in Emitters, EmitPut(p) PROVE Goal
  <2>1. \A i \in 1..Len(queue') : (i \in 1..Len(queue) /\ queue'[i] = queue[i])
                                  \/ queue'[i] = emit[p].event
    BY <1>3 DEF EmitPut, TypeOK, EventsTypeOK
  <2>2. \A q \in Emitters : emit'[q].stage = "put" => emit[q].stage = "put" /\ emit'[q] = emit[q]
    BY <1>3 DEF EmitPut, TypeOK, EventsTypeOK
  <2> QED
    BY <1>3, <2>1, <2>2 DEF InFlight, EmitPut, IsHalt
<1>4. ASSUME NEW p \in Emitters, EmitReady(p) PROVE Goal
  <2>1. \A q \in Emitters : emit'[q].stage = "put" => emit[q].stage = "put" /\ emit'[q] = emit[q]
    BY <1>4 DEF EmitReady, Silent, TypeOK, EventsTypeOK
  <2> QED
    BY <1>4, <2>1 DEF InFlight, EmitReady, IsHalt
<1>5. CASE LoopHalt
  BY <1>5, EmitOutstanding DEF LoopHalt, ThisHalt
<1>6. CASE LoopStart \/ LoopCheck \/ LoopAdvanceFails \/ LoopRaise \/ LoopStepFails
           \/ \E k \in Restorers : RestoreRepublish(k)
  BY <1>1, <1>2, <1>6 DEF LoopStart, LoopCheck, LoopAdvanceFails, LoopRaise, LoopStepFails,
     RestoreRepublish
<1>7. CASE LoopWake \/ LoopTop \/ LoopMore \/ LoopAdvance \/ LoopCancelsOnError \/ LoopStepEnds
           \/ LoopCapture \/ LoopEnd \/ LoopCancel \/ LoopClose \/ \E w \in Work : LoopHandle(w)
  BY <1>1, <1>7 DEF LoopWake, LoopTop, LoopMore, LoopAdvance, LoopCancelsOnError, LoopStepEnds,
     LoopCapture, LoopEnd, LoopCancel, LoopClose, LoopHandle, eventVars
<1>8. CASE Open \/ (\E w \in Work : ClientSend(w) \/ ClientRespond(w) \/ ClientSignal(w))
           \/ (\E s \in Stoppers : Cancel(s) \/ Stop(s))
           \/ (\E k \in Restorers : Restore(k) \/ RestoreSignal(k))
  BY <1>1, <1>8 DEF Open, ClientSend, ClientRespond, ClientSignal, Cancel, Stop, Restore,
     RestoreSignal, eventVars
<1>9. CASE \E k \in Restorers : RestoreClear(k)
  BY <1>1, <1>9, <1>t DEF RestoreClear
<1>10. CASE \E r \in Watchers : WatchHalt(r) \/ WatchEvent(r)
  BY <1>10, <1>t DEF WatchHalt, WatchEvent
<1>11. CASE \E r \in Watchers : WatchBegin(r) \/ WatchLoad(r) \/ WatchSignal(r)
                                \/ WatchSnapshot(r) \/ WatchEmpty(r) \/ WatchSelect(r)
  BY <1>1, <1>11 DEF WatchBegin, WatchLoad, WatchSignal, WatchSnapshot, WatchEmpty, WatchSelect,
     eventVars
<1>12. CASE UNCHANGED vars
  BY <1>1, <1>12 DEF vars, eventVars
<1> QED
  BY <1>3, <1>4, <1>5, <1>6, <1>7, <1>8, <1>9, <1>10, <1>11, <1>12
  DEF Next, Loop, EmitStep, RestoreStep, Watch

LEMMA StepOutstanding ==
  ASSUME TypeOK, [Next]_vars, NEW h \in Outstanding'
  PROVE  h \in Outstanding \/ (LoopHalt /\ h = ThisHalt)
  BY StepInFlight, OutstandingInFlight

(* A run starts with nothing to acknowledge.                               *)
THEOREM AckInvInit == Init => AckInv
<1> SUFFICES ASSUME Init PROVE AckInv
  OBVIOUS
<1>1. TypeOK
  BY TypeInit
<1>2. Outstanding = {}
  BY OutstandingInFlight DEF Init, InFlight, Silent
<1>3. HandledInStep
  BY DEF Init, HandledInStep
<1> QED
  BY <1>1, <1>2, <1>3 DEF AckInv, EpochsBounded, LoopAcknowledges, HaltAcknowledgesInput, Init

LEMMA StepHandled == TypeOK /\ HandledInStep /\ [Next]_vars => HandledInStep'
<1> SUFFICES ASSUME TypeOK, HandledInStep, [Next]_vars PROVE HandledInStep'
  OBVIOUS
<1> USE DEF HandledInStep
<1>1. CASE UNCHANGED <<work, saved, loopPc>>
  BY <1>1
<1>2. CASE LoopAdvance \/ LoopAdvanceFails \/ LoopStepFails \/ LoopStepEnds
  BY <1>2 DEF LoopAdvance, LoopAdvanceFails, LoopStepFails, LoopStepEnds, TypeOK, RunnerTypeOK,
              Unprocessed, HasUnprocessedMessages, StepRunning
<1>3. CASE \E w \in Work : LoopHandle(w)
  BY <1>3 DEF LoopHandle, loopVars
<1>4. CASE \E w \in Work : ClientSend(w) \/ ClientRespond(w)
  BY <1>4 DEF ClientSend, ClientRespond, loopVars, TypeOK, RunnerTypeOK
<1>5. CASE \E k \in Restorers : Restore(k)
  BY <1>5 DEF Restore, loopVars
<1>6. CASE LoopStart \/ LoopWake \/ LoopTop \/ LoopCheck \/ LoopMore \/ LoopCancelsOnError
           \/ LoopCapture \/ LoopHalt \/ LoopEnd \/ LoopCancel \/ LoopClose
  BY <1>6 DEF LoopStart, LoopWake, LoopTop, LoopCheck, LoopMore, LoopCancelsOnError, LoopCapture,
              LoopHalt, LoopEnd, LoopCancel, LoopClose, runnerVars
<1>7. CASE Open \/ LoopRaise \/ (\E p \in Emitters : EmitStep(p))
           \/ (\E w \in Work : ClientSignal(w)) \/ (\E s \in Stoppers : Cancel(s) \/ Stop(s))
           \/ (\E k \in Restorers : RestoreClear(k) \/ RestoreRepublish(k) \/ RestoreSignal(k))
  BY <1>1, <1>7 DEF Open, LoopRaise, EmitStep, EmitPut, EmitReady, ClientSignal, Cancel, Stop,
     RestoreClear, RestoreRepublish, RestoreSignal, runnerVars, loopVars
<1>8. CASE \E r \in Watchers : WatchBegin(r) \/ Watch(r)
  BY <1>1, <1>8 DEF WatchBegin, Watch, WatchLoad, WatchSignal, WatchSnapshot, WatchHalt,
     WatchEvent, WatchEmpty, WatchSelect, runnerVars, loopVars
<1>9. CASE UNCHANGED vars
  BY <1>1, <1>9 DEF vars, runnerVars, loopVars
<1> QED
  BY <1>2, <1>3, <1>4, <1>5, <1>6, <1>7, <1>8, <1>9 DEF Next, Loop, RestoreStep

LEMMA StepEpochs ==
  ASSUME TypeOK, [Next]_vars
  PROVE  /\ inputEpoch <= inputEpoch'
         /\ \/ epoch' = epoch /\ loopPc' = loopPc /\ status' = status
            \/ epoch' = epoch /\ (LoopCheck \/ LoopMore \/ LoopCapture)
            \/ epoch' \in {epoch, inputEpoch} /\ loopPc' \notin {"capture", "halt"}
<1> DEFINE Calm == inputEpoch' \in {inputEpoch, inputEpoch + 1}
           Same == epoch' = epoch /\ loopPc' = loopPc /\ status' = status
<1>1. CASE Loop
  <2>1. inputEpoch' = inputEpoch
    BY <1>1 DEF Loop, LoopStart, LoopWake, LoopTop, LoopCheck, LoopMore, LoopAdvance,
       LoopAdvanceFails, LoopRaise, LoopStepFails, LoopCancelsOnError, LoopStepEnds, LoopCapture,
       LoopHalt, LoopEnd, LoopCancel, LoopClose, LoopHandle, waiterVars
  <2>2. \/ epoch' = epoch /\ loopPc' = loopPc /\ status' = status
        \/ epoch' = epoch /\ (LoopCheck \/ LoopMore \/ LoopCapture)
        \/ epoch' \in {epoch, inputEpoch} /\ loopPc' \notin {"capture", "halt"}
    BY <1>1 DEF Loop, LoopStart, LoopWake, LoopTop, LoopCheck, LoopMore, LoopAdvance,
       LoopAdvanceFails, LoopRaise, LoopStepFails, LoopCancelsOnError, LoopStepEnds, LoopCapture,
       LoopHalt, LoopEnd, LoopCancel, LoopClose, LoopHandle, loopVars
  <2> QED
    BY <2>1, <2>2 DEF TypeOK, WaiterTypeOK
<1>2. CASE Open \/ (\E p \in Emitters : EmitStep(p))
           \/ (\E w \in Work : ClientSend(w) \/ ClientRespond(w) \/ ClientSignal(w))
           \/ (\E s \in Stoppers : Cancel(s) \/ Stop(s))
           \/ (\E k \in Restorers : RestoreStep(k))
  <2>1. Calm /\ Same
    BY <1>2 DEF Open, EmitStep, EmitPut, EmitReady, ClientSend, ClientRespond, ClientSignal,
       Cancel, Stop, RestoreStep, RestoreClear, Restore, RestoreRepublish, RestoreSignal,
       waiterVars, loopVars, AddEpoch
  <2> QED
    BY <2>1 DEF TypeOK, WaiterTypeOK
<1>3. CASE (\E r \in Watchers : WatchBegin(r) \/ Watch(r)) \/ UNCHANGED vars
  <2>1. Calm /\ Same
    BY <1>3 DEF WatchBegin, Watch, WatchLoad, WatchSignal, WatchSnapshot, WatchHalt, WatchEvent,
       WatchEmpty, WatchSelect, waiterVars, loopVars, AddEpoch, vars
  <2> QED
    BY <2>1 DEF TypeOK, WaiterTypeOK
<1> QED
  BY <1>1, <1>2, <1>3 DEF Next

(* A run loop that found nothing unprocessed has settled what it covers.   *)
LEMMA CheckedSettles ==
  ASSUME TypeOK, HandledInStep, loopPc # "step", ~HasUnprocessedMessages, NEW e \in Nat
  PROVE  /\ Acknowledges(e, "PendingRequests")
         /\ ~HasUnservicedRequests => Acknowledges(e, "Idle")
  BY DEF TypeOK, RunnerTypeOK, WorkStates, HandledInStep, HasUnprocessedMessages, Unprocessed,
         Acknowledges, Settled, HasUnservicedRequests

LEMMA StepLoopAcknowledges == AckInv /\ [Next]_vars => LoopAcknowledges'
<1> SUFFICES ASSUME AckInv, [Next]_vars PROVE LoopAcknowledges'
  OBVIOUS
<1>1. TypeOK /\ HandledInStep /\ LoopAcknowledges /\ epoch \in Nat /\ epoch <= inputEpoch
  BY DEF AckInv, TypeOK, LoopTypeOK, EpochsBounded
<1>2. ASSUME NEW st, Acknowledges(epoch, st), epoch' = epoch PROVE Acknowledges(epoch, st)'
  BY <1>1, <1>2, StepKeeps, AcknowledgesStable DEF Acknowledges, Settled
<1>3. CASE epoch' = epoch /\ loopPc' = loopPc /\ status' = status
  BY <1>1, <1>2, <1>3 DEF LoopAcknowledges, Acknowledges, Settled
<1>4. CASE LoopCheck \/ LoopMore
  <2>1. loopPc' # "halt" /\ (loopPc' = "capture" => ~HasUnprocessedMessages /\ loopPc # "step")
    BY <1>4 DEF LoopCheck, LoopMore
  <2>2. UNCHANGED <<work, stamp, epoch>>
    BY <1>4 DEF LoopCheck, LoopMore, runnerVars
  <2>3. loopPc' = "capture" => Acknowledges(epoch, "PendingRequests")
    BY <1>1, <2>1, CheckedSettles
  <2> QED
    BY <2>1, <2>2, <2>3 DEF LoopAcknowledges, Acknowledges, Settled
<1>5. CASE LoopCapture
  <2>1. loopPc = "capture" /\ loopPc' = "halt" /\ UNCHANGED <<work, stamp, epoch>>
    BY <1>5 DEF LoopCapture, runnerVars
  <2>2. CASE HasUnservicedRequests
    BY <1>1, <1>5, <2>1, <2>2 DEF LoopCapture, LoopAcknowledges, Acknowledges, Settled
  <2>3. CASE ~HasUnservicedRequests
    <3>1. \A w \in Work : work[w] # "asking"
      BY <2>3 DEF HasUnservicedRequests
    <3> QED
      BY <1>1, <1>5, <2>1, <2>3, <3>1
      DEF LoopCapture, LoopAcknowledges, Acknowledges, Settled
  <2> QED
    BY <2>2, <2>3
<1>6. CASE loopPc' \notin {"capture", "halt"}
  BY <1>6 DEF LoopAcknowledges
<1> QED
  BY <1>1, <1>3, <1>4, <1>5, <1>6, StepEpochs

(* Every step keeps what halts acknowledge and what the run loop's epoch   *)
(* covers.                                                                 *)
THEOREM AckInvStep == AckInv /\ [Next]_vars => AckInv'
<1> SUFFICES ASSUME AckInv, [Next]_vars PROVE AckInv'
  OBVIOUS
<1> USE DEF AckInv
<1>1. TypeOK' /\ HandledInStep' /\ LoopAcknowledges'
  BY TypeStep, StepHandled, StepLoopAcknowledges
<1>2. /\ inputEpoch \in Nat /\ inputEpoch' \in Nat /\ epoch \in Nat /\ inputEpoch <= inputEpoch'
      /\ epoch' \in {epoch, inputEpoch}
  BY <1>1, StepEpochs DEF TypeOK, WaiterTypeOK, LoopTypeOK
<1>3. ASSUME NEW h \in Outstanding, h \in Outstanding'
      PROVE  h.epoch <= inputEpoch' /\ Acknowledges(h.epoch, h.status)'
  <2>1. h.epoch \in Nat /\ h.epoch <= inputEpoch /\ Acknowledges(h.epoch, h.status)
    BY OutstandingTyped DEF Halt, EpochsBounded, HaltAcknowledgesInput
  <2> QED
    BY <1>2, <2>1, StepKeeps, AcknowledgesStable
<1>4. ASSUME LoopHalt
      PROVE  /\ ThisHalt.epoch <= inputEpoch'
             /\ ThisHalt.epoch = epoch /\ ThisHalt.status = status
             /\ Acknowledges(epoch, status)'
  <2>1. Acknowledges(epoch, status) /\ epoch <= inputEpoch
    BY <1>4 DEF LoopHalt, LoopAcknowledges, EpochsBounded
  <2>2. Acknowledges(epoch, status)'
    BY <1>2, <1>4, <2>1 DEF LoopHalt, runnerVars, Acknowledges, Settled
  <2> QED
    BY <1>2, <2>1, <2>2 DEF ThisHalt
<1>5. \A h \in Outstanding' : h.epoch <= inputEpoch' /\ Acknowledges(h.epoch, h.status)'
  <2> SUFFICES ASSUME NEW h \in Outstanding'
               PROVE  h.epoch <= inputEpoch' /\ Acknowledges(h.epoch, h.status)'
    OBVIOUS
  <2>1. CASE h \in Outstanding
    BY <1>3, <2>1
  <2>2. CASE LoopHalt /\ h = ThisHalt
    BY <1>4, <2>2 DEF LoopHalt, Acknowledges, Settled
  <2> QED
    BY <2>1, <2>2, StepOutstanding
<1>6. epoch' <= inputEpoch'
  BY <1>2 DEF EpochsBounded
<1> QED
  BY <1>1, <1>5, <1>6 DEF EpochsBounded, HaltAcknowledgesInput

(* The specification keeps its types.                                      *)
THEOREM TypeCorrect == Spec => []TypeOK
<1>1. Init => TypeOK
  BY TypeInit
<1>2. TypeOK /\ [Next]_vars => TypeOK'
  BY TypeStep
<1> QED
  BY <1>1, <1>2, PTL DEF Spec

(* Every halt acknowledges what was enqueued before the input signals it   *)
(* counts: runLoop loads the epoch before it checks for work.              *)
THEOREM HaltAcknowledges == Spec => []HaltAcknowledgesInput
<1>1. AckInv => HaltAcknowledgesInput
  BY DEF AckInv
<1> QED
  BY <1>1, AckInvInit, AckInvStep, PTL DEF Spec

(* TakeEventStream returns on a halt only when the input signalled before  *)
(* its snapshot is settled.                                                *)
THEOREM WatchSettles == Spec => WatchReturnsOnlyWhenSettled
<1> DEFINE Settles == \A r \in Watchers : outcome[r] = "none" /\ outcome'[r] = "halt" =>
                        Acknowledges(myEpoch[r], IF blocking[r] THEN "Idle" ELSE "PendingRequests")
<1>1. ASSUME AckInv, [Next]_vars PROVE [Settles]_vars
  <2> SUFFICES ASSUME NEW r \in Watchers, outcome[r] = "none", outcome'[r] = "halt"
               PROVE  Acknowledges(myEpoch[r], IF blocking[r] THEN "Idle" ELSE "PendingRequests")
    OBVIOUS
  <2>1. TypeOK /\ WatchTypeOK
    BY <1>1 DEF AckInv, TypeOK
  <2>2. WatchHalt(r) /\ Satisfies(Head(queue), r)
    <3>1. ~UNCHANGED outcome
      OBVIOUS
    <3>2. PICK q \in Watchers : WatchBegin(q) \/ Watch(q)
      BY <1>1, <3>1 DEF Next, Loop, LoopStart, LoopWake, LoopTop, LoopCheck, LoopMore, LoopAdvance,
         LoopAdvanceFails, LoopRaise, LoopStepFails, LoopCancelsOnError, LoopStepEnds, LoopCapture,
         LoopHalt, LoopEnd, LoopCancel, LoopClose, LoopHandle, Open, EmitStep, EmitPut, EmitReady,
         ClientSend, ClientRespond, ClientSignal, Cancel, Stop, RestoreStep, RestoreClear, Restore,
         RestoreRepublish, RestoreSignal, watchVars, vars
    <3>3. WatchHalt(q) /\ Satisfies(Head(queue), q)
      BY <2>1, <3>2 DEF WatchBegin, Watch, WatchLoad, WatchSignal, WatchSnapshot, WatchHalt,
         WatchEvent, WatchEmpty, WatchSelect, Return, GoTo, WatchTypeOK
    <3>4. q = r
      BY <2>1, <3>3 DEF WatchHalt, Return, WatchTypeOK
    <3> QED
      BY <3>3, <3>4
  <2>3. Head(queue) \in Outstanding
    <3>1. queue # <<>> /\ IsHalt(Head(queue)) /\ queue \in Seq(Event \cup Halt)
      BY <2>1, <2>2 DEF WatchHalt, TypeOK, EventsTypeOK
    <3>2. 1 \in 1..Len(queue) /\ Head(queue) = queue[1]
      BY <3>1
    <3> QED
      BY <3>1, <3>2, OutstandingInFlight DEF InFlight
  <2>4. Acknowledges(Head(queue).epoch, Head(queue).status) /\ Head(queue) \in Halt
    BY <1>1, <2>1, <2>3, OutstandingTyped DEF AckInv, HaltAcknowledgesInput
  <2>5. \A w \in Work : stamp[w] \in 1..myEpoch[r] => stamp[w] \in 1..Head(queue).epoch
    BY <2>1, <2>2, <2>4 DEF Satisfies, Halt, TypeOK, RunnerTypeOK, WatchTypeOK
  <2> QED
    BY <2>2, <2>4, <2>5 DEF Satisfies, Acknowledges, Settled
<1> QED
  BY <1>1, AckInvInit, AckInvStep, PTL DEF Spec, WatchReturnsOnlyWhenSettled

-----------------------------------------------------------------------------
(* No wake-up is lost. The waiter is closed only behind a finished, hence  *)
(* cancelled, run loop; and the claim starts with the run loop, before the *)
(* opener has signalled what a resumed run finds in its queues.            *)
LoopEnds ==
    /\ loopPc \in {"close", "done"} => cancelled
    /\ loopDone => loopPc = "done"
    /\ waiterClosed => loopDone
Awake == loopPc \in {"start", "capture", "halt", "wait"} /\ HasUnprocessedMessages /\ ~cancelled
            => signal \/ Waking
WakeInv == TypeOK /\ LoopEnds /\ Awake

LEMMA StepLoopEnds == TypeOK /\ LoopEnds /\ [Next]_vars => LoopEnds'
<1> SUFFICES ASSUME TypeOK, LoopEnds, [Next]_vars PROVE LoopEnds'
  OBVIOUS
<1> USE DEF LoopEnds
<1>1. CASE UNCHANGED <<loopPc, cancelled, loopDone, waiterClosed>>
  BY <1>1
<1>2. CASE Loop
  BY <1>2 DEF Loop, LoopStart, LoopWake, LoopTop, LoopCheck, LoopMore, LoopAdvance,
     LoopAdvanceFails, LoopRaise, LoopStepFails, LoopCancelsOnError, LoopStepEnds, LoopCapture,
     LoopHalt, LoopEnd, LoopCancel, LoopClose, LoopHandle, waiterVars, loopVars
<1>3. CASE \E s \in Stoppers : Stop(s)
  BY <1>3 DEF Stop
<1>4. CASE Open \/ (\E p \in Emitters : EmitStep(p)) \/ (\E s \in Stoppers : Cancel(s))
           \/ (\E w \in Work : ClientSend(w) \/ ClientRespond(w) \/ ClientSignal(w))
           \/ (\E k \in Restorers : RestoreStep(k))
  BY <1>1, <1>4 DEF Open, EmitStep, EmitPut, EmitReady, ClientSend, ClientRespond, ClientSignal,
     Cancel, RestoreStep, RestoreClear, Restore, RestoreRepublish, RestoreSignal, waiterVars,
     loopVars
<1>5. CASE (\E r \in Watchers : WatchBegin(r) \/ Watch(r)) \/ UNCHANGED vars
  BY <1>1, <1>5 DEF WatchBegin, Watch, WatchLoad, WatchSignal, WatchSnapshot, WatchHalt,
     WatchEvent, WatchEmpty, WatchSelect, waiterVars, loopVars, vars
<1> QED
  BY <1>2, <1>3, <1>4, <1>5 DEF Next

LEMMA StepAwake == WakeInv /\ [Next]_vars => Awake'
<1> SUFFICES ASSUME WakeInv, [Next]_vars,
                    loopPc' \in {"start", "capture", "halt", "wait"}, HasUnprocessedMessages',
                    ~cancelled'
             PROVE  signal' \/ Waking'
  BY DEF Awake
<1> USE DEF WakeInv, Awake
<1>1. CASE UNCHANGED <<work, loopPc, cancelled, signal, callerVars, watchPc>>
  BY <1>1 DEF HasUnprocessedMessages, Unprocessed, Waking, callerVars
<1>2. CASE Loop
  <2>1. UNCHANGED <<callerVars, watchVars>>
    BY <1>2 DEF Loop, LoopStart, LoopWake, LoopTop, LoopCheck, LoopMore, LoopAdvance,
       LoopAdvanceFails, LoopRaise, LoopStepFails, LoopCancelsOnError, LoopStepEnds, LoopCapture,
       LoopHalt, LoopEnd, LoopCancel, LoopClose, LoopHandle
  <2>2. /\ loopPc \in {"start", "capture", "halt", "wait"}
        /\ UNCHANGED <<work, signal, cancelled>>
    BY <1>2 DEF Loop, LoopStart, LoopWake, LoopTop, LoopCheck, LoopMore, LoopAdvance,
       LoopAdvanceFails, LoopRaise, LoopStepFails, LoopCancelsOnError, LoopStepEnds, LoopCapture,
       LoopHalt, LoopEnd, LoopCancel, LoopClose, LoopHandle, HasUnprocessedMessages, Unprocessed,
       runnerVars, waiterVars, loopVars
  <2> QED
    BY <2>1, <2>2 DEF HasUnprocessedMessages, Unprocessed, Waking, callerVars, watchVars
<1>3. CASE SignalInput /\ waiterClosed' = waiterClosed /\ cancelled' = cancelled
  BY <1>3 DEF SignalInput, LoopEnds
<1>4. CASE Open
  BY <1>3, <1>4 DEF Open, Waking, loopVars
<1>5. ASSUME NEW w \in Work, ClientSend(w) \/ ClientRespond(w) PROVE Waking'
  <2>1. clientPc'[w] = "add"
    BY <1>5 DEF ClientSend, ClientRespond, TypeOK, CallersTypeOK
  <2> QED
    BY <2>1 DEF Waking
<1>6. ASSUME NEW w \in Work, ClientSignal(w) PROVE signal' \/ Waking'
  <2>1. clientPc[w] = "add" => clientPc'[w] = "wake"
    BY <1>6 DEF ClientSignal, TypeOK, CallersTypeOK
  <2> QED
    BY <1>3, <1>6, <2>1 DEF ClientSignal, Waking, loopVars
<1>7. ASSUME NEW s \in Stoppers, Cancel(s) \/ Stop(s) PROVE signal' \/ Waking'
  <2>1. UNCHANGED <<work, loopPc, openPc, clientPc, restorePc, watchPc>> /\ ~cancelled
    BY <1>7 DEF Cancel, Stop, runnerVars, loopVars, watchVars
  <2>2. signal => signal'
    BY <1>7 DEF Cancel, Stop, SignalInput, waiterVars
  <2> QED
    BY <2>1, <2>2 DEF HasUnprocessedMessages, Unprocessed, Waking
<1>8. ASSUME NEW k \in Restorers, RestoreStep(k) PROVE signal' \/ Waking'
  <2>1. CASE restorePc'[k] \in {"republish", "add", "wake"}
    BY <2>1 DEF Waking
  <2>2. CASE RestoreSignal(k) /\ restorePc[k] = "wake"
    BY <1>3, <2>2 DEF RestoreSignal, loopVars
  <2>3. CASE restorePc'[k] \notin {"republish", "add", "wake"} /\ restorePc[k] # "wake"
    <3>1. /\ restorePc[k] \notin {"republish", "add", "wake"}
          /\ \A q \in Restorers : q # k => restorePc'[q] = restorePc[q]
          /\ UNCHANGED <<work, loopPc, cancelled, signal, openPc, clientPc, watchPc>>
      BY <1>8, <2>3 DEF RestoreStep, RestoreClear, Restore, RestoreRepublish, RestoreSignal,
         TypeOK, CallersTypeOK, runnerVars, waiterVars, loopVars, watchVars
    <3> QED
      BY <3>1 DEF HasUnprocessedMessages, Unprocessed, Waking
  <2> QED
    BY <1>8, <2>1, <2>2, <2>3
    DEF RestoreStep, RestoreClear, Restore, RestoreRepublish, RestoreSignal
<1>9. ASSUME NEW r \in Watchers, WatchBegin(r) \/ Watch(r) PROVE signal' \/ Waking'
  <2>1. CASE watchPc'[r] \in {"add", "wake"}
    BY <2>1 DEF Waking
  <2>2. CASE WatchSignal(r) /\ watchPc[r] = "wake"
    BY <1>3, <2>2 DEF WatchSignal, loopVars
  <2>3. CASE watchPc'[r] \notin {"add", "wake"} /\ watchPc[r] # "wake"
    <3>1. /\ watchPc[r] \notin {"add", "wake"}
          /\ \A q \in Watchers : q # r => watchPc'[q] = watchPc[q]
          /\ UNCHANGED <<work, loopPc, cancelled, signal, callerVars>>
      BY <1>9, <2>3 DEF WatchBegin, Watch, WatchLoad, WatchSignal, WatchSnapshot, WatchHalt,
         WatchEvent, WatchEmpty, WatchSelect, Return, GoTo, TypeOK, WatchTypeOK, runnerVars,
         waiterVars, loopVars
    <3> QED
      BY <3>1 DEF HasUnprocessedMessages, Unprocessed, Waking, callerVars
  <2> QED
    BY <1>9, <2>1, <2>2, <2>3 DEF WatchBegin, Watch, WatchLoad, WatchSignal, WatchSnapshot,
       WatchHalt, WatchEvent, WatchEmpty, WatchSelect, Return, GoTo, TypeOK, WatchTypeOK
<1>10. CASE (\E p \in Emitters : EmitStep(p)) \/ UNCHANGED vars
  BY <1>1, <1>10 DEF EmitStep, EmitPut, EmitReady, vars, runnerVars, waiterVars, loopVars, watchVars
<1> QED
  BY <1>2, <1>4, <1>5, <1>6, <1>7, <1>8, <1>9, <1>10 DEF Next

(* The binary semaphore may swallow signals, yet a sleeping run loop with  *)
(* work to do always has one coming.                                       *)
THEOREM WakeupsAreKept == Spec => []NoLostWakeup
<1>1. Init => WakeInv
  BY TypeInit DEF Init, WakeInv, LoopEnds, Awake, Waking
<1>2. WakeInv /\ [Next]_vars => WakeInv'
  BY TypeStep, StepLoopEnds, StepAwake DEF WakeInv
<1>3. WakeInv => NoLostWakeup
  BY DEF WakeInv, Awake, NoLostWakeup
<1> QED
  BY <1>1, <1>2, <1>3, PTL DEF Spec

-----------------------------------------------------------------------------
(* A run that dies says why. While nobody cancelled the run and no restore *)
(* cleared the buffer, the ErrorEvent of a dead or dying run is being      *)
(* enqueued, is in the queue, or was delivered; enqueueEvent refuses       *)
(* events once the run is cancelled, so the cancellation must find the run *)
(* loop with nothing of its own left to enqueue.                           *)
ErrorOnItsWay ==
    \/ told # {}
    \/ \E i \in 1..Len(queue) : queue[i].kind = "error"
    \/ emit["loop"].stage = "put" /\ emit["loop"].event.kind = "error"
StoppersEndRuns == \A s \in Stoppers : stopPc[s] = "cancel" => endRun
IdleAt ==
    /\ loopPc \in {"start", "top", "check", "advance", "capture", "halt", "cancel", "close", "done"}
          => Idle("loop")
    /\ cancelled /\ ~endRun => Idle("loop")
ErrorKept ==
    ~endRun /\ ~cleared /\ (cancelled \/ loopPc \in {"fail", "end", "cancel", "close", "done"})
        => ErrorOnItsWay
ReportInv == TypeOK /\ StoppersEndRuns /\ IdleAt /\ ErrorKept /\ DeathIsReported

LEMMA ErrorUnmoved ==
  ASSUME ErrorOnItsWay, UNCHANGED <<queue, told>>, emit'["loop"] = emit["loop"]
  PROVE  ErrorOnItsWay'
  BY DEF ErrorOnItsWay

LEMMA ErrorBehind ==
  ASSUME TypeOK, ErrorOnItsWay, queue # <<>>, Head(queue).kind # "error", queue' = Tail(queue),
         UNCHANGED emit, told \subseteq told'
  PROVE  ErrorOnItsWay'
<1>1. CASE told # {} \/ (emit["loop"].stage = "put" /\ emit["loop"].event.kind = "error")
  BY <1>1 DEF ErrorOnItsWay
<1>2. ASSUME NEW i \in 1..Len(queue), queue[i].kind = "error" PROVE ErrorOnItsWay'
  <2>1. queue \in Seq(Event \cup Halt) /\ Head(queue) = queue[1]
    BY DEF TypeOK, EventsTypeOK
  <2>2. i - 1 \in 1..Len(queue') /\ queue'[i - 1] = queue[i]
    BY <1>2, <2>1
  <2> QED
    BY <1>2, <2>2 DEF ErrorOnItsWay
<1> QED
  BY <1>1, <1>2 DEF ErrorOnItsWay

LEMMA ErrorPut ==
  ASSUME TypeOK, ErrorOnItsWay, NEW p \in Emitters, EmitPut(p)
  PROVE  ErrorOnItsWay'
<1>1. "loop" \in Emitters /\ queue \in Seq(Event \cup Halt) /\ queue' = Append(queue, emit[p].event)
  BY DEF TypeOK, EventsTypeOK, EmitPut, Emitters
<1>2. told' = told
  BY DEF EmitPut, watchVars
<1>3. CASE told # {}
  BY <1>2, <1>3 DEF ErrorOnItsWay
<1>4. ASSUME NEW i \in 1..Len(queue), queue[i].kind = "error" PROVE ErrorOnItsWay'
  <2>1. i \in 1..Len(queue') /\ queue'[i] = queue[i]
    BY <1>1
  <2> QED
    BY <1>4, <2>1 DEF ErrorOnItsWay
<1>5. ASSUME emit["loop"].stage = "put", emit["loop"].event.kind = "error" PROVE ErrorOnItsWay'
  <2>1. CASE p = "loop"
    <3>1. emit["loop"].event \in Event \cup Halt
      BY <1>1, <1>5 DEF TypeOK, EventsTypeOK, Silent
    <3>2. Len(queue') \in 1..Len(queue') /\ queue'[Len(queue')] = emit["loop"].event
      BY <1>1, <2>1, <3>1
    <3> QED
      BY <1>5, <3>2 DEF ErrorOnItsWay
  <2>2. CASE p # "loop"
    <3>1. emit'["loop"] = emit["loop"]
      BY <1>1, <2>2 DEF EmitPut, TypeOK, EventsTypeOK
    <3> QED
      BY <1>5, <3>1 DEF ErrorOnItsWay
  <2> QED
    BY <2>1, <2>2
<1> QED
  BY <1>3, <1>4, <1>5 DEF ErrorOnItsWay

LEMMA ErrorReady ==
  ASSUME TypeOK, ErrorOnItsWay, NEW p \in Emitters, EmitReady(p)
  PROVE  ErrorOnItsWay'
<1>1. UNCHANGED <<queue, told>> /\ "loop" \in Emitters
  BY DEF EmitReady, watchVars, Emitters
<1>2. CASE p = "loop"
  BY <1>1, <1>2 DEF EmitReady, ErrorOnItsWay
<1>3. CASE p # "loop"
  BY <1>1, <1>3, ErrorUnmoved DEF EmitReady, TypeOK, EventsTypeOK
<1> QED
  BY <1>2, <1>3

(* Whatever the run loop does in one step of its own: it enqueues only     *)
(* when nothing of its own is being enqueued.                              *)
LEMMA LoopEmits ==
  ASSUME TypeOK, IdleAt, Loop
  PROVE  /\ UNCHANGED <<queue, told, endRun, cleared, stopPc, outcome>>
         /\ emit'["loop"] = emit["loop"] \/ Idle("loop")
<1>1. UNCHANGED <<queue, callerVars, watchVars>>
  BY DEF Loop, LoopStart, LoopWake, LoopTop, LoopCheck, LoopMore, LoopAdvance, LoopAdvanceFails,
     LoopRaise, LoopStepFails, LoopCancelsOnError, LoopStepEnds, LoopCapture, LoopHalt, LoopEnd,
     LoopCancel, LoopClose, LoopHandle, eventVars
<1>2. emit' = emit \/ Idle("loop")
  BY DEF IdleAt, Loop, LoopStart, LoopWake, LoopTop, LoopCheck, LoopMore, LoopAdvance,
     LoopAdvanceFails, LoopRaise, LoopStepFails, LoopCancelsOnError, LoopStepEnds, LoopCapture,
     LoopHalt, LoopEnd, LoopCancel, LoopClose, LoopHandle, eventVars
<1> QED
  BY <1>1, <1>2 DEF callerVars, watchVars

LEMMA StepErrorStays ==
  ASSUME TypeOK, IdleAt, ErrorOnItsWay, [Next]_vars, ~endRun', ~cleared'
  PROVE  ErrorOnItsWay'
<1> "loop" \in Emitters /\ "loop" \notin Restorers
  BY RunEventStreamAssumption DEF Emitters
<1>1. CASE Loop
  BY <1>1, LoopEmits, ErrorUnmoved DEF ErrorOnItsWay, Idle
<1>2. CASE \E p \in Emitters : EmitStep(p)
  BY <1>2, ErrorPut, ErrorReady DEF EmitStep
<1>3. CASE Open \/ (\E w \in Work : ClientSend(w) \/ ClientRespond(w) \/ ClientSignal(w))
           \/ (\E s \in Stoppers : Cancel(s) \/ Stop(s))
           \/ (\E k \in Restorers : Restore(k) \/ RestoreSignal(k))
  BY <1>3, ErrorUnmoved DEF Open, ClientSend, ClientRespond, ClientSignal, Cancel, Stop, Restore,
     RestoreSignal, eventVars, watchVars
<1>4. ASSUME NEW k \in Restorers, RestoreClear(k) PROVE ErrorOnItsWay'
  BY <1>4, ErrorUnmoved DEF RestoreClear, watchVars
<1>5. ASSUME NEW k \in Restorers, RestoreRepublish(k) PROVE ErrorOnItsWay'
  <2>1. emit'["loop"] = emit["loop"]
    BY <1>5 DEF RestoreRepublish, Emit, TypeOK, EventsTypeOK
  <2> QED
    BY <1>5, <2>1, ErrorUnmoved DEF RestoreRepublish, watchVars
<1>6. ASSUME NEW r \in Watchers, WatchHalt(r) PROVE ErrorOnItsWay'
  BY <1>6, ErrorBehind DEF WatchHalt, IsHalt
<1>7. ASSUME NEW r \in Watchers, WatchEvent(r) PROVE ErrorOnItsWay'
  <2>1. queue # <<>> /\ queue' = Tail(queue) /\ UNCHANGED <<emit, endRun>>
    BY <1>7 DEF WatchEvent, callerVars
  <2>2. CASE Head(queue).kind = "error"
    <3>1. told' = told \cup {r}
      BY <1>7, <2>1, <2>2 DEF WatchEvent
    <3> QED
      BY <3>1 DEF ErrorOnItsWay
  <2>3. CASE Head(queue).kind # "error"
    <3>1. told' = told
      BY <1>7, <2>1, <2>3 DEF WatchEvent
    <3> QED
      BY <2>1, <2>3, <3>1, ErrorBehind
  <2> QED
    BY <2>2, <2>3
<1>8. ASSUME NEW r \in Watchers,
             \/ WatchBegin(r) \/ WatchLoad(r) \/ WatchSignal(r) \/ WatchSnapshot(r)
             \/ WatchEmpty(r) \/ WatchSelect(r)
      PROVE  ErrorOnItsWay'
  BY <1>8, ErrorUnmoved DEF WatchBegin, WatchLoad, WatchSignal, WatchSnapshot, WatchEmpty,
     WatchSelect, eventVars
<1>9. CASE UNCHANGED vars
  BY <1>9, ErrorUnmoved DEF vars, eventVars, watchVars
<1> QED
  BY <1>1, <1>2, <1>3, <1>4, <1>5, <1>6, <1>7, <1>8, <1>9 DEF Next, RestoreStep, Watch

LEMMA StepStoppers == TypeOK /\ StoppersEndRuns /\ [Next]_vars => StoppersEndRuns'
<1> SUFFICES ASSUME TypeOK, StoppersEndRuns, [Next]_vars PROVE StoppersEndRuns'
  OBVIOUS
<1>1. CASE UNCHANGED <<stopPc, endRun>>
  BY <1>1 DEF StoppersEndRuns
<1>2. CASE \E s \in Stoppers : Cancel(s) \/ Stop(s)
  BY <1>2 DEF Cancel, Stop, StoppersEndRuns, TypeOK, CallersTypeOK
<1>3. CASE Loop \/ Open \/ (\E p \in Emitters : EmitStep(p)) \/ UNCHANGED vars
           \/ (\E w \in Work : ClientSend(w) \/ ClientRespond(w) \/ ClientSignal(w))
           \/ (\E k \in Restorers : RestoreStep(k))
  BY <1>1, <1>3 DEF Loop, LoopStart, LoopWake, LoopTop, LoopCheck, LoopMore, LoopAdvance,
     LoopAdvanceFails, LoopRaise, LoopStepFails, LoopCancelsOnError, LoopStepEnds, LoopCapture,
     LoopHalt, LoopEnd, LoopCancel, LoopClose, LoopHandle, Open, EmitStep, EmitPut, EmitReady,
     ClientSend, ClientRespond, ClientSignal, RestoreStep, RestoreClear, Restore,
     RestoreRepublish, RestoreSignal, callerVars, vars
<1>4. CASE \E r \in Watchers : WatchBegin(r) \/ Watch(r)
  BY <1>1, <1>4 DEF WatchBegin, Watch, WatchLoad, WatchSignal, WatchSnapshot, WatchHalt,
     WatchEvent, WatchEmpty, WatchSelect, callerVars
<1> QED
  BY <1>2, <1>3, <1>4 DEF Next

(* What a step of another goroutine does to the run loop's side.           *)
LEMMA OthersKeep ==
  ASSUME TypeOK, StoppersEndRuns, [Next]_vars, ~Loop
  PROVE  /\ loopPc' = loopPc
         /\ cancelled' = cancelled \/ endRun'
         /\ endRun => endRun'
         /\ cleared => cleared'
         /\ Idle("loop") => Idle("loop")'
<1> "loop" \in Emitters /\ "loop" \notin Restorers
  BY RunEventStreamAssumption DEF Emitters
<1> DEFINE Still == UNCHANGED <<loopPc, cancelled, endRun, cleared, emit>>
<1>1. ASSUME NEW p \in Emitters, EmitStep(p)
      PROVE  UNCHANGED <<loopPc, cancelled, endRun, cleared>> /\ (Idle("loop") => Idle("loop")')
  BY <1>1 DEF EmitStep, EmitPut, EmitReady, Idle, Silent, TypeOK, EventsTypeOK, loopVars,
     callerVars
<1>2. CASE Open \/ (\E w \in Work : ClientSend(w) \/ ClientRespond(w) \/ ClientSignal(w))
           \/ (\E k \in Restorers : Restore(k) \/ RestoreSignal(k))
  <2>1. Still
    BY <1>2 DEF Open, ClientSend, ClientRespond, ClientSignal, Restore, RestoreSignal, eventVars,
       loopVars
  <2> QED
    BY <2>1 DEF Idle
<1>3. ASSUME NEW s \in Stoppers, Cancel(s) \/ Stop(s)
      PROVE  /\ UNCHANGED <<loopPc, emit, cleared>>
             /\ cancelled' = cancelled \/ endRun'
             /\ endRun => endRun'
  BY <1>3 DEF Cancel, Stop, StoppersEndRuns, loopVars, eventVars
<1>4. ASSUME NEW k \in Restorers, RestoreClear(k)
      PROVE  UNCHANGED <<loopPc, cancelled, endRun, emit>> /\ (cleared => cleared')
  BY <1>4 DEF RestoreClear, loopVars
<1>5. ASSUME NEW k \in Restorers, RestoreRepublish(k)
      PROVE  UNCHANGED <<loopPc, cancelled, endRun, cleared>> /\ emit'["loop"] = emit["loop"]
  BY <1>5 DEF RestoreRepublish, Emit, TypeOK, EventsTypeOK, loopVars
<1>6. CASE (\E r \in Watchers : WatchBegin(r) \/ Watch(r)) \/ UNCHANGED vars
  <2>1. Still
    BY <1>6 DEF WatchBegin, Watch, WatchLoad, WatchSignal, WatchSnapshot, WatchHalt, WatchEvent,
       WatchEmpty, WatchSelect, loopVars, callerVars, eventVars, vars
  <2> QED
    BY <2>1 DEF Idle
<1> QED
  BY <1>1, <1>2, <1>3, <1>4, <1>5, <1>6 DEF Next, RestoreStep, Idle

LEMMA StepIdleAt == TypeOK /\ StoppersEndRuns /\ IdleAt /\ [Next]_vars => IdleAt'
<1> SUFFICES ASSUME TypeOK, StoppersEndRuns, IdleAt, [Next]_vars PROVE IdleAt'
  OBVIOUS
<1> "loop" \in Emitters
  BY DEF Emitters
<1>1. CASE ~Loop
  BY <1>1, OthersKeep DEF IdleAt
<1>2. CASE UNCHANGED <<emit, cancelled, endRun>> /\ Idle("loop")
  BY <1>2 DEF IdleAt, Idle
<1>3. CASE LoopStart \/ LoopCheck \/ LoopAdvanceFails \/ LoopRaise \/ LoopStepFails \/ LoopHalt
  <2>1. UNCHANGED <<cancelled, endRun>>
    BY <1>3 DEF LoopStart, LoopCheck, LoopAdvanceFails, LoopRaise, LoopStepFails, LoopHalt,
       loopVars, callerVars
  <2>2. emit' = emit \/ (\E e : Emit("loop", e))
    BY <1>3 DEF LoopStart, LoopCheck, LoopAdvanceFails, LoopRaise, LoopStepFails, LoopHalt
  <2>3. cancelled => Idle("loop")' \/ emit' = emit
    BY <2>2 DEF Emit, Idle, Silent, TypeOK, EventsTypeOK
  <2>4. /\ loopPc' \in {"wait", "end", "more", "fail", "capture", "step"}
        /\ loopPc' = "capture" => emit' = emit /\ loopPc = "check"
    <3>1. CASE LoopStart \/ LoopHalt
      BY <3>1 DEF LoopStart, LoopHalt
    <3>2. CASE LoopCheck
      BY <3>2 DEF LoopCheck
    <3>3. CASE LoopAdvanceFails \/ LoopStepFails \/ LoopRaise
      BY <3>3 DEF LoopAdvanceFails, LoopStepFails, LoopRaise, loopVars
    <3> QED
      BY <1>3, <3>1, <3>2, <3>3
  <2> QED
    BY <2>1, <2>3, <2>4 DEF IdleAt, Idle
<1>4. CASE LoopWake \/ LoopTop \/ LoopMore \/ LoopAdvance \/ LoopCancelsOnError \/ LoopStepEnds
           \/ LoopCapture \/ LoopEnd \/ LoopCancel \/ LoopClose \/ \E w \in Work : LoopHandle(w)
  <2>1. emit' = emit /\ Idle("loop")
    BY <1>4 DEF LoopWake, LoopTop, LoopMore, LoopAdvance, LoopCancelsOnError, LoopStepEnds,
       LoopCapture, LoopEnd, LoopCancel, LoopClose, LoopHandle, IdleAt, eventVars
  <2> QED
    BY <2>1 DEF IdleAt, Idle
<1> QED
  BY <1>1, <1>3, <1>4 DEF Loop

LEMMA StepErrorKept ==
  ASSUME TypeOK, StoppersEndRuns, IdleAt, ErrorKept, [Next]_vars
  PROVE  ErrorKept'
<1> SUFFICES ASSUME ~endRun', ~cleared',
                    cancelled' \/ loopPc' \in {"fail", "end", "cancel", "close", "done"}
             PROVE  ErrorOnItsWay'
  BY DEF ErrorKept
<1> "loop" \in Emitters
  BY DEF Emitters
<1>1. CASE ErrorOnItsWay
  BY <1>1, StepErrorStays
<1>2. CASE ~ErrorOnItsWay
  <2>1. CASE ~Loop
    BY <1>2, <2>1, OthersKeep DEF ErrorKept
  <2>2. CASE Loop
    <3>1. ~endRun /\ ~cleared
      BY <2>2, LoopEmits
    <3>2. ~cancelled /\ loopPc \notin {"fail", "end", "cancel", "close", "done"}
      BY <1>2, <3>1 DEF ErrorKept
    <3>3. LoopAdvanceFails \/ (LoopStepFails /\ loopPc' = "fail")
      BY <2>2, <3>2 DEF Loop, LoopStart, LoopWake, LoopTop, LoopCheck, LoopMore, LoopAdvance,
         LoopAdvanceFails, LoopRaise, LoopStepFails, LoopCancelsOnError, LoopStepEnds,
         LoopCapture, LoopHalt, LoopEnd, LoopCancel, LoopClose, LoopHandle, loopVars
    <3>4. Emit("loop", [kind |-> "error"])
      BY <3>3 DEF LoopAdvanceFails, LoopStepFails
    <3>5. emit'["loop"] = [stage |-> "put", event |-> [kind |-> "error"]]
      BY <3>2, <3>4 DEF Emit, Emitting, TypeOK, EventsTypeOK
    <3> QED
      BY <3>5 DEF ErrorOnItsWay
  <2> QED
    BY <2>1, <2>2
<1> QED
  BY <1>1, <1>2

LEMMA StepDeath ==
  ASSUME TypeOK, StoppersEndRuns, IdleAt, ErrorKept, DeathIsReported, [Next]_vars
  PROVE  DeathIsReported'
<1> SUFFICES ASSUME NEW r \in Watchers, outcome'[r] = "ended", ~endRun', ~cleared' PROVE told' # {}
  BY DEF DeathIsReported
<1>1. ~endRun /\ ~cleared
  BY OthersKeep, LoopEmits
<1>2. told \subseteq told'
  BY DEF Next, Loop, LoopStart, LoopWake, LoopTop, LoopCheck, LoopMore, LoopAdvance,
     LoopAdvanceFails, LoopRaise, LoopStepFails, LoopCancelsOnError, LoopStepEnds, LoopCapture,
     LoopHalt, LoopEnd, LoopCancel, LoopClose, LoopHandle, Open, EmitStep, EmitPut, EmitReady,
     ClientSend, ClientRespond, ClientSignal, Cancel, Stop, RestoreStep, RestoreClear, Restore,
     RestoreRepublish, RestoreSignal, WatchBegin, Watch, WatchLoad, WatchSignal, WatchSnapshot,
     WatchHalt, WatchEvent, WatchEmpty, WatchSelect, watchVars, vars
<1>3. CASE outcome[r] = "ended"
  BY <1>1, <1>2, <1>3 DEF DeathIsReported
<1>4. CASE outcome[r] # "ended"
  <2>1. ~UNCHANGED outcome
    BY <1>4
  <2>2. PICK q \in Watchers : WatchBegin(q) \/ Watch(q)
    BY <2>1 DEF Next, Loop, LoopStart, LoopWake, LoopTop, LoopCheck, LoopMore, LoopAdvance,
       LoopAdvanceFails, LoopRaise, LoopStepFails, LoopCancelsOnError, LoopStepEnds, LoopCapture,
       LoopHalt, LoopEnd, LoopCancel, LoopClose, LoopHandle, Open, EmitStep, EmitPut, EmitReady,
       ClientSend, ClientRespond, ClientSignal, Cancel, Stop, RestoreStep, RestoreClear, Restore,
       RestoreRepublish, RestoreSignal, watchVars, vars
  <2>3. WatchSelect(q) /\ cancelled /\ queue = <<>> /\ told' = told
    BY <1>4, <2>2 DEF WatchBegin, Watch, WatchLoad, WatchSignal, WatchSnapshot, WatchHalt,
       WatchEvent, WatchEmpty, WatchSelect, Return, GoTo, TypeOK, WatchTypeOK
  <2>4. Idle("loop")
    BY <1>1, <2>3 DEF IdleAt
  <2> QED
    BY <1>1, <2>3, <2>4 DEF ErrorKept, ErrorOnItsWay, Idle
<1> QED
  BY <1>3, <1>4

(* A run that dies on its own says why: between the failure and the end of *)
(* the queue, its ErrorEvent is always with the run loop, in the queue or  *)
(* with a watcher.                                                         *)
THEOREM DeathReported == Spec => []DeathIsReported
<1>1. Init => ReportInv
  <2> SUFFICES ASSUME Init PROVE ReportInv
    OBVIOUS
  <2>1. Idle("loop")
    BY DEF Init, Idle, Silent, Emitters
  <2> QED
    BY <2>1, TypeInit DEF Init, ReportInv, StoppersEndRuns, IdleAt, ErrorKept, DeathIsReported
<1>2. ReportInv /\ [Next]_vars => ReportInv'
  BY TypeStep, StepStoppers, StepIdleAt, StepErrorKept, StepDeath DEF ReportInv
<1>3. ReportInv => DeathIsReported
  BY DEF ReportInv
<1> QED
  BY <1>1, <1>2, <1>3, PTL DEF Spec

-----------------------------------------------------------------------------
(* No watcher is stranded. One watcher reads at a time, so only it can     *)
(* take a halt away; an epoch the run loop has not loaded comes with a     *)
(* signal; and a run loop that sleeps on the latest epoch has left a halt  *)
(* for it, which stays until it is read (or a restore clears the buffer,   *)
(* which then raises the epoch again unless it fails).                     *)
Active(r) == watchPc[r] \notin {"idle", "done"}
OneWatcher ==
    /\ \A r \in Watchers : Active(r) => taken
    /\ \A r, q \in Watchers : Active(r) /\ Active(q) => r = q
    /\ \A r \in Watchers : myEpoch[r] <= inputEpoch
    /\ loopPc = "start" => epoch = 0
SignalPending == ~cancelled /\ epoch # inputEpoch => signal \/ Waking \/ loopPc = "top"
Fresh(n) ==
    \/ \E i \in 1..Len(queue) : IsHalt(queue[i]) /\ queue[i].epoch >= n
    \/ emit["loop"].stage = "put" /\ IsHalt(emit["loop"].event) /\ emit["loop"].event.epoch >= n
Caught ==
    /\ loopPc = "wait" /\ ~cancelled /\ epoch = inputEpoch
    /\ \A k \in Restorers : restorePc[k] \in {"idle", "wake", "done"}
Wants(r) == IF watchPc[r] \in {"next", "select"} THEN myEpoch[r] ELSE inputEpoch
Waits(r) ==
    /\ watchPc[r] \in {"wake", "snapshot", "next", "select"}
    /\ ~blocking[r] /\ Wants(r) > 0
HaltWaiting == Caught => \A r \in Watchers : Waits(r) => Fresh(Wants(r))
StrandInv == AckInv /\ LoopEnds /\ OneWatcher /\ SignalPending /\ HaltWaiting

(* What the step of a watcher does to the watchers.                        *)
LEMMA WatchEffect ==
  ASSUME TypeOK, NEW q \in Watchers, WatchBegin(q) \/ Watch(q)
  PROVE  /\ \A r \in Watchers : r # q => /\ watchPc'[r] = watchPc[r] /\ myEpoch'[r] = myEpoch[r]
                                         /\ blocking'[r] = blocking[r]
         /\ \/ ~taken /\ taken' /\ watchPc'[q] = "load"
            \/ taken' = taken /\ watchPc'[q] = "done" /\ watchPc[q] = "idle"
            \/ taken' = taken /\ Active(q) /\ Active(q)'
            \/ Active(q) /\ ~Active(q)'
         /\ myEpoch'[q] = myEpoch[q] \/ (myEpoch'[q] = inputEpoch /\ inputEpoch' = inputEpoch)
         /\ UNCHANGED <<loopPc, epoch, cancelled>>
<1>1. CASE WatchBegin(q)
  BY <1>1 DEF WatchBegin, TypeOK, WatchTypeOK, loopVars
<1>2. CASE WatchLoad(q) \/ WatchSignal(q) \/ WatchEmpty(q) \/ WatchSelect(q)
  BY <1>2 DEF WatchLoad, WatchSignal, WatchEmpty, WatchSelect, GoTo, Return, Active, TypeOK,
     WatchTypeOK, loopVars
<1>3. CASE WatchSnapshot(q) \/ WatchHalt(q) \/ WatchEvent(q)
  BY <1>3 DEF WatchSnapshot, WatchHalt, WatchEvent, GoTo, Return, Active, TypeOK,
     WatchTypeOK, loopVars, waiterVars
<1> QED
  BY <1>1, <1>2, <1>3 DEF Watch

LEMMA StepOneWatcher ==
  ASSUME AckInv, OneWatcher, [Next]_vars
  PROVE  OneWatcher'
<1> USE DEF OneWatcher, Active
<1>t. /\ TypeOK /\ inputEpoch <= inputEpoch' /\ inputEpoch \in Nat /\ inputEpoch' \in Nat
      /\ \A r \in Watchers : myEpoch[r] \in Nat /\ myEpoch'[r] \in Nat
  BY StepEpochs, TypeStep DEF AckInv, TypeOK, WaiterTypeOK, WatchTypeOK
<1>1. loopPc' = "start" => epoch' = epoch /\ loopPc = "start"
  <2>1. CASE Loop
    BY <2>1 DEF Loop, LoopStart, LoopWake, LoopTop, LoopCheck, LoopMore, LoopAdvance,
       LoopAdvanceFails, LoopRaise, LoopStepFails, LoopCancelsOnError, LoopStepEnds, LoopCapture,
       LoopHalt, LoopEnd, LoopCancel, LoopClose, LoopHandle, loopVars
  <2>2. CASE \E q \in Watchers : WatchBegin(q) \/ Watch(q)
    BY <1>t, <2>2, WatchEffect
  <2>3. CASE Open \/ (\E p \in Emitters : EmitStep(p)) \/ UNCHANGED vars
             \/ (\E w \in Work : ClientSend(w) \/ ClientRespond(w) \/ ClientSignal(w))
             \/ (\E s \in Stoppers : Cancel(s) \/ Stop(s)) \/ (\E k \in Restorers : RestoreStep(k))
    BY <2>3 DEF Open, EmitStep, EmitPut, EmitReady, ClientSend, ClientRespond, ClientSignal,
       Cancel, Stop, RestoreStep, RestoreClear, Restore, RestoreRepublish, RestoreSignal,
       loopVars, vars
  <2> QED
    BY <2>1, <2>2, <2>3 DEF Next
<1>2. CASE UNCHANGED <<watchPc, myEpoch, taken>>
  BY <1>t, <1>1, <1>2
<1>3. CASE \E q \in Watchers : WatchBegin(q) \/ Watch(q)
  <2>1. PICK q \in Watchers : WatchBegin(q) \/ Watch(q)
    BY <1>3
  <2>2. \A r \in Watchers : r # q => watchPc'[r] = watchPc[r] /\ myEpoch'[r] = myEpoch[r]
    BY <1>t, <2>1, WatchEffect
  <2>3. \/ ~taken /\ taken' /\ watchPc'[q] = "load"
        \/ taken' = taken /\ watchPc'[q] = "done" /\ watchPc[q] = "idle"
        \/ taken' = taken /\ Active(q) /\ Active(q)'
        \/ Active(q) /\ ~Active(q)'
    BY <1>t, <2>1, WatchEffect
  <2>4. \A r \in Watchers : Active(r)' => taken'
    BY <2>2, <2>3
  <2>5. \A r, p \in Watchers : Active(r)' /\ Active(p)' => r = p
    BY <2>2, <2>3
  <2>6. \A r \in Watchers : myEpoch'[r] <= inputEpoch'
    BY <1>t, <2>1, <2>2, WatchEffect
  <2> QED
    BY <1>1, <2>4, <2>5, <2>6
<1>4. CASE Loop \/ Open \/ (\E p \in Emitters : EmitStep(p)) \/ UNCHANGED vars
           \/ (\E w \in Work : ClientSend(w) \/ ClientRespond(w) \/ ClientSignal(w))
           \/ (\E s \in Stoppers : Cancel(s) \/ Stop(s)) \/ (\E k \in Restorers : RestoreStep(k))
  BY <1>2, <1>4 DEF Loop, LoopStart, LoopWake, LoopTop, LoopCheck, LoopMore, LoopAdvance,
     LoopAdvanceFails, LoopRaise, LoopStepFails, LoopCancelsOnError, LoopStepEnds, LoopCapture,
     LoopHalt, LoopEnd, LoopCancel, LoopClose, LoopHandle, Open, EmitStep, EmitPut, EmitReady,
     ClientSend, ClientRespond, ClientSignal, Cancel, Stop, RestoreStep, RestoreClear, Restore,
     RestoreRepublish, RestoreSignal, watchVars, vars
<1> QED
  BY <1>3, <1>4 DEF Next

LEMMA StepSignalPending ==
  ASSUME TypeOK, LoopEnds, SignalPending, [Next]_vars
  PROVE  SignalPending'
<1> SUFFICES ASSUME ~cancelled', epoch' # inputEpoch', loopPc' # "top"
             PROVE  signal' \/ Waking'
  BY DEF SignalPending
<1> USE DEF SignalPending
<1>1. CASE UNCHANGED <<epoch, inputEpoch, loopPc, cancelled, signal, callerVars, watchPc>>
  BY <1>1 DEF Waking, callerVars
<1>2. CASE Loop
  <2>1. UNCHANGED <<callerVars, watchVars>>
    BY <1>2 DEF Loop, LoopStart, LoopWake, LoopTop, LoopCheck, LoopMore, LoopAdvance,
       LoopAdvanceFails, LoopRaise, LoopStepFails, LoopCancelsOnError, LoopStepEnds, LoopCapture,
       LoopHalt, LoopEnd, LoopCancel, LoopClose, LoopHandle
  <2>2. UNCHANGED <<epoch, inputEpoch, signal, cancelled>> /\ loopPc # "top"
    BY <1>2 DEF Loop, LoopStart, LoopWake, LoopTop, LoopCheck, LoopMore, LoopAdvance,
       LoopAdvanceFails, LoopRaise, LoopStepFails, LoopCancelsOnError, LoopStepEnds, LoopCapture,
       LoopHalt, LoopEnd, LoopCancel, LoopClose, LoopHandle, waiterVars, loopVars
  <2> QED
    BY <2>1, <2>2 DEF Waking, callerVars, watchVars
<1>3. CASE SignalInput /\ waiterClosed' = waiterClosed /\ cancelled' = cancelled
  BY <1>3 DEF SignalInput, LoopEnds
<1>4. CASE Open
  BY <1>3, <1>4 DEF Open, Waking, loopVars
<1>5. ASSUME NEW w \in Work, ClientSend(w) \/ ClientRespond(w) PROVE Waking'
  <2>1. clientPc'[w] = "add"
    BY <1>5 DEF ClientSend, ClientRespond, TypeOK, CallersTypeOK
  <2> QED
    BY <2>1 DEF Waking
<1>6. ASSUME NEW w \in Work, ClientSignal(w) PROVE signal' \/ Waking'
  <2>1. clientPc[w] = "add" => clientPc'[w] = "wake"
    BY <1>6 DEF ClientSignal, TypeOK, CallersTypeOK
  <2> QED
    BY <1>3, <1>6, <2>1 DEF ClientSignal, Waking, loopVars
<1>7. ASSUME NEW s \in Stoppers, Cancel(s) \/ Stop(s) PROVE signal' \/ Waking'
  <2>1. UNCHANGED <<epoch, inputEpoch, loopPc, openPc, clientPc, restorePc, watchPc>> /\ ~cancelled
    BY <1>7 DEF Cancel, Stop, waiterVars, loopVars, watchVars
  <2>2. signal => signal'
    BY <1>7 DEF Cancel, Stop, SignalInput, waiterVars
  <2> QED
    BY <2>1, <2>2 DEF Waking
<1>8. ASSUME NEW k \in Restorers, RestoreStep(k) PROVE signal' \/ Waking'
  <2>1. CASE restorePc'[k] \in {"republish", "add", "wake"}
    BY <2>1 DEF Waking
  <2>2. CASE RestoreSignal(k) /\ restorePc[k] = "wake"
    BY <1>3, <2>2 DEF RestoreSignal, loopVars
  <2>3. CASE restorePc'[k] \notin {"republish", "add", "wake"} /\ restorePc[k] # "wake"
    <3>1. /\ restorePc[k] \notin {"republish", "add", "wake"}
          /\ \A q \in Restorers : q # k => restorePc'[q] = restorePc[q]
          /\ UNCHANGED <<epoch, inputEpoch, loopPc, cancelled, signal, openPc, clientPc, watchPc>>
      BY <1>8, <2>3 DEF RestoreStep, RestoreClear, Restore, RestoreRepublish, RestoreSignal,
         TypeOK, CallersTypeOK, waiterVars, loopVars, watchVars
    <3> QED
      BY <3>1 DEF Waking
  <2> QED
    BY <1>8, <2>1, <2>2, <2>3
    DEF RestoreStep, RestoreClear, Restore, RestoreRepublish, RestoreSignal
<1>9. ASSUME NEW r \in Watchers, WatchBegin(r) \/ Watch(r) PROVE signal' \/ Waking'
  <2>1. CASE watchPc'[r] \in {"add", "wake"}
    BY <2>1 DEF Waking
  <2>2. CASE WatchSignal(r) /\ watchPc[r] = "wake"
    BY <1>3, <2>2 DEF WatchSignal, loopVars
  <2>3. CASE watchPc'[r] \notin {"add", "wake"} /\ watchPc[r] # "wake"
    <3>1. /\ watchPc[r] \notin {"add", "wake"}
          /\ \A q \in Watchers : q # r => watchPc'[q] = watchPc[q]
          /\ UNCHANGED <<epoch, inputEpoch, loopPc, cancelled, signal, callerVars>>
      BY <1>9, <2>3 DEF WatchBegin, Watch, WatchLoad, WatchSignal, WatchSnapshot, WatchHalt,
         WatchEvent, WatchEmpty, WatchSelect, Return, GoTo, TypeOK, WatchTypeOK,
         waiterVars, loopVars
    <3> QED
      BY <3>1 DEF Waking, callerVars
  <2> QED
    BY <1>9, <2>1, <2>2, <2>3 DEF WatchBegin, Watch, WatchLoad, WatchSignal, WatchSnapshot,
       WatchHalt, WatchEvent, WatchEmpty, WatchSelect, Return, GoTo, TypeOK, WatchTypeOK
<1>10. CASE (\E p \in Emitters : EmitStep(p)) \/ UNCHANGED vars
  BY <1>1, <1>10 DEF EmitStep, EmitPut, EmitReady, vars, waiterVars, loopVars, watchVars
<1> QED
  BY <1>2, <1>4, <1>5, <1>6, <1>7, <1>8, <1>9, <1>10 DEF Next

(* A halt that is fresh enough stays within reach.                         *)
LEMMA FreshUnmoved ==
  ASSUME NEW n, Fresh(n), UNCHANGED queue, emit'["loop"] = emit["loop"]
  PROVE  Fresh(n)'
  BY DEF Fresh, IsHalt

LEMMA FreshBehind ==
  ASSUME TypeOK, NEW n, Fresh(n), queue # <<>>, queue' = Tail(queue), UNCHANGED emit,
         ~(IsHalt(Head(queue)) /\ Head(queue).epoch >= n)
  PROVE  Fresh(n)'
<1>1. CASE emit["loop"].stage = "put" /\ IsHalt(emit["loop"].event) /\ emit["loop"].event.epoch >= n
  BY <1>1 DEF Fresh, IsHalt
<1>2. ASSUME NEW i \in 1..Len(queue), IsHalt(queue[i]) /\ queue[i].epoch >= n PROVE Fresh(n)'
  <2>1. queue \in Seq(Event \cup Halt) /\ Head(queue) = queue[1]
    BY DEF TypeOK, EventsTypeOK
  <2>2. i - 1 \in 1..Len(queue') /\ queue'[i - 1] = queue[i]
    BY <1>2, <2>1
  <2> QED
    BY <1>2, <2>2 DEF Fresh, IsHalt
<1> QED
  BY <1>1, <1>2 DEF Fresh

LEMMA FreshPut ==
  ASSUME TypeOK, NEW n, Fresh(n), NEW p \in Emitters, EmitPut(p)
  PROVE  Fresh(n)'
<1>1. "loop" \in Emitters /\ queue \in Seq(Event \cup Halt) /\ queue' = Append(queue, emit[p].event)
  BY DEF TypeOK, EventsTypeOK, EmitPut, Emitters
<1>4. ASSUME NEW i \in 1..Len(queue), IsHalt(queue[i]) /\ queue[i].epoch >= n PROVE Fresh(n)'
  <2>1. i \in 1..Len(queue') /\ queue'[i] = queue[i]
    BY <1>1
  <2> QED
    BY <1>4, <2>1 DEF Fresh, IsHalt
<1>5. ASSUME emit["loop"].stage = "put", IsHalt(emit["loop"].event), emit["loop"].event.epoch >= n
      PROVE  Fresh(n)'
  <2>1. CASE p = "loop"
    <3>1. emit["loop"].event \in Event \cup Halt
      BY <1>1, <1>5 DEF TypeOK, EventsTypeOK, Silent
    <3>2. Len(queue') \in 1..Len(queue') /\ queue'[Len(queue')] = emit["loop"].event
      BY <1>1, <2>1, <3>1
    <3> QED
      BY <1>5, <3>2 DEF Fresh, IsHalt
  <2>2. CASE p # "loop"
    <3>1. emit'["loop"] = emit["loop"]
      BY <1>1, <2>2 DEF EmitPut, TypeOK, EventsTypeOK
    <3> QED
      BY <1>5, <3>1 DEF Fresh, IsHalt
  <2> QED
    BY <2>1, <2>2
<1> QED
  BY <1>4, <1>5 DEF Fresh

LEMMA FreshReady ==
  ASSUME TypeOK, NEW n, Fresh(n), NEW p \in Emitters, EmitReady(p)
  PROVE  Fresh(n)'
<1>1. UNCHANGED queue /\ "loop" \in Emitters
  BY DEF EmitReady, Emitters
<1>2. CASE p = "loop"
  BY <1>1, <1>2 DEF EmitReady, Fresh, IsHalt
<1>3. CASE p # "loop"
  BY <1>1, <1>3, FreshUnmoved DEF EmitReady, TypeOK, EventsTypeOK
<1> QED
  BY <1>2, <1>3

(* A run loop goes to sleep behind a halt for every epoch up to its own.   *)
LEMMA LoopLeavesHalt ==
  ASSUME StrandInv, Loop, Caught', NEW r \in Watchers, Waits(r)'
  PROVE  Fresh(Wants(r))'
<1>1. /\ TypeOK /\ inputEpoch \in Nat /\ myEpoch[r] \in Nat /\ epoch \in Nat
      /\ myEpoch[r] <= inputEpoch /\ "loop" \in Emitters
  BY DEF StrandInv, AckInv, OneWatcher, TypeOK, WaiterTypeOK, WatchTypeOK, LoopTypeOK, Emitters
<1>2. UNCHANGED <<watchPc, myEpoch, blocking, inputEpoch, epoch>> /\ (LoopStart \/ LoopHalt)
  <2>1. loopPc' = "wait"
    BY DEF Caught
  <2>2. LoopStart \/ LoopHalt
    BY <2>1 DEF Loop, LoopStart, LoopWake, LoopTop, LoopCheck, LoopMore, LoopAdvance,
       LoopAdvanceFails, LoopRaise, LoopStepFails, LoopCancelsOnError, LoopStepEnds, LoopCapture,
       LoopHalt, LoopEnd, LoopCancel, LoopClose, LoopHandle, loopVars
  <2> QED
    BY <2>2 DEF LoopStart, LoopHalt, waiterVars, watchVars
<1>3. /\ epoch = inputEpoch /\ Wants(r)' <= inputEpoch
      /\ Wants(r)' \in Nat /\ Wants(r)' > 0
  BY <1>1, <1>2 DEF Caught, Waits, Wants
<1>4. LoopHalt /\ ~cancelled
  BY <1>1, <1>2, <1>3 DEF StrandInv, OneWatcher, LoopStart, LoopHalt, Caught
<1>5. emit'["loop"] = [stage |-> "put", event |-> ThisHalt]
  BY <1>1, <1>4 DEF LoopHalt, Emit, Emitting, ThisHalt, TypeOK, EventsTypeOK
<1>6. emit'["loop"].event.epoch = epoch /\ emit'["loop"].event.kind = "halt"
      /\ emit'["loop"].stage = "put"
  BY <1>5 DEF ThisHalt
<1> QED
  BY <1>1, <1>3, <1>6 DEF Fresh, IsHalt

(* Steps of the other goroutines: while the run loop sleeps and nobody     *)
(* raises the epoch or restores, each of them keeps what was caught.       *)
LEMMA OthersKeepCaught ==
  ASSUME StrandInv, [Next]_vars, ~Loop, Caught'
  PROVE  /\ Caught
         /\ UNCHANGED <<inputEpoch, epoch>>
         /\ \A k \in Restorers : ~RestoreClear(k) /\ ~Restore(k) /\ ~RestoreRepublish(k)
<1>1. /\ TypeOK /\ inputEpoch \in Nat /\ epoch \in Nat /\ epoch <= inputEpoch
  BY DEF StrandInv, AckInv, TypeOK, WaiterTypeOK, LoopTypeOK, EpochsBounded
<1>2. UNCHANGED <<loopPc, epoch>> /\ (cancelled => cancelled')
  <2>1. CASE \E s \in Stoppers : Cancel(s) \/ Stop(s)
    BY <2>1 DEF Cancel, Stop, loopVars
  <2>2. CASE Open \/ (\E p \in Emitters : EmitStep(p)) \/ UNCHANGED vars
             \/ (\E w \in Work : ClientSend(w) \/ ClientRespond(w) \/ ClientSignal(w))
             \/ (\E k \in Restorers : RestoreStep(k))
    BY <2>2 DEF Open, EmitStep, EmitPut, EmitReady, ClientSend, ClientRespond, ClientSignal,
       RestoreStep, RestoreClear, Restore, RestoreRepublish, RestoreSignal, loopVars, vars
  <2>3. CASE \E r \in Watchers : WatchBegin(r) \/ Watch(r)
    BY <1>1, <2>3, WatchEffect
  <2> QED
    BY <2>1, <2>2, <2>3 DEF Next
<1>3. inputEpoch' = inputEpoch
  <2>1. ~AddEpoch
    BY <1>1, <1>2 DEF AddEpoch, Caught
  <2>2. CASE \E r \in Watchers : WatchBegin(r) \/ Watch(r)
    BY <2>1, <2>2 DEF WatchBegin, Watch, WatchLoad, WatchSignal, WatchSnapshot, WatchHalt,
       WatchEvent, WatchEmpty, WatchSelect, waiterVars
  <2>3. CASE Open \/ (\E p \in Emitters : EmitStep(p)) \/ UNCHANGED vars
             \/ (\E w \in Work : ClientSend(w) \/ ClientRespond(w) \/ ClientSignal(w))
             \/ (\E s \in Stoppers : Cancel(s) \/ Stop(s))
             \/ (\E k \in Restorers : RestoreStep(k))
    BY <2>1, <2>3 DEF Open, EmitStep, EmitPut, EmitReady, ClientSend, ClientRespond, ClientSignal,
       Cancel, Stop, RestoreStep, RestoreClear, Restore, RestoreRepublish, RestoreSignal,
       waiterVars, vars
  <2> QED
    BY <2>2, <2>3 DEF Next
<1>4. loopPc = "wait" /\ ~cancelled /\ epoch = inputEpoch
  BY <1>2, <1>3 DEF Caught
<1>5. ASSUME NEW k \in Restorers, RestoreStep(k)
      PROVE  RestoreSignal(k) /\ restorePc[k] = "wake"
  <2>1. restorePc'[k] \in {"idle", "wake", "done"} /\ ~AddEpoch
    BY <1>1, <1>2, <1>5 DEF AddEpoch, Caught
  <2> QED
    BY <1>1, <1>4, <1>5, <2>1 DEF RestoreStep, RestoreClear, Restore, RestoreRepublish,
       RestoreSignal, TypeOK, CallersTypeOK
<1>6. \A k \in Restorers : restorePc[k] \in {"idle", "wake", "done"}
  <2>1. \A k \in Restorers : restorePc'[k] \in {"idle", "wake", "done"}
    BY DEF Caught
  <2>2. CASE UNCHANGED restorePc
    BY <2>1, <2>2
  <2>3. ASSUME NEW k \in Restorers, RestoreStep(k), NEW q \in Restorers
        PROVE  restorePc[q] \in {"idle", "wake", "done"}
    BY <1>1, <1>5, <2>1, <2>3 DEF RestoreSignal, TypeOK, CallersTypeOK
  <2>4. UNCHANGED restorePc \/ \E k \in Restorers : RestoreStep(k)
    <3>1. CASE Open \/ (\E p \in Emitters : EmitStep(p)) \/ UNCHANGED vars
             \/ (\E w \in Work : ClientSend(w) \/ ClientRespond(w) \/ ClientSignal(w))
             \/ (\E s \in Stoppers : Cancel(s) \/ Stop(s))
      BY <3>1 DEF Open, EmitStep, EmitPut, EmitReady, ClientSend, ClientRespond, ClientSignal,
         Cancel, Stop, callerVars, vars
    <3>2. CASE \E r \in Watchers : WatchBegin(r) \/ Watch(r)
      BY <3>2 DEF WatchBegin, Watch, WatchLoad, WatchSignal, WatchSnapshot, WatchHalt, WatchEvent,
         WatchEmpty, WatchSelect, callerVars
    <3> QED
      BY <3>1, <3>2 DEF Next
  <2> QED
    BY <2>2, <2>3, <2>4
<1>7. ASSUME NEW k \in Restorers PROVE ~RestoreClear(k) /\ ~Restore(k) /\ ~RestoreRepublish(k)
  BY <1>5, <1>7 DEF RestoreStep, RestoreClear, Restore, RestoreRepublish
<1> QED
  BY <1>2, <1>3, <1>4, <1>6, <1>7 DEF Caught

(* The reader itself takes from the queue only what does not satisfy it.   *)
LEMMA WatchKeepsFresh ==
  ASSUME StrandInv, NEW q \in Watchers, WatchBegin(q) \/ Watch(q), Caught,
         UNCHANGED inputEpoch, NEW r \in Watchers, Waits(r)', NEW n, n = Wants(r)'
  PROVE  Fresh(n)'
<1>1. /\ TypeOK /\ inputEpoch \in Nat /\ epoch \in Nat /\ epoch <= inputEpoch /\ HaltWaiting
      /\ OneWatcher
  BY DEF StrandInv, AckInv, TypeOK, WaiterTypeOK, LoopTypeOK, EpochsBounded
<1>2. CASE q # r
  <2>1. watchPc'[r] = watchPc[r] /\ myEpoch'[r] = myEpoch[r] /\ blocking'[r] = blocking[r]
    BY <1>1, <1>2, WatchEffect
  <2>2. Waits(r) /\ Wants(r) = n
    BY <2>1 DEF Waits, Wants
  <2>3. Active(r) /\ taken /\ ~Active(q)
    BY <1>1, <1>2, <2>2 DEF OneWatcher, Active, Waits
  <2>4. UNCHANGED eventVars
    BY <2>3 DEF WatchBegin, Watch, WatchLoad, WatchSignal, WatchSnapshot, WatchHalt, WatchEvent,
       WatchEmpty, WatchSelect, Active
  <2>5. Fresh(n)
    BY <1>1, <2>2 DEF HaltWaiting
  <2> QED
    BY <2>4, <2>5, FreshUnmoved DEF eventVars
<1>3. CASE q = r
  <2>0. watchPc \in [Watchers -> {"idle", "load", "add", "wake", "snapshot", "next", "select",
                                  "done"}] /\ myEpoch \in [Watchers -> Nat]
    BY <1>1 DEF TypeOK, WatchTypeOK
  <2>1. CASE WatchLoad(r) \/ WatchSignal(r) \/ WatchSnapshot(r) \/ WatchEmpty(r)
    <3>1. UNCHANGED <<queue, emit, blocking>>
      BY <2>1 DEF WatchLoad, WatchSignal, WatchSnapshot, WatchEmpty, eventVars
    <3>2. ~AddEpoch
      BY <1>1 DEF AddEpoch
    <3>3. Waits(r) /\ Wants(r) = n
      BY <1>1, <2>0, <2>1, <3>1, <3>2 DEF WatchLoad, WatchSignal, WatchSnapshot, WatchEmpty, GoTo, Waits,
         Wants
    <3>4. Fresh(n)
      BY <1>1, <3>3 DEF HaltWaiting
    <3> QED
      BY <3>1, <3>4, FreshUnmoved
  <2>2. CASE WatchBegin(r)
    BY <2>0, <2>2 DEF WatchBegin, Waits
  <2>3. CASE WatchSelect(r)
    <3>1. UNCHANGED <<queue, emit, blocking, myEpoch>>
      BY <2>3 DEF WatchSelect
    <3>2. Waits(r) /\ Wants(r) = n
      BY <2>0, <2>3, <3>1 DEF WatchSelect, Return, GoTo, Waits, Wants
    <3>3. Fresh(n)
      BY <1>1, <3>2 DEF HaltWaiting
    <3> QED
      BY <3>1, <3>3, FreshUnmoved
  <2>4. CASE WatchHalt(r) \/ WatchEvent(r)
    <3>1. /\ queue # <<>> /\ queue' = Tail(queue) /\ UNCHANGED <<emit, blocking, myEpoch>>
          /\ watchPc[r] = "next"
      BY <2>4 DEF WatchHalt, WatchEvent
    <3>2. watchPc'[r] = "next"
      BY <2>0, <2>4, <3>1 DEF WatchHalt, WatchEvent, Return, GoTo, Waits
    <3>3. Waits(r) /\ Wants(r) = n /\ n = myEpoch[r]
      BY <3>1, <3>2 DEF Waits, Wants
    <3>4. ~(IsHalt(Head(queue)) /\ Head(queue).epoch >= n)
      <4>1. CASE WatchEvent(r)
        BY <4>1 DEF WatchEvent
      <4>2. CASE WatchHalt(r)
        <5>1. ~Satisfies(Head(queue), r)
          BY <2>0, <3>2, <4>2 DEF WatchHalt, Return
        <5> QED
          BY <3>3, <5>1 DEF Satisfies, Waits
      <4> QED
        BY <2>4, <4>1, <4>2
    <3>5. Fresh(n)
      BY <1>1, <3>3 DEF HaltWaiting
    <3> QED
      BY <1>1, <3>1, <3>4, <3>5, FreshBehind
  <2> QED
    BY <1>3, <2>1, <2>2, <2>3, <2>4 DEF Watch
<1> QED
  BY <1>2, <1>3

LEMMA StepHaltWaiting == StrandInv /\ [Next]_vars => HaltWaiting'
<1> SUFFICES ASSUME StrandInv, [Next]_vars, Caught', NEW r \in Watchers, Waits(r)'
             PROVE  Fresh(Wants(r))'
  BY DEF HaltWaiting
<1> "loop" \in Emitters /\ "loop" \notin Restorers
  BY RunEventStreamAssumption DEF Emitters
<1>1. TypeOK /\ HaltWaiting
  BY DEF StrandInv, AckInv
<1>2. CASE Loop
  BY <1>2, LoopLeavesHalt
<1>3. CASE ~Loop
  <2>1. PICK n : n = Wants(r)'
    OBVIOUS
  <2>2. Caught /\ UNCHANGED <<inputEpoch, epoch>>
        /\ \A k \in Restorers : ~RestoreClear(k) /\ ~Restore(k) /\ ~RestoreRepublish(k)
    BY <1>3, OthersKeepCaught
  <2>3. Fresh(n)'
    <3>1. CASE \E q \in Watchers : WatchBegin(q) \/ Watch(q)
      BY <2>1, <2>2, <3>1, WatchKeepsFresh
    <3>2. ASSUME UNCHANGED <<watchPc, myEpoch, blocking>> PROVE Fresh(n)
      <4>1. Waits(r) /\ Wants(r) = n
        BY <2>1, <2>2, <3>2 DEF Waits, Wants
      <4> QED
        BY <1>1, <2>2, <4>1 DEF HaltWaiting
    <3>3. ASSUME NEW p \in Emitters, EmitStep(p) PROVE Fresh(n)'
      <4>1. UNCHANGED <<watchPc, myEpoch, blocking>>
        BY <3>3 DEF EmitStep, EmitPut, EmitReady, watchVars
      <4> QED
        BY <1>1, <3>2, <3>3, <4>1, FreshPut, FreshReady DEF EmitStep
    <3>4. CASE Open \/ UNCHANGED vars
             \/ (\E w \in Work : ClientSend(w) \/ ClientRespond(w) \/ ClientSignal(w))
             \/ (\E s \in Stoppers : Cancel(s) \/ Stop(s))
             \/ (\E k \in Restorers : RestoreSignal(k))
      <4>1. UNCHANGED <<watchPc, myEpoch, blocking, queue, emit>>
        BY <3>4 DEF Open, ClientSend, ClientRespond, ClientSignal, Cancel, Stop, RestoreSignal,
           eventVars, watchVars, vars
      <4> QED
        BY <3>2, <4>1, FreshUnmoved
    <3> QED
      BY <1>3, <2>2, <3>1, <3>3, <3>4 DEF Next, RestoreStep
  <2> QED
    BY <2>1, <2>3 DEF Fresh, IsHalt
<1> QED
  BY <1>2, <1>3

(* A watcher that does not wait for responses always finds, when the run   *)
(* loop sleeps with no signal on its way, a halt that is fresh enough.     *)
THEOREM WatchersAreServed == Spec => []NoStrandedWatcher
<1>1. Init => StrandInv
  <2> SUFFICES ASSUME Init PROVE StrandInv
    OBVIOUS
  <2>1. AckInv /\ LoopEnds
    BY AckInvInit DEF Init, LoopEnds
  <2>2. OneWatcher /\ SignalPending /\ HaltWaiting
    BY DEF Init, OneWatcher, Active, SignalPending, HaltWaiting, Caught
  <2> QED
    BY <2>1, <2>2 DEF StrandInv
<1>2. StrandInv /\ [Next]_vars => StrandInv'
  <2> SUFFICES ASSUME StrandInv, [Next]_vars PROVE StrandInv'
    OBVIOUS
  <2>1. TypeOK /\ AckInv /\ LoopEnds /\ OneWatcher /\ SignalPending
    BY DEF StrandInv, AckInv
  <2> QED
    BY <2>1, AckInvStep, StepLoopEnds, StepOneWatcher, StepSignalPending, StepHaltWaiting
    DEF StrandInv
<1>3. StrandInv => NoStrandedWatcher
  <2> SUFFICES ASSUME StrandInv, NEW r \in Watchers,
                      watchPc[r] \in {"next", "select"}, ~blocking[r], myEpoch[r] > 0,
                      loopPc = "wait", Idle("loop"), ~cancelled, ~signal, ~Waking,
                      \A k \in Restorers : restorePc[k] \in {"idle", "done"}
               PROVE  \E i \in 1..Len(queue) : IsHalt(queue[i]) /\ queue[i].epoch >= myEpoch[r]
    BY DEF NoStrandedWatcher
  <2>1. epoch = inputEpoch
    BY DEF StrandInv, SignalPending
  <2>2. Caught /\ Waits(r) /\ Wants(r) = myEpoch[r]
    BY <2>1 DEF Caught, Waits, Wants
  <2>3. Fresh(myEpoch[r])
    BY <2>2 DEF StrandInv, HaltWaiting
  <2> QED
    BY <2>3 DEF Fresh, Idle
<1> QED
  BY <1>1, <1>2, <1>3, PTL DEF Spec

=============================================================================
