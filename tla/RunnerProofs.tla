------------------------------ MODULE RunnerProofs ------------------------------
(* Proofs about Runner, for any executors, messages, requests and bounds.  *)
EXTENDS Runner, FiniteSetTheorems, TLAPS

\* The types of the state, part by part.
StepType ==
  /\ nextStep \in Messages /\ current \in Messages
  /\ busy \in [Executors -> [id : Ids, made : SUBSET Ids] \cup {None}] /\ failed \in BOOLEAN
ReqType ==
  /\ pending \in SUBSET Requests /\ owner \in [Requests -> Executors \cup {None}]
  /\ \A r \in pending : owner[r] # None
  /\ portOwner \in Executors \cup {None}
States == [Mgr!Cells -> (SUBSET Marks) \cup {None}]
StateType ==
  /\ scopes \in States
  /\ queued \in [Executors -> [Mgr!Cells -> (SUBSET Marks) \cup {None, Unqueued}]]
CpType == checkpoints \in Seq(CheckpointType) /\ last \in 0 .. Len(checkpoints)
Delivery == [id : Inputs \cup Requests, port : BOOLEAN]
RestType ==
  /\ offThread \in BOOLEAN /\ deliveries \in Seq(Delivery)
  /\ phase \in {"idle", "advancing", "delivering", "ended"} /\ loopAlive \in BOOLEAN
  /\ minted \in SUBSET Ids /\ posted \in [Requests -> Executors \cup {None}]

\* A request in a checkpoint has an owner too.
OwnedInCheckpoints ==
  \A n \in 1 .. Len(checkpoints) : \A r \in checkpoints[n].pending : checkpoints[n].owner[r] # None

TInv == TypeOK /\ OwnedInCheckpoints

LEMMA TypeParts == TypeOK <=> StepType /\ ReqType /\ StateType /\ CpType /\ RestType
  BY DEF TypeOK, StepType, ReqType, StateType, CpType, RestType, States, Delivery

LEMMA TypePartsNext == TypeOK' <=> StepType' /\ ReqType' /\ StateType' /\ CpType' /\ RestType'
  BY DEF TypeOK, StepType, ReqType, StateType, CpType, RestType, States, Delivery

\* The cells of the state: a log for each executor, and the shared one.
LEMMA Cells ==
  /\ Mgr!Cells = (Executors \cup {Shared}) \X {Log}
  /\ \A e \in Executors : <<e, Log>> \in Mgr!Cells /\ <<e, Log>> # <<Shared, Log>>
  /\ <<Shared, Log>> \in Mgr!Cells
  BY RunnerNames DEF Mgr!Cells, Mgr!Scopes

\* An empty queue for everybody.
LEMMA NothingQueued == NoMessages \in Messages
  BY DEF NoMessages, Messages

LEMMA TypeInit == Init => TInv
<1> SUFFICES ASSUME Init PROVE TInv
  OBVIOUS
<1>1. StepType
  BY NothingQueued DEF Init, StepType
<1>2. ReqType
  BY DEF Init, ReqType
<1>3. StateType
  <2>1. scopes = [c \in Mgr!Cells |-> None] /\ queued = [e \in Executors |-> [c \in Mgr!Cells |-> Unqueued]]
    BY DEF Init, Mgr!Init
  <2>2. scopes \in States
    BY <2>1 DEF States
  <2>3. [c \in Mgr!Cells |-> Unqueued] \in [Mgr!Cells -> (SUBSET Marks) \cup {None, Unqueued}]
    OBVIOUS
  <2> QED
    BY <2>1, <2>2, <2>3 DEF StateType
<1>4. CpType /\ Len(checkpoints) = 0
  BY DEF Init, CpType
<1>5. RestType
  BY DEF Init, RestType
<1> QED
  BY <1>1, <1>2, <1>3, <1>4, <1>5, TypeParts DEF TInv, OwnedInCheckpoints

\* A queue with one more message.
LEMMA OneMore ==
  ASSUME NEW f \in Messages, NEW e \in Executors, NEW m \in Ids
  PROVE  [f EXCEPT ![e] = Append(@, m)] \in Messages
<1>1. f \in [Executors -> Seq(Ids)]
  BY DEF Messages
<1>2. Append(f[e], m) \in Seq(Ids)
  BY <1>1
<1> QED
  BY <1>1, <1>2 DEF Messages

\* The head and the rest of the deliveries.
LEMMA HeadDelivered ==
  ASSUME RestType, deliveries # <<>>
  PROVE  Head(deliveries) \in Delivery /\ Tail(deliveries) \in Seq(Delivery)
  BY DEF RestType

LEMMA ClientType ==
  ASSUME TInv, \/ \E i \in Inputs : EnqueueMessage(i)
               \/ \E r \in Requests, port \in BOOLEAN : EnqueueResponse(r, port)
               \/ Close
  PROVE  TInv'
<1>1. StepType /\ ReqType /\ StateType /\ CpType /\ RestType
  BY TypeParts DEF TInv
<1>2. UNCHANGED <<stepVars, reqVars, stateVars, cpVars>>
  BY DEF EnqueueMessage, EnqueueResponse, Close
<1>3. StepType' /\ ReqType' /\ StateType' /\ CpType' /\ OwnedInCheckpoints'
  BY <1>1, <1>2 DEF StepType, ReqType, StateType, CpType, OwnedInCheckpoints, TInv, stepVars, reqVars,
                    stateVars, cpVars
<1>4. RestType'
  <2>1. CASE \E i \in Inputs : EnqueueMessage(i)
    <3>1. PICK i \in Inputs : EnqueueMessage(i)
      BY <2>1
    <3>2. [id |-> i, port |-> TRUE] \in Delivery /\ i \in Ids
      BY DEF Delivery, Ids
    <3> QED
      BY <1>1, <3>1, <3>2 DEF EnqueueMessage, RestType
  <2>2. CASE \E r \in Requests, port \in BOOLEAN : EnqueueResponse(r, port)
    <3>1. PICK r \in Requests, port \in BOOLEAN : EnqueueResponse(r, port)
      BY <2>2
    <3>2. [id |-> r, port |-> port] \in Delivery
      BY DEF Delivery
    <3> QED
      BY <1>1, <3>1, <3>2 DEF EnqueueResponse, RestType, histVars
  <2>3. CASE Close
    BY <1>1, <2>3 DEF Close, RestType, histVars
  <2> QED
    BY <2>1, <2>2, <2>3
<1> QED
  BY <1>3, <1>4, TypePartsNext DEF TInv

LEMMA AdvanceType ==
  ASSUME TInv, BeginStep \/ DeliverInput \/ DeliverResponse \/ RejectResponse \/ Swap \/ StepFails
  PROVE  TInv'
<1>1. StepType /\ ReqType /\ StateType /\ CpType /\ RestType
  BY TypeParts DEF TInv
<1>2. UNCHANGED <<stateVars, cpVars>>
  BY DEF BeginStep, DeliverInput, DeliverResponse, RejectResponse, Swap, StepFails
<1>3. StateType' /\ CpType' /\ OwnedInCheckpoints'
  BY <1>1, <1>2 DEF StateType, CpType, OwnedInCheckpoints, TInv, stateVars, cpVars
<1>4. CASE BeginStep
  BY <1>1, <1>3, <1>4, TypePartsNext
     DEF BeginStep, StepType, ReqType, RestType, TInv, stepVars, reqVars, histVars
<1>5. CASE Swap
  BY <1>1, <1>3, <1>5, TypePartsNext, NothingQueued
     DEF Swap, StepType, ReqType, RestType, TInv, reqVars, histVars
<1>6. CASE StepFails
  BY <1>1, <1>3, <1>6, TypePartsNext
     DEF StepFails, StepError, StepType, ReqType, RestType, TInv, stepVars, reqVars, histVars
<1>7. CASE RejectResponse
  BY <1>1, <1>3, <1>7, TypePartsNext, HeadDelivered
     DEF RejectResponse, AdvanceError, StepType, ReqType, RestType, TInv, stepVars, reqVars, histVars
<1>8. CASE DeliverInput
  <2>1. nextStep' \in Messages
    BY <1>1, <1>8, OneMore, RunnerAssumption DEF DeliverInput, StepType, Ids
  <2> QED
    BY <1>1, <1>3, <1>8, <2>1, TypePartsNext, HeadDelivered
       DEF DeliverInput, StepType, ReqType, RestType, TInv, reqVars, histVars
<1>9. CASE DeliverResponse
  <2> DEFINE r == Head(deliveries).id
  <2>1. r \in pending /\ nextStep' = [nextStep EXCEPT ![Receiver(r)] = Append(@, r)] /\ Complete(r)
    BY <1>9 DEF DeliverResponse
  <2>2. r \in Requests /\ r \in Ids /\ Receiver(r) \in Executors
    BY <1>1, <2>1 DEF ReqType, Receiver, Ids
  <2>3. nextStep' \in Messages
    BY <1>1, <2>1, <2>2, OneMore DEF StepType
  <2>4. ReqType'
    BY <1>1, <1>9, <2>1, <2>2 DEF DeliverResponse, Complete, ReqType
  <2> QED
    BY <1>1, <1>3, <1>9, <2>3, <2>4, TypePartsNext, HeadDelivered
       DEF DeliverResponse, StepType, RestType, TInv, histVars
<1> QED
  BY <1>4, <1>5, <1>6, <1>7, <1>8, <1>9

\* A handler's steps, but for its return.
LEMMA HandlerType ==
  ASSUME TInv, NEW e \in Executors,
         \/ Take(e) \/ Fail(e)
         \/ \E m \in Sends, to \in Executors : Send(e, m, to)
         \/ \E r \in Requests : Post(e, r)
  PROVE  TInv'
<1>1. StepType /\ ReqType /\ StateType /\ CpType /\ RestType
  BY TypeParts DEF TInv
<1>2. UNCHANGED <<stateVars, cpVars>>
  BY DEF Take, Fail, Send, Post
<1>3. StateType' /\ CpType' /\ OwnedInCheckpoints'
  BY <1>1, <1>2 DEF StateType, CpType, OwnedInCheckpoints, TInv, stateVars, cpVars
<1>4. current \in [Executors -> Seq(Ids)]
  BY <1>1 DEF StepType, Messages
<1>5. CASE Take(e)
  <2>1. current[e] \in Seq(Ids) /\ current[e] # <<>>
    BY <1>4, <1>5 DEF Take
  <2>2. Head(current[e]) \in Ids /\ Tail(current[e]) \in Seq(Ids)
    BY <2>1
  <2>3. current' \in Messages
    BY <1>4, <1>5, <2>2 DEF Take, Messages
  <2>4. busy' \in [Executors -> [id : Ids, made : SUBSET Ids] \cup {None}]
    BY <1>1, <1>5, <2>2 DEF Take, StepType
  <2> QED
    BY <1>1, <1>3, <1>5, <2>3, <2>4, TypePartsNext DEF Take, StepType, ReqType, RestType, TInv, reqVars, histVars
<1>6. CASE Fail(e)
  <2>1. current' \in Messages
    <3> DEFINE nothing == <<>>
    <3>1. nothing \in Seq(Ids)
      OBVIOUS
    <3>2. current' = [current EXCEPT ![e] = nothing]
      BY <1>6 DEF Fail
    <3> HIDE DEF nothing
    <3> QED
      BY <1>4, <3>1, <3>2 DEF Messages
  <2> QED
    BY <1>1, <1>3, <1>6, <2>1, TypePartsNext DEF Fail, StepType, ReqType, RestType, TInv, reqVars, histVars
<1>7. ASSUME NEW m \in Ids, Handling(e), busy' = [busy EXCEPT ![e].made = @ \cup {m}]
      PROVE  busy' \in [Executors -> [id : Ids, made : SUBSET Ids] \cup {None}]
  <2>1. busy[e] \in [id : Ids, made : SUBSET Ids]
    BY <1>1, <1>7 DEF Handling, StepType
  <2>2. [busy[e] EXCEPT !.made = @ \cup {m}] \in [id : Ids, made : SUBSET Ids]
    BY <2>1
  <2> QED
    BY <1>1, <1>7, <2>2 DEF StepType
<1>8. CASE \E m \in Sends, to \in Executors : Send(e, m, to)
  <2>1. PICK m \in Sends, to \in Executors : Send(e, m, to)
    BY <1>8
  <2>2. m \in Ids
    BY DEF Ids
  <2>3. nextStep' \in Messages
    BY <1>1, <2>1, <2>2, OneMore DEF Send, StepType
  <2>4. busy' \in [Executors -> [id : Ids, made : SUBSET Ids] \cup {None}]
    BY <1>7, <2>1, <2>2 DEF Send
  <2> QED
    BY <1>1, <1>3, <2>1, <2>2, <2>3, <2>4, TypePartsNext DEF Send, StepType, ReqType, RestType, TInv, reqVars
<1>9. CASE \E r \in Requests : Post(e, r)
  <2>1. PICK r \in Requests : Post(e, r)
    BY <1>9
  <2>2. r \in Ids
    BY DEF Ids
  <2>3. busy' \in [Executors -> [id : Ids, made : SUBSET Ids] \cup {None}]
    BY <1>7, <2>1, <2>2 DEF Post
  <2>4. ReqType'
    BY <1>1, <2>1, RunnerNames DEF Post, ReqType
  <2> QED
    BY <1>1, <1>3, <2>1, <2>2, <2>3, <2>4, TypePartsNext DEF Post, StepType, RestType, TInv
<1> QED
  BY <1>5, <1>6, <1>8, <1>9

\* What an executor sees in its log.
LEMMA ViewType ==
  ASSUME StateType, NEW e \in Executors
  PROVE  /\ View(e) \subseteq Marks
         /\ View(e) = IF queued[e][<<e, Log>>] \notin {Unqueued, None} THEN queued[e][<<e, Log>>]
                      ELSE IF queued[e][<<e, Log>>] = Unqueued THEN LogOf(scopes, e) ELSE {}
<1>1. <<e, Log>> \in Mgr!Cells
  BY Cells
<1>2. /\ scopes[<<e, Log>>] \in (SUBSET Marks) \cup {None}
      /\ queued[e][<<e, Log>>] \in (SUBSET Marks) \cup {None, Unqueued}
  BY <1>1 DEF StateType, States
<1> QED
  BY <1>2, RunnerNames DEF View, Mgr!ReadState, Mgr!IsQueued, LogOf

\* What is queued, and the rest of the queue.
LEMMA QueueWrite ==
  ASSUME StateType, NEW e \in Executors, NEW c \in Mgr!Cells, NEW v \in SUBSET Marks, Mgr!WriteState(e, c, v)
  PROVE  /\ StateType' /\ scopes' = scopes
         /\ queued' = [queued EXCEPT ![e][c] = v]
         /\ \A f \in Executors, d \in Mgr!Cells :
              queued'[f][d] = IF f = e /\ d = c THEN v ELSE queued[f][d]
<1>1. queued' = [queued EXCEPT ![e][c] = v] /\ scopes' = scopes
  BY DEF Mgr!WriteState
<1>2. queued' \in [Executors -> [Mgr!Cells -> (SUBSET Marks) \cup {None, Unqueued}]]
  BY <1>1 DEF StateType
<1>3. \A f \in Executors, d \in Mgr!Cells : queued'[f][d] = IF f = e /\ d = c THEN v ELSE queued[f][d]
  BY <1>1 DEF StateType
<1> QED
  BY <1>1, <1>2, <1>3 DEF StateType

\* The value a handler that returns writes into its log.
Logged(e) == View(e) \cup {<<"did", busy[e].id>>} \cup {<<"made", m>> : m \in busy[e].made}

LEMMA LoggedType ==
  ASSUME StepType, StateType, NEW e \in Executors, Handling(e)
  PROVE  Logged(e) \in SUBSET Marks
<1>1. busy[e] \in [id : Ids, made : SUBSET Ids]
  BY DEF Handling, StepType
<1>2. View(e) \subseteq Marks
  BY ViewType
<1> QED
  BY <1>1, <1>2 DEF Logged, Marks

LEMMA WriteType ==
  ASSUME TInv, NEW e \in Executors, Return(e) \/ WriteShared(e) PROVE TInv'
<1>1. StepType /\ ReqType /\ StateType /\ CpType /\ RestType
  BY TypeParts DEF TInv
<1>2. UNCHANGED <<reqVars, cpVars, nextStep, current, failed>> /\ UNCHANGED <<offThread, deliveries, phase, loopAlive, histVars>>
  BY DEF Return, WriteShared, stepVars
<1>3. ReqType' /\ CpType' /\ RestType' /\ OwnedInCheckpoints'
  BY <1>1, <1>2 DEF ReqType, CpType, RestType, OwnedInCheckpoints, TInv, reqVars, cpVars, histVars
<1>4. CASE Return(e)
  <2>1. Mgr!WriteState(e, <<e, Log>>, Logged(e)) /\ Handling(e)
    BY <1>4 DEF Return, Logged
  <2>2. StateType'
    BY <1>1, <2>1, LoggedType, QueueWrite, Cells
  <2>3. StepType'
    BY <1>1, <1>2, <1>4 DEF Return, StepType
  <2> QED
    BY <1>3, <2>2, <2>3, TypePartsNext DEF TInv
<1>5. CASE WriteShared(e)
  <2>1. Mgr!WriteState(e, <<Shared, Log>>, {})
    BY <1>5 DEF WriteShared
  <2>2. StateType'
    <3>1. {} \in SUBSET Marks
      OBVIOUS
    <3> QED
      BY <1>1, <2>1, <3>1, QueueWrite, Cells
  <2>3. StepType'
    BY <1>1, <1>5 DEF WriteShared, StepType, stepVars
  <2> QED
    BY <1>3, <2>2, <2>3, TypePartsNext DEF TInv
<1> QED
  BY <1>4, <1>5

\* Published updates are what was queued or published before.
LEMMA AppliedType ==
  ASSUME StateType, NEW D
  PROVE  /\ Mgr!Applied(D) \in States
         /\ \A c \in Mgr!Cells :
              \/ Mgr!Applied(D)[c] = scopes[c]
              \/ \E e \in Executors : queued[e][c] # Unqueued /\ Mgr!Applied(D)[c] = queued[e][c]
<1>1. ASSUME NEW c \in Mgr!Cells
      PROVE  /\ Mgr!Applied(D)[c] \in (SUBSET Marks) \cup {None}
             /\ \/ Mgr!Applied(D)[c] = scopes[c]
                \/ \E e \in Executors : queued[e][c] # Unqueued /\ Mgr!Applied(D)[c] = queued[e][c]
  <2>1. CASE c \in D /\ \E e \in Executors : Mgr!IsQueued(e, c)
    <3> DEFINE f == CHOOSE e \in Executors : Mgr!IsQueued(e, c)
    <3>1. f \in Executors /\ Mgr!IsQueued(f, c)
      BY <2>1
    <3>2. Mgr!Applied(D)[c] = queued[f][c]
      BY <1>1, <2>1 DEF Mgr!Applied
    <3> HIDE DEF f
    <3>3. queued[f][c] \in (SUBSET Marks) \cup {None, Unqueued} /\ queued[f][c] # Unqueued
      BY <1>1, <3>1 DEF StateType, Mgr!IsQueued
    <3> QED
      BY <3>1, <3>2, <3>3
  <2>2. CASE ~(c \in D /\ \E e \in Executors : Mgr!IsQueued(e, c))
    <3>1. Mgr!Applied(D)[c] = scopes[c]
      BY <1>1, <2>2 DEF Mgr!Applied
    <3> QED
      BY <1>1, <3>1 DEF StateType, States
  <2> QED
    BY <2>1, <2>2
<1>2. Mgr!Applied(D) \in States
  BY <1>1 DEF Mgr!Applied, States
<1> QED
  BY <1>1, <1>2

\* What a superstep's end does to the state.
LEMMA Published ==
  ASSUME StateType, Checkpoint \/ CheckpointContested \/ CheckpointNotCommitted
  PROVE  /\ \E D : scopes' = Mgr!Applied(D)
         /\ queued' = queued \/ queued' = [e \in Executors |-> [c \in Mgr!Cells |-> Unqueued]]
         /\ StateType'
<1>1. /\ \E D : scopes' = Mgr!Applied(D)
      /\ queued' = queued \/ queued' = [e \in Executors |-> [c \in Mgr!Cells |-> Unqueued]]
  BY DEF Checkpoint, CheckpointContested, CheckpointNotCommitted, Mgr!PublishUpdates, Mgr!PublishUpdatesFails
<1>2. [c \in Mgr!Cells |-> Unqueued] \in [Mgr!Cells -> (SUBSET Marks) \cup {None, Unqueued}]
  OBVIOUS
<1>3. StateType'
  BY <1>1, <1>2, AppliedType DEF StateType
<1> QED
  BY <1>1, <1>3

\* What a checkpoint holds of the run is of a checkpoint's type.
LEMMA ExportedType ==
  ASSUME StepType, ReqType, StateType', CpType
  PROVE  /\ Exported \in CheckpointType
         /\ \A r \in Exported.pending : Exported.owner[r] # None
<1>1. /\ scopes' \in [Mgr!Cells -> (SUBSET Marks) \cup {None}]
      /\ nextStep \in Messages /\ pending \in SUBSET Requests
      /\ owner \in [Requests -> Executors \cup {None}] /\ portOwner \in Executors \cup {None}
      /\ last \in Nat
  BY DEF StepType, ReqType, StateType, States, CpType
<1>2. Exported \in CheckpointType
  BY <1>1 DEF Exported, CheckpointType
<1>3. Exported.pending = pending /\ Exported.owner = owner
  BY DEF Exported
<1> QED
  BY <1>2, <1>3 DEF ReqType

\* The checkpoints after one more.
LEMMA OneMoreCheckpoint ==
  ASSUME CpType, NEW c \in CheckpointType, checkpoints' = Append(checkpoints, c)
  PROVE  /\ checkpoints' \in Seq(CheckpointType)
         /\ Len(checkpoints) \in Nat /\ Len(checkpoints') = Len(checkpoints) + 1
         /\ \A n \in 1 .. Len(checkpoints) : checkpoints'[n] = checkpoints[n] /\ n \in 1 .. Len(checkpoints')
         /\ checkpoints'[Len(checkpoints')] = c
         /\ \A n \in 1 .. Len(checkpoints') : n \in 1 .. Len(checkpoints) \/ n = Len(checkpoints')
  BY DEF CpType

LEMMA CheckpointStepType ==
  ASSUME TInv, Checkpoint \/ CheckpointContested \/ CheckpointNotCommitted
  PROVE  TInv'
<1>1. StepType /\ ReqType /\ StateType /\ CpType /\ RestType
  BY TypeParts DEF TInv
<1>2. StateType'
  BY <1>1, Published
<1>3. StepType' /\ ReqType' /\ RestType'
  BY <1>1 DEF Checkpoint, CheckpointContested, CheckpointNotCommitted, StepError, StepType, ReqType,
              RestType, stepVars, reqVars, histVars
<1>4. CASE Checkpoint
  <2>1. /\ Exported \in CheckpointType
        /\ \A r \in Exported.pending : Exported.owner[r] # None
    BY <1>1, <1>2, ExportedType
  <2>2. checkpoints' = Append(checkpoints, Exported) /\ last' = Len(checkpoints')
    BY <1>4 DEF Checkpoint
  <2> DEFINE c == Exported
  <2> HIDE DEF c
  <2>3. /\ c \in CheckpointType /\ checkpoints' = Append(checkpoints, c)
        /\ \A r \in c.pending : c.owner[r] # None
    BY <2>1, <2>2 DEF c
  <2>4. CpType'
    BY <1>1, <2>2, <2>3, OneMoreCheckpoint DEF CpType
  <2>5. OwnedInCheckpoints'
    BY <1>1, <2>3, OneMoreCheckpoint DEF OwnedInCheckpoints, TInv
  <2> QED
    BY <1>2, <1>3, <2>4, <2>5, TypePartsNext DEF TInv
<1>5. CASE CheckpointContested \/ CheckpointNotCommitted
  <2>1. CpType' /\ OwnedInCheckpoints'
    BY <1>1, <1>5 DEF CheckpointContested, CheckpointNotCommitted, CpType, OwnedInCheckpoints, TInv, cpVars
  <2> QED
    BY <1>2, <1>3, <2>1, TypePartsNext DEF TInv
<1> QED
  BY <1>4, <1>5

\* What the run becomes from a checkpoint.
LEMMA Imported ==
  ASSUME CpType, OwnedInCheckpoints, NEW n \in 1 .. Len(checkpoints), Import(n), checkpoints' = checkpoints
  PROVE  /\ scopes' \in States /\ nextStep' \in Messages /\ deliveries' \in Seq(Delivery)
         /\ ReqType' /\ CpType' /\ OwnedInCheckpoints'
<1>1. checkpoints[n] \in CheckpointType
  BY DEF CpType
<1>2. /\ checkpoints[n].state \in States /\ checkpoints[n].messages \in Messages
      /\ checkpoints[n].pending \in SUBSET Requests
      /\ checkpoints[n].owner \in [Requests -> Executors \cup {None}]
      /\ checkpoints[n].portOwner \in Executors \cup {None}
  BY <1>1 DEF CheckpointType, States
<1>3. \A r \in checkpoints[n].pending : checkpoints[n].owner[r] # None
  BY DEF OwnedInCheckpoints
<1>4. ReqType'
  BY <1>2, <1>3 DEF Import, ReqType
<1>5. CpType' /\ OwnedInCheckpoints'
  BY DEF Import, CpType, OwnedInCheckpoints
<1>6. deliveries' \in Seq(Delivery)
  BY DEF Import
<1> QED
  BY <1>2, <1>4, <1>5, <1>6 DEF Import

LEMMA RestoreType ==
  ASSUME TInv, NEW n \in 1 .. Len(checkpoints), Restore(n) \/ Resume(n)
  PROVE  TInv'
<1>1. StepType /\ ReqType /\ StateType /\ CpType /\ RestType
  BY TypeParts DEF TInv
<1>2. Import(n) /\ checkpoints' = checkpoints
  BY DEF Restore, Resume
<1>3. /\ scopes' \in States /\ nextStep' \in Messages /\ deliveries' \in Seq(Delivery)
      /\ ReqType' /\ CpType' /\ OwnedInCheckpoints'
  BY <1>1, <1>2, Imported DEF TInv
<1>4. CASE Restore(n)
  <2>1. queued' = queued
    BY <1>4 DEF Restore, Mgr!ImportState
  <2>2. StateType'
    BY <1>1, <1>3, <2>1 DEF StateType
  <2>3. StepType' /\ RestType'
    BY <1>1, <1>3, <1>4 DEF Restore, StepType, RestType, histVars
  <2> QED
    BY <1>3, <2>2, <2>3, TypePartsNext DEF TInv
<1>5. CASE Resume(n)
  <2>1. [c \in Mgr!Cells |-> Unqueued] \in [Mgr!Cells -> (SUBSET Marks) \cup {None, Unqueued}]
    OBVIOUS
  <2>2. StateType'
    BY <1>3, <1>5, <2>1 DEF Resume, StateType
  <2>3. current' \in Messages
    BY <1>5, NothingQueued DEF Resume
  <2>4. StepType' /\ RestType'
    BY <1>1, <1>3, <1>5, <2>3 DEF Resume, StepType, RestType, histVars
  <2> QED
    BY <1>3, <2>2, <2>4, TypePartsNext DEF TInv
<1> QED
  BY <1>4, <1>5

LEMMA TypeStep == TInv /\ [Next]_vars => TInv'
<1> SUFFICES ASSUME TInv, [Next]_vars PROVE TInv'
  OBVIOUS
<1>1. CASE Client
  BY <1>1, ClientType, RestoreType DEF Client
<1>2. CASE Loop
  BY <1>2, AdvanceType, CheckpointStepType DEF Loop
<1>3. CASE \E e \in Executors : Handler(e)
  <2>1. PICK e \in Executors : Handler(e)
    BY <1>3
  <2> QED
    BY <2>1, HandlerType, WriteType DEF Handler
<1>4. CASE UNCHANGED vars
  <2>1. UNCHANGED <<offThread, deliveries, stepVars, reqVars, phase, loopAlive, cpVars, stateVars, histVars>>
    BY <1>4 DEF vars
  <2>2. TypeOK'
    BY <2>1 DEF TInv, TypeOK, stepVars, reqVars, cpVars, stateVars, histVars
  <2> QED
    BY <2>1, <2>2 DEF TInv, OwnedInCheckpoints, cpVars
<1> QED
  BY <1>1, <1>2, <1>3, <1>4 DEF Next

\* The state is of its types, and a request that is pending, or pending in a
\* checkpoint, has an executor that its response can be delivered to.
THEOREM RunTypes == Spec => []TypeOK
<1>1. Init => TInv
  BY TypeInit
<1>2. TInv /\ [Next]_vars => TInv'
  BY TypeStep
<1>3. TInv => TypeOK
  BY DEF TInv
<1> QED
  BY <1>1, <1>2, <1>3, PTL DEF Spec

-----------------------------------------------------------------------------
(* Logs are only their executors', and they only grow                      *)

\* Nobody queues an update of another executor's log, and what an executor has
\* queued for its own contains what is published of it.
QueueInv ==
  \A e \in Executors :
    /\ \A f \in Executors : f # e => queued[f][<<e, Log>>] = Unqueued
    /\ queued[e][<<e, Log>>] # Unqueued =>
         queued[e][<<e, Log>>] # None /\ LogOf(scopes, e) \subseteq queued[e][<<e, Log>>]

\* What publishing does to a log.
LEMMA PublishedLog ==
  ASSUME StateType, QueueInv, NEW D, scopes' = Mgr!Applied(D), NEW e \in Executors
  PROVE  /\ LogOf(scopes, e) \subseteq LogOf(scopes', e)
         /\ \/ LogOf(scopes', e) = LogOf(scopes, e)
            \/ queued[e][<<e, Log>>] \notin {Unqueued, None} /\ LogOf(scopes', e) = queued[e][<<e, Log>>]
<1>1. <<e, Log>> \in Mgr!Cells
  BY Cells
<1>2. CASE scopes'[<<e, Log>>] = scopes[<<e, Log>>]
  BY <1>2 DEF LogOf
<1>3. CASE scopes'[<<e, Log>>] # scopes[<<e, Log>>]
  <2>1. PICK f \in Executors : queued[f][<<e, Log>>] # Unqueued /\ scopes'[<<e, Log>>] = queued[f][<<e, Log>>]
    BY <1>1, <1>3, AppliedType
  <2>2. f = e
    BY <2>1 DEF QueueInv
  <2>3. queued[e][<<e, Log>>] # None /\ LogOf(scopes, e) \subseteq queued[e][<<e, Log>>]
    BY <2>1, <2>2 DEF QueueInv
  <2> QED
    BY <2>1, <2>2, <2>3 DEF LogOf
<1> QED
  BY <1>2, <1>3

\* Nothing is queued.
LEMMA NoneQueued ==
  ASSUME StateType, \A e \in Executors, c \in Mgr!Cells : queued[e][c] = Unqueued PROVE QueueInv
  BY Cells DEF QueueInv

LEMMA QueueInit == Init => QueueInv
<1> SUFFICES ASSUME Init PROVE QueueInv
  OBVIOUS
<1>1. queued = [e \in Executors |-> [c \in Mgr!Cells |-> Unqueued]]
  BY DEF Init, Mgr!Init
<1>2. StateType
  BY TypeInit, TypeParts DEF TInv
<1> QED
  BY <1>1, <1>2, NoneQueued

\* The steps that write state.
LEMMA QueueWriter ==
  ASSUME TInv, QueueInv, NEW e \in Executors, Return(e) \/ WriteShared(e) PROVE QueueInv'
<1>1. StepType /\ StateType
  BY TypeParts DEF TInv
<1>2. CASE Return(e)
  <2>1. Mgr!WriteState(e, <<e, Log>>, Logged(e)) /\ Handling(e)
    BY <1>2 DEF Return, Logged
  <2>2. /\ scopes' = scopes
        /\ \A f \in Executors, d \in Mgr!Cells :
             queued'[f][d] = IF f = e /\ d = <<e, Log>> THEN Logged(e) ELSE queued[f][d]
    <3>1. Logged(e) \in SUBSET Marks /\ <<e, Log>> \in Mgr!Cells
      BY <1>1, <2>1, LoggedType, Cells
    <3> QED
      BY <1>1, <2>1, <3>1, QueueWrite
  <2>3. LogOf(scopes, e) \subseteq Logged(e) /\ Logged(e) \in SUBSET Marks
    <3>1. LogOf(scopes, e) \subseteq View(e)
      BY <1>1, ViewType DEF QueueInv
    <3> QED
      BY <1>1, <2>1, <3>1, LoggedType DEF Logged
  <2>4. Logged(e) # None
    BY <2>3, RunnerNames
  <2> SUFFICES ASSUME NEW x \in Executors
               PROVE  /\ \A f \in Executors : f # x => queued'[f][<<x, Log>>] = Unqueued
                      /\ queued'[x][<<x, Log>>] # Unqueued =>
                           queued'[x][<<x, Log>>] # None /\ LogOf(scopes', x) \subseteq queued'[x][<<x, Log>>]
    BY DEF QueueInv
  <2>5. <<x, Log>> \in Mgr!Cells /\ (<<x, Log>> = <<e, Log>> => x = e)
    BY Cells
  <2> QED
    BY <2>2, <2>3, <2>4, <2>5 DEF QueueInv
<1>3. CASE WriteShared(e)
  <2>1. Mgr!WriteState(e, <<Shared, Log>>, {})
    BY <1>3 DEF WriteShared
  <2>2. /\ scopes' = scopes
        /\ \A f \in Executors, d \in Mgr!Cells : d # <<Shared, Log>> => queued'[f][d] = queued[f][d]
    <3>1. {} \in SUBSET Marks
      OBVIOUS
    <3> QED
      BY <1>1, <2>1, <3>1, QueueWrite, Cells
  <2> QED
    BY <2>2, Cells DEF QueueInv
<1> QED
  BY <1>2, <1>3

LEMMA QueueStep == TInv /\ QueueInv /\ [Next]_vars => QueueInv'
<1> SUFFICES ASSUME TInv, QueueInv, [Next]_vars PROVE QueueInv'
  OBVIOUS
<1>1. StateType /\ StateType'
  BY TypeStep, TypeParts, TypePartsNext DEF TInv
<1>2. ASSUME UNCHANGED stateVars PROVE QueueInv'
  BY <1>2 DEF QueueInv, stateVars
<1>3. CASE Client
  <2>1. CASE \E n \in 1 .. Len(checkpoints) : Restore(n)
    <3>1. \A e \in Executors, c \in Mgr!Cells : queued'[e][c] = Unqueued
      BY <2>1 DEF Restore, Mgr!ImportState, Mgr!Queued, Mgr!IsQueued
    <3> QED
      BY <1>1, <3>1, Cells DEF QueueInv
  <2>2. CASE \E n \in 1 .. Len(checkpoints) : Resume(n)
    <3>1. \A e \in Executors, c \in Mgr!Cells : queued'[e][c] = Unqueued
      BY <2>2 DEF Resume
    <3> QED
      BY <1>1, <3>1, Cells DEF QueueInv
  <2>3. CASE \/ \E i \in Inputs : EnqueueMessage(i)
             \/ \E r \in Requests, port \in BOOLEAN : EnqueueResponse(r, port)
             \/ Close
    BY <1>2, <2>3 DEF EnqueueMessage, EnqueueResponse, Close
  <2> QED
    BY <1>3, <2>1, <2>2, <2>3 DEF Client
<1>4. CASE Loop
  <2>1. CASE BeginStep \/ DeliverInput \/ DeliverResponse \/ RejectResponse \/ Swap \/ StepFails
    BY <1>2, <2>1 DEF BeginStep, DeliverInput, DeliverResponse, RejectResponse, Swap, StepFails
  <2>2. CASE Checkpoint \/ CheckpointContested \/ CheckpointNotCommitted
    <3>1. PICK D : scopes' = Mgr!Applied(D)
      BY <1>1, <2>2, Published
    <3>2. CASE queued' = queued
      BY <1>1, <3>1, <3>2, PublishedLog DEF QueueInv
    <3>3. CASE queued' = [e \in Executors |-> [c \in Mgr!Cells |-> Unqueued]]
      BY <1>1, <3>3, Cells DEF QueueInv
    <3> QED
      BY <1>1, <2>2, <3>2, <3>3, Published
  <2> QED
    BY <1>4, <2>1, <2>2 DEF Loop
<1>5. CASE \E e \in Executors : Handler(e)
  <2>1. PICK e \in Executors : Handler(e)
    BY <1>5
  <2>2. CASE \/ Take(e) \/ Fail(e)
             \/ \E m \in Sends, to \in Executors : Send(e, m, to)
             \/ \E r \in Requests : Post(e, r)
    BY <1>2, <2>2 DEF Take, Fail, Send, Post
  <2> QED
    BY <2>1, <2>2, QueueWriter DEF Handler
<1>6. CASE UNCHANGED vars
  BY <1>2, <1>6 DEF vars
<1> QED
  BY <1>3, <1>4, <1>5, <1>6 DEF Next

-----------------------------------------------------------------------------
(* A checkpoint's parent is an earlier state of the same history           *)

\* The run's state comes after the last checkpoint's, its own or the one that
\* it was restored from.
AfterLast ==
  last # 0 => \A e \in Executors : LogOf(checkpoints[last].state, e) \subseteq LogOf(scopes, e)

PastInv == ParentIsThePast /\ AfterLast

LEMMA PastInit == Init => PastInv
  BY DEF Init, PastInv, ParentIsThePast, AfterLast

\* Steps that leave the state and the checkpoints alone.
LEMMA PastKept == PastInv /\ UNCHANGED <<checkpoints, last, scopes>> => PastInv'
  BY DEF PastInv, ParentIsThePast, AfterLast

\* The end of a superstep: a log has grown, and a checkpoint holds it.
LEMMA PastCheckpoint ==
  ASSUME TInv, QueueInv, PastInv, Checkpoint \/ CheckpointContested \/ CheckpointNotCommitted
  PROVE  PastInv'
<1>1. StepType /\ ReqType /\ StateType /\ CpType
  BY TypeParts DEF TInv
<1>2. \A e \in Executors : LogOf(scopes, e) \subseteq LogOf(scopes', e)
  <2>1. PICK D : scopes' = Mgr!Applied(D)
    BY <1>1, Published
  <2> QED
    BY <1>1, <2>1, PublishedLog
<1>3. CASE Checkpoint
  <2> DEFINE c == Exported
  <2>1. /\ c \in CheckpointType /\ c.parent = last /\ c.state = scopes'
        /\ checkpoints' = Append(checkpoints, c) /\ last' = Len(checkpoints')
    <3>1. StateType'
      BY <1>1, Published
    <3>2. c \in CheckpointType
      BY <1>1, <3>1, ExportedType
    <3> QED
      BY <1>3, <3>2 DEF Checkpoint, Exported
  <2> HIDE DEF c
  <2>2. /\ Len(checkpoints) \in Nat /\ Len(checkpoints') = Len(checkpoints) + 1
        /\ \A n \in 1 .. Len(checkpoints) : checkpoints'[n] = checkpoints[n]
        /\ checkpoints'[Len(checkpoints')] = c
        /\ \A n \in 1 .. Len(checkpoints') : n \in 1 .. Len(checkpoints) \/ n = Len(checkpoints')
    BY <1>1, <2>1, OneMoreCheckpoint
  <2>3. last \in 0 .. Len(checkpoints)
    BY <1>1 DEF CpType
  <2>4. AfterLast'
    BY <2>1, <2>2 DEF AfterLast
  <2>5. ASSUME NEW n \in 1 .. Len(checkpoints')
        PROVE  LET p == checkpoints'[n].parent
               IN  /\ p < n
                   /\ p # 0 => \A e \in Executors :
                        LogOf(checkpoints'[p].state, e) \subseteq LogOf(checkpoints'[n].state, e)
    <3>1. CASE n \in 1 .. Len(checkpoints)
      <4>1. checkpoints[n].parent < n /\ checkpoints[n].parent \in Nat
        <5>1. checkpoints[n] \in CheckpointType
          BY <1>1, <3>1 DEF CpType
        <5> QED
          BY <3>1, <5>1 DEF PastInv, ParentIsThePast, CheckpointType
      <4>2. checkpoints[n].parent # 0 => checkpoints[n].parent \in 1 .. Len(checkpoints)
        BY <2>2, <3>1, <4>1
      <4> QED
        BY <2>2, <3>1, <4>1, <4>2 DEF PastInv, ParentIsThePast
    <3>2. CASE n = Len(checkpoints')
      <4>1. checkpoints'[n].parent = last /\ checkpoints'[n].state = scopes'
        BY <2>1, <2>2, <3>2
      <4>2. last # 0 => last \in 1 .. Len(checkpoints) /\ checkpoints'[last] = checkpoints[last]
        BY <2>2, <2>3
      <4> QED
        BY <1>2, <2>2, <2>3, <3>2, <4>1, <4>2 DEF PastInv, AfterLast
    <3> QED
      BY <2>2, <3>1, <3>2
  <2> QED
    BY <2>4, <2>5 DEF PastInv, ParentIsThePast
<1>4. CASE CheckpointContested \/ CheckpointNotCommitted
  <2>1. checkpoints' = checkpoints /\ last' = last
    BY <1>4 DEF CheckpointContested, CheckpointNotCommitted, cpVars
  <2> QED
    BY <1>2, <2>1 DEF PastInv, ParentIsThePast, AfterLast
<1> QED
  BY <1>3, <1>4

LEMMA PastStep == TInv /\ QueueInv /\ PastInv /\ [Next]_vars => PastInv'
<1> SUFFICES ASSUME TInv, QueueInv, PastInv, [Next]_vars PROVE PastInv'
  OBVIOUS
<1>1. CASE Client
  <2>1. CASE \E n \in 1 .. Len(checkpoints) : Restore(n) \/ Resume(n)
    <3>1. PICK n \in 1 .. Len(checkpoints) : Restore(n) \/ Resume(n)
      BY <2>1
    <3>2. checkpoints' = checkpoints /\ last' = n /\ scopes' = checkpoints[n].state
      BY <3>1 DEF Restore, Resume, Import
    <3> QED
      BY <3>2 DEF PastInv, ParentIsThePast, AfterLast
  <2>2. CASE \/ \E i \in Inputs : EnqueueMessage(i)
             \/ \E r \in Requests, port \in BOOLEAN : EnqueueResponse(r, port)
             \/ Close
    BY <2>2, PastKept DEF EnqueueMessage, EnqueueResponse, Close, cpVars, stateVars
  <2> QED
    BY <1>1, <2>1, <2>2 DEF Client
<1>2. CASE Loop
  <2>1. CASE BeginStep \/ DeliverInput \/ DeliverResponse \/ RejectResponse \/ Swap \/ StepFails
    BY <2>1, PastKept DEF BeginStep, DeliverInput, DeliverResponse, RejectResponse, Swap, StepFails,
                          cpVars, stateVars
  <2> QED
    BY <1>2, <2>1, PastCheckpoint DEF Loop
<1>3. CASE \E e \in Executors : Handler(e)
  <2>1. PICK e \in Executors : Handler(e)
    BY <1>3
  <2>2. UNCHANGED <<checkpoints, last, scopes>>
    BY <2>1 DEF Handler, Take, Send, Post, WriteShared, Return, Fail, Mgr!WriteState, cpVars, stateVars
  <2> QED
    BY <2>2, PastKept
<1>4. CASE UNCHANGED vars
  BY <1>4, PastKept DEF vars, cpVars, stateVars
<1> QED
  BY <1>1, <1>2, <1>3, <1>4 DEF Next

\* The parent of a checkpoint is a checkpoint committed before it, of a state
\* that the run has since gone on from: whatever an executor had handled or made
\* in the parent, it has in the checkpoint.
THEOREM ParentsAreThePast == Spec => []ParentIsThePast
<1> DEFINE PInv == TInv /\ QueueInv /\ PastInv
<1>1. Init => PInv
  BY TypeInit, QueueInit, PastInit
<1>2. PInv /\ [Next]_vars => PInv'
  BY TypeStep, QueueStep, PastStep
<1>3. PInv => ParentIsThePast
  BY DEF PastInv
<1> QED
  BY <1>1, <1>2, <1>3, PTL DEF Spec

-----------------------------------------------------------------------------
(* A response reaches the executor that posted its request                 *)

\* Responses among the messages are with the posters of their requests, requests
\* are owned by their posters, and an executor's log has its own responses only,
\* where p says who posted a request.
Mine(messages, p) ==
  \A e \in Executors : \A k \in 1 .. Len(messages[e]) :
    messages[e][k] \in Requests => p[messages[e][k]] = e
OwnerIs(o, p) == \A r \in Requests : o[r] \in {None, p[r]}
OwnLog(log, e, p) == \A r \in Requests : <<"did", r>> \in log => p[r] = e
OwnLogs(state, p) == \A e \in Executors : OwnLog(LogOf(state, e), e, p)
OwnCheckpoint(c, p) == Mine(c.messages, p) /\ OwnerIs(c.owner, p) /\ OwnLogs(c.state, p)

\* The parts of the invariant.
MessagesMine ==
  /\ Mine(nextStep, posted) /\ Mine(current, posted)
  /\ \A e \in Executors : busy[e] # None => (busy[e].id \in Requests => posted[busy[e].id] = e)
OwnersOwn == OwnerIs(owner, posted)
LogsOwn ==
  /\ OwnLogs(scopes, posted)
  /\ \A e \in Executors :
       queued[e][<<e, Log>>] \notin {Unqueued, None} => OwnLog(queued[e][<<e, Log>>], e, posted)
CheckpointsOwn == \A n \in 1 .. Len(checkpoints) : OwnCheckpoint(checkpoints[n], posted)
PostedMinted == \A r \in Requests : posted[r] # None => r \in minted

PosterInv == MessagesMine /\ OwnersOwn /\ LogsOwn /\ CheckpointsOwn /\ PostedMinted

\* What the invariant says of the run outlives a new post.
LEMMA Grown ==
  ASSUME NEW p \in [Requests -> Executors \cup {None}], NEW q \in [Requests -> Executors \cup {None}],
         \A r \in Requests : q[r] = p[r] \/ p[r] = None
  PROVE  /\ \A messages : Mine(messages, p) => Mine(messages, q)
         /\ \A o : OwnerIs(o, p) => OwnerIs(o, q)
         /\ \A log : \A e \in Executors : OwnLog(log, e, p) => OwnLog(log, e, q)
         /\ \A state : OwnLogs(state, p) => OwnLogs(state, q)
         /\ \A c : OwnCheckpoint(c, p) => OwnCheckpoint(c, q)
<1>1. None \notin Executors
  BY RunnerNames
<1>2. ASSUME NEW messages, Mine(messages, p) PROVE Mine(messages, q)
  BY <1>1, <1>2 DEF Mine
<1>3. ASSUME NEW o, OwnerIs(o, p) PROVE OwnerIs(o, q)
  BY <1>3 DEF OwnerIs
<1>4. ASSUME NEW log, NEW e \in Executors, OwnLog(log, e, p) PROVE OwnLog(log, e, q)
  BY <1>1, <1>4 DEF OwnLog
<1>5. ASSUME NEW state, OwnLogs(state, p) PROVE OwnLogs(state, q)
  BY <1>4, <1>5 DEF OwnLogs
<1>6. ASSUME NEW c, OwnCheckpoint(c, p) PROVE OwnCheckpoint(c, q)
  BY <1>2, <1>3, <1>5, <1>6 DEF OwnCheckpoint
<1> QED
  BY <1>2, <1>3, <1>4, <1>5, <1>6

\* One more message, and none.
LEMMA MineAppend ==
  ASSUME NEW f \in Messages, NEW p, Mine(f, p), NEW e \in Executors, NEW m \in Ids,
         m \in Requests => p[m] = e
  PROVE  Mine([f EXCEPT ![e] = Append(@, m)], p)
<1> DEFINE g == [f EXCEPT ![e] = Append(@, m)]
<1> SUFFICES ASSUME NEW x \in Executors, NEW k \in 1 .. Len(g[x]), g[x][k] \in Requests
             PROVE  p[g[x][k]] = x
  BY DEF Mine
<1>1. f[e] \in Seq(Ids) /\ f[x] \in Seq(Ids) /\ g[x] = IF x = e THEN Append(f[e], m) ELSE f[x]
  BY DEF Messages
<1>2. CASE x = e
  <2>1. (k \in 1 .. Len(f[e]) /\ g[x][k] = f[e][k]) \/ g[x][k] = m
    BY <1>1, <1>2
  <2> QED
    BY <1>2, <2>1 DEF Mine
<1>3. CASE x # e
  BY <1>1, <1>3 DEF Mine
<1> QED
  BY <1>2, <1>3

LEMMA MineNone == \A p : Mine(NoMessages, p)
  BY DEF Mine, NoMessages

LEMMA PosterInit == Init => PosterInv
<1> SUFFICES ASSUME Init PROVE PosterInv
  OBVIOUS
<1>1. MessagesMine
  BY MineNone DEF Init, MessagesMine
<1>2. OwnersOwn /\ CheckpointsOwn /\ PostedMinted
  BY DEF Init, OwnersOwn, OwnerIs, CheckpointsOwn, PostedMinted
<1>3. LogsOwn
  BY Cells DEF Init, Mgr!Init, LogsOwn, OwnLogs, OwnLog, LogOf
<1> QED
  BY <1>1, <1>2, <1>3 DEF PosterInv

\* Clients, and a superstep that begins or fails.
LEMMA PosterKept ==
  ASSUME PosterInv, UNCHANGED <<stepVars, reqVars, stateVars, checkpoints, posted>>,
         minted \subseteq minted'
  PROVE  PosterInv'
  BY DEF PosterInv, MessagesMine, OwnersOwn, LogsOwn, CheckpointsOwn, PostedMinted, stepVars, reqVars,
         stateVars

\* Deliveries: a response goes to the owner of its request.
LEMMA PosterAdvance ==
  ASSUME TInv, PosterInv, DeliverInput \/ DeliverResponse \/ Swap PROVE PosterInv'
<1>1. StepType /\ ReqType /\ RestType
  BY TypeParts DEF TInv
<1>2. UNCHANGED <<busy, stateVars, checkpoints, histVars>>
  BY DEF DeliverInput, DeliverResponse, Swap, cpVars
<1>3. LogsOwn' /\ CheckpointsOwn' /\ PostedMinted' /\ posted' = posted
  BY <1>2 DEF PosterInv, LogsOwn, CheckpointsOwn, PostedMinted, stateVars, histVars
<1>4. nextStep \in Messages /\ Mine(nextStep, posted) /\ Mine(current, posted) /\ OwnerIs(owner, posted)
  BY <1>1 DEF StepType, PosterInv, MessagesMine, OwnersOwn
<1>5. CASE DeliverInput
  <2>1. Head(deliveries).id \in Ids /\ Head(deliveries).id \notin Requests /\ Start \in Executors
    BY <1>5, RunnerNames, RunnerAssumption DEF DeliverInput, Ids
  <2>2. Mine(nextStep', posted')
    BY <1>3, <1>4, <1>5, <2>1, MineAppend DEF DeliverInput
  <2> QED
    BY <1>2, <1>3, <1>5, <2>2 DEF DeliverInput, PosterInv, MessagesMine, OwnersOwn, reqVars
<1>6. CASE DeliverResponse
  <2> DEFINE r == Head(deliveries).id
  <2>1. /\ r \in pending /\ nextStep' = [nextStep EXCEPT ![owner[r]] = Append(@, r)]
        /\ owner' = [owner EXCEPT ![r] = None] /\ current' = current
    BY <1>6 DEF DeliverResponse, Receiver, Complete
  <2> HIDE DEF r
  <2>2. r \in Requests /\ r \in Ids /\ owner[r] \in Executors
    BY <1>1, <2>1 DEF ReqType, Ids
  <2>3. posted[r] = owner[r]
    BY <1>4, <2>2, RunnerNames DEF OwnerIs
  <2>4. Mine(nextStep', posted')
    BY <1>3, <1>4, <2>1, <2>2, <2>3, MineAppend
  <2>5. OwnerIs(owner', posted')
    BY <1>1, <1>3, <1>4, <2>1, <2>2 DEF OwnerIs, ReqType
  <2> QED
    BY <1>2, <1>3, <1>4, <2>1, <2>4, <2>5 DEF PosterInv, MessagesMine, OwnersOwn
<1>7. CASE Swap
  BY <1>2, <1>3, <1>7, MineNone DEF Swap, PosterInv, MessagesMine, OwnersOwn, reqVars
<1> QED
  BY <1>5, <1>6, <1>7

\* A receiver takes a message, or gives them up.
LEMMA PosterTake ==
  ASSUME TInv, PosterInv, NEW e \in Executors, Take(e) \/ Fail(e) PROVE PosterInv'
<1>1. StepType
  BY TypeParts DEF TInv
<1>2. UNCHANGED <<nextStep, reqVars, stateVars, checkpoints, histVars>>
  BY DEF Take, Fail, cpVars
<1>3. OwnersOwn' /\ LogsOwn' /\ CheckpointsOwn' /\ PostedMinted' /\ posted' = posted
  BY <1>2 DEF PosterInv, OwnersOwn, LogsOwn, CheckpointsOwn, PostedMinted, reqVars, stateVars, histVars
<1>4. current \in [Executors -> Seq(Ids)] /\ Mine(nextStep', posted') /\ Mine(current, posted)
  BY <1>1, <1>2, <1>3 DEF StepType, Messages, PosterInv, MessagesMine
<1>5. CASE Take(e)
  <2>1. current[e] \in Seq(Ids) /\ current[e] # <<>>
    BY <1>4, <1>5 DEF Take
  <2>2. /\ Head(current[e]) = current[e][1] /\ 1 \in 1 .. Len(current[e])
        /\ \A k \in 1 .. Len(Tail(current[e])) :
             k + 1 \in 1 .. Len(current[e]) /\ Tail(current[e])[k] = current[e][k + 1]
    BY <2>1
  <2>3. \A x \in Executors : current'[x] = IF x = e THEN Tail(current[e]) ELSE current[x]
    BY <1>4, <1>5 DEF Take
  <2>4. Mine(current', posted')
    <3> SUFFICES ASSUME NEW x \in Executors, NEW k \in 1 .. Len(current'[x]), current'[x][k] \in Requests
                 PROVE  posted[current'[x][k]] = x
      BY <1>3 DEF Mine
    <3>1. CASE x = e
      <4>1. k \in 1 .. Len(Tail(current[e])) /\ current'[x][k] = Tail(current[e])[k]
        BY <2>3, <3>1
      <4>2. k + 1 \in 1 .. Len(current[e]) /\ current'[x][k] = current[e][k + 1]
        BY <2>2, <4>1
      <4> QED
        BY <1>4, <3>1, <4>2 DEF Mine
    <3>2. CASE x # e
      BY <1>4, <2>3, <3>2 DEF Mine
    <3> QED
      BY <3>1, <3>2
  <2>5. \A x \in Executors : busy'[x] = IF x = e THEN [id |-> Head(current[e]), made |-> {}] ELSE busy[x]
    BY <1>1, <1>5 DEF Take, StepType
  <2>6. Head(current[e]) \in Requests => posted[Head(current[e])] = e
    BY <1>4, <2>2 DEF Mine
  <2> QED
    BY <1>3, <1>4, <2>4, <2>5, <2>6 DEF PosterInv, MessagesMine
<1>6. CASE Fail(e)
  <2>1. \A x \in Executors : current'[x] = IF x = e THEN <<>> ELSE current[x]
    BY <1>4, <1>6 DEF Fail
  <2>2. Mine(current', posted')
    BY <1>3, <1>4, <2>1 DEF Mine
  <2>3. \A x \in Executors : busy'[x] = IF x = e THEN None ELSE busy[x]
    BY <1>1, <1>6 DEF Fail, StepType
  <2> QED
    BY <1>3, <1>4, <2>2, <2>3 DEF PosterInv, MessagesMine
<1> QED
  BY <1>5, <1>6

\* A handler sends, or posts a request of its own.
LEMMA PosterSend ==
  ASSUME TInv, PosterInv, NEW e \in Executors,
         \/ \E m \in Sends, to \in Executors : Send(e, m, to)
         \/ \E r \in Requests : Post(e, r)
  PROVE  PosterInv'
<1>1. StepType /\ ReqType /\ RestType
  BY TypeParts DEF TInv
<1>2. ASSUME NEW m, busy' = [busy EXCEPT ![e].made = @ \cup {m}], Handling(e)
      PROVE  \A x \in Executors : (busy'[x] # None => busy[x] # None) /\ (busy[x] # None => busy'[x].id = busy[x].id)
  <2>1. busy[e] \in [id : Ids, made : SUBSET Ids] /\ busy[e] # None
    BY <1>1, <1>2 DEF Handling, StepType
  <2>2. \A x \in Executors : busy'[x] = IF x = e THEN [busy[e] EXCEPT !.made = @ \cup {m}] ELSE busy[x]
    BY <1>1, <1>2 DEF StepType
  <2>3. [busy[e] EXCEPT !.made = @ \cup {m}].id = busy[e].id
    BY <2>1
  <2> QED
    BY <2>1, <2>2, <2>3
<1>3. nextStep \in Messages /\ Mine(nextStep, posted) /\ Mine(current, posted)
  BY <1>1 DEF StepType, PosterInv, MessagesMine
<1>4. CASE \E m \in Sends, to \in Executors : Send(e, m, to)
  <2>1. PICK m \in Sends, to \in Executors : Send(e, m, to)
    BY <1>4
  <2>2. m \in Ids /\ m \notin Requests
    BY RunnerNames DEF Ids
  <2>3. Mine(nextStep', posted')
    BY <1>3, <2>1, <2>2, MineAppend DEF Send
  <2>4. \A x \in Executors : (busy'[x] # None => busy[x] # None) /\ (busy[x] # None => busy'[x].id = busy[x].id)
    BY <1>2, <2>1 DEF Send
  <2>5. MessagesMine'
    BY <1>3, <2>1, <2>3, <2>4 DEF Send, PosterInv, MessagesMine
  <2> QED
    BY <2>1, <2>5 DEF Send, PosterInv, OwnersOwn, LogsOwn, CheckpointsOwn, PostedMinted, reqVars, stateVars,
                      cpVars
<1>5. CASE \E r \in Requests : Post(e, r)
  <2>1. PICK r \in Requests : Post(e, r)
    BY <1>5
  <2>2. /\ posted \in [Requests -> Executors \cup {None}] /\ posted' \in [Requests -> Executors \cup {None}]
        /\ posted' = [posted EXCEPT ![r] = e] /\ posted[r] = None
    BY <1>1, <2>1 DEF Post, RestType, PosterInv, PostedMinted
  <2>3. \A x \in Requests : posted'[x] = posted[x] \/ posted[x] = None
    BY <2>2
  <2>4. /\ \A messages : Mine(messages, posted) => Mine(messages, posted')
        /\ \A o : OwnerIs(o, posted) => OwnerIs(o, posted')
        /\ \A log : \A x \in Executors : OwnLog(log, x, posted) => OwnLog(log, x, posted')
        /\ \A state : OwnLogs(state, posted) => OwnLogs(state, posted')
        /\ \A c : OwnCheckpoint(c, posted) => OwnCheckpoint(c, posted')
    BY <2>2, <2>3, Grown
  <2>5. \A x \in Executors : (busy'[x] # None => busy[x] # None) /\ (busy[x] # None => busy'[x].id = busy[x].id)
    BY <1>2, <2>1 DEF Post
  <2>6. MessagesMine'
    <3>1. Mine(nextStep', posted') /\ Mine(current', posted')
      BY <1>3, <2>1, <2>4 DEF Post
    <3>2. \A x \in Executors : busy'[x] # None => (busy'[x].id \in Requests => posted'[busy'[x].id] = x)
      BY <2>2, <2>3, <2>5, RunnerNames DEF PosterInv, MessagesMine
    <3> QED
      BY <3>1, <3>2 DEF MessagesMine
  <2>7. OwnersOwn'
    BY <1>1, <2>1, <2>2 DEF Post, ReqType, PosterInv, OwnersOwn, OwnerIs
  <2>8. LogsOwn' /\ CheckpointsOwn'
    BY <2>1, <2>4 DEF Post, PosterInv, LogsOwn, CheckpointsOwn, stateVars, cpVars
  <2>9. PostedMinted'
    BY <2>1, <2>2 DEF Post, PosterInv, PostedMinted
  <2> QED
    BY <2>6, <2>7, <2>8, <2>9 DEF PosterInv
<1> QED
  BY <1>4, <1>5

\* An executor that returns writes into its log what it was given.
LEMMA PosterWrite ==
  ASSUME TInv, PosterInv, NEW e \in Executors, Return(e) \/ WriteShared(e) PROVE PosterInv'
<1>1. StepType /\ StateType
  BY TypeParts DEF TInv
<1>2. UNCHANGED <<nextStep, current, reqVars, scopes, checkpoints, histVars>>
  BY DEF Return, WriteShared, Mgr!WriteState, cpVars, stepVars
<1>3. OwnersOwn' /\ CheckpointsOwn' /\ PostedMinted' /\ posted' = posted
  BY <1>2 DEF PosterInv, OwnersOwn, CheckpointsOwn, PostedMinted, reqVars, histVars
<1>4. \A x \in Executors : busy'[x] \in {busy[x], None}
  BY <1>1 DEF Return, WriteShared, stepVars, StepType
<1>5. MessagesMine'
  BY <1>2, <1>3, <1>4 DEF PosterInv, MessagesMine
<1>6. CASE Return(e)
  <2>1. Mgr!WriteState(e, <<e, Log>>, Logged(e)) /\ Handling(e)
    BY <1>6 DEF Return, Logged
  <2>2. \A f \in Executors, d \in Mgr!Cells :
          queued'[f][d] = IF f = e /\ d = <<e, Log>> THEN Logged(e) ELSE queued[f][d]
    <3>1. Logged(e) \in SUBSET Marks /\ <<e, Log>> \in Mgr!Cells
      BY <1>1, <2>1, LoggedType, Cells
    <3> QED
      BY <1>1, <2>1, <3>1, QueueWrite
  <2>3. OwnLog(View(e), e, posted)
    <3>1. queued[e][<<e, Log>>] \notin {Unqueued, None} => OwnLog(queued[e][<<e, Log>>], e, posted)
      BY DEF PosterInv, LogsOwn
    <3>2. OwnLog(LogOf(scopes, e), e, posted) /\ OwnLog({}, e, posted)
      BY DEF PosterInv, LogsOwn, OwnLogs, OwnLog
    <3> QED
      BY <1>1, <3>1, <3>2, ViewType
  <2>4. OwnLog(Logged(e), e, posted)
    BY <2>1, <2>3 DEF Handling, OwnLog, Logged, PosterInv, MessagesMine
  <2>5. \A x \in Executors : <<x, Log>> \in Mgr!Cells
    BY Cells
  <2> QED
    BY <1>2, <1>3, <1>5, <2>2, <2>4, <2>5 DEF PosterInv, LogsOwn
<1>7. CASE WriteShared(e)
  <2>1. Mgr!WriteState(e, <<Shared, Log>>, {})
    BY <1>7 DEF WriteShared
  <2>2. \A f \in Executors, d \in Mgr!Cells : d # <<Shared, Log>> => queued'[f][d] = queued[f][d]
    <3>1. {} \in SUBSET Marks
      OBVIOUS
    <3> QED
      BY <1>1, <2>1, <3>1, QueueWrite, Cells
  <2> QED
    BY <1>2, <1>3, <1>5, <2>2, Cells DEF PosterInv, LogsOwn
<1> QED
  BY <1>6, <1>7

\* What is published was somebody's own, and a checkpoint is of what is.
LEMMA PosterCheckpoint ==
  ASSUME TInv, QueueInv, PosterInv, Checkpoint \/ CheckpointContested \/ CheckpointNotCommitted
  PROVE  PosterInv'
<1>1. StepType /\ ReqType /\ StateType /\ CpType /\ StateType'
  BY TypeParts, Published DEF TInv
<1>2. UNCHANGED <<stepVars, reqVars, histVars>>
  BY DEF Checkpoint, CheckpointContested, CheckpointNotCommitted
<1>3. MessagesMine' /\ OwnersOwn' /\ PostedMinted' /\ posted' = posted
  BY <1>2 DEF PosterInv, MessagesMine, OwnersOwn, PostedMinted, stepVars, reqVars, histVars
<1>4. OwnLogs(scopes', posted)
  <2>1. PICK D : scopes' = Mgr!Applied(D)
    BY <1>1, Published
  <2>2. \A e \in Executors :
          \/ LogOf(scopes', e) = LogOf(scopes, e)
          \/ queued[e][<<e, Log>>] \notin {Unqueued, None} /\ LogOf(scopes', e) = queued[e][<<e, Log>>]
    BY <1>1, <2>1, PublishedLog
  <2> QED
    BY <2>2 DEF PosterInv, LogsOwn, OwnLogs
<1>5. LogsOwn'
  <2>1. queued' = queued \/ \A e \in Executors : queued'[e][<<e, Log>>] = Unqueued
    BY <1>1, Published, Cells
  <2> QED
    BY <1>3, <1>4, <2>1 DEF PosterInv, LogsOwn
<1>6. CheckpointsOwn'
  <2>1. CASE checkpoints' = checkpoints
    BY <1>3, <2>1 DEF PosterInv, CheckpointsOwn
  <2>2. CASE Checkpoint
    <3> DEFINE c == Exported
    <3>1. /\ c \in CheckpointType /\ checkpoints' = Append(checkpoints, c)
          /\ c.state = scopes' /\ c.messages = nextStep /\ c.owner = owner
      BY <1>1, <2>2, ExportedType DEF Checkpoint, Exported
    <3> HIDE DEF c
    <3>2. OwnCheckpoint(c, posted)
      BY <1>4, <3>1 DEF OwnCheckpoint, PosterInv, MessagesMine, OwnersOwn
    <3>3. /\ \A n \in 1 .. Len(checkpoints) : checkpoints'[n] = checkpoints[n]
          /\ checkpoints'[Len(checkpoints')] = c
          /\ \A n \in 1 .. Len(checkpoints') : n \in 1 .. Len(checkpoints) \/ n = Len(checkpoints')
      BY <1>1, <3>1, OneMoreCheckpoint
    <3> QED
      BY <1>3, <3>2, <3>3 DEF PosterInv, CheckpointsOwn
  <2> QED
    BY <2>1, <2>2 DEF CheckpointContested, CheckpointNotCommitted, cpVars
<1> QED
  BY <1>3, <1>5, <1>6 DEF PosterInv

\* What a checkpoint holds is everybody's own, and a post is never taken back.
LEMMA PosterRestore ==
  ASSUME TInv, PosterInv, NEW n \in 1 .. Len(checkpoints), Restore(n) \/ Resume(n)
  PROVE  PosterInv'
<1>1. StateType /\ StateType'
  BY TypeStep, TypeParts, TypePartsNext DEF TInv, Next, Client
<1>2. /\ UNCHANGED <<checkpoints, histVars>> /\ scopes' = checkpoints[n].state
      /\ nextStep' = checkpoints[n].messages /\ owner' = checkpoints[n].owner
  BY DEF Restore, Resume, Import
<1>3. OwnCheckpoint(checkpoints[n], posted)
  BY DEF PosterInv, CheckpointsOwn
<1>4. CheckpointsOwn' /\ PostedMinted' /\ OwnersOwn' /\ OwnLogs(scopes', posted') /\ Mine(nextStep', posted')
  BY <1>2, <1>3 DEF OwnCheckpoint, PosterInv, CheckpointsOwn, PostedMinted, OwnersOwn, histVars
<1>5. \A e \in Executors, c \in Mgr!Cells : queued'[e][c] = Unqueued
  BY DEF Restore, Resume, Mgr!ImportState, Mgr!Queued, Mgr!IsQueued
<1>6. LogsOwn'
  BY <1>4, <1>5, Cells DEF LogsOwn
<1>7. MessagesMine'
  <2>1. CASE Restore(n)
    BY <1>2, <1>4, <2>1 DEF Restore, PosterInv, MessagesMine, histVars
  <2>2. CASE Resume(n)
    BY <1>4, <2>2, MineNone DEF Resume, MessagesMine
  <2> QED
    BY <2>1, <2>2
<1> QED
  BY <1>4, <1>6, <1>7 DEF PosterInv

LEMMA PosterStep == TInv /\ QueueInv /\ PosterInv /\ [Next]_vars => PosterInv'
<1> SUFFICES ASSUME TInv, QueueInv, PosterInv, [Next]_vars PROVE PosterInv'
  OBVIOUS
<1>1. CASE Client
  <2>1. CASE \/ \E i \in Inputs : EnqueueMessage(i)
             \/ \E r \in Requests, port \in BOOLEAN : EnqueueResponse(r, port)
             \/ Close
    BY <2>1, PosterKept DEF EnqueueMessage, EnqueueResponse, Close, cpVars, histVars
  <2> QED
    BY <1>1, <2>1, PosterRestore DEF Client
<1>2. CASE Loop
  <2>1. CASE BeginStep \/ RejectResponse \/ StepFails
    BY <2>1, PosterKept DEF BeginStep, RejectResponse, StepFails, cpVars, histVars
  <2> QED
    BY <1>2, <2>1, PosterAdvance, PosterCheckpoint DEF Loop
<1>3. CASE \E e \in Executors : Handler(e)
  <2>1. PICK e \in Executors : Handler(e)
    BY <1>3
  <2> QED
    BY <2>1, PosterTake, PosterSend, PosterWrite DEF Handler
<1>4. CASE UNCHANGED vars
  BY <1>4, PosterKept DEF vars, cpVars, histVars
<1> QED
  BY <1>1, <1>2, <1>3, <1>4 DEF Next

\* The invariant says who can have a response.
LEMMA PosterHas == TInv /\ PosterInv => ResponseReachesPoster
<1> SUFFICES ASSUME TInv, PosterInv, NEW r \in Requests, NEW e,
                    \/ e \in {p[1] : p \in InQueue(r, nextStep) \cup InQueue(r, current)}
                    \/ e \in InHand(r) \/ e \in In("did", r, Logs)
             PROVE  e = posted[r]
  BY DEF ResponseReachesPoster
<1>1. StepType /\ StateType
  BY TypeParts DEF TInv
<1>2. ASSUME NEW f \in Messages, Mine(f, posted), NEW p \in InQueue(r, f) PROVE p[1] = posted[r]
  <2>1. PICK x \in Executors : p \in {x} \X {k \in DOMAIN f[x] : f[x][k] = r}
    BY <1>2 DEF InQueue
  <2>2. PICK k \in DOMAIN f[x] : f[x][k] = r
    BY <2>1
  <2>3. DOMAIN f[x] = 1 .. Len(f[x])
    BY <1>2 DEF Messages
  <2> QED
    BY <1>2, <2>1, <2>2, <2>3 DEF Mine
<1>3. CASE e \in {p[1] : p \in InQueue(r, nextStep) \cup InQueue(r, current)}
  BY <1>1, <1>2, <1>3 DEF StepType, PosterInv, MessagesMine
<1>4. CASE e \in InHand(r)
  BY <1>4 DEF InHand, PosterInv, MessagesMine
<1>5. CASE e \in In("did", r, Logs)
  <2>1. e \in Executors /\ <<"did", r>> \in LogOf(Logs, e)
    BY <1>5 DEF In
  <2>2. LogOf(Logs, e) = View(e)
    <3>1. View(e) \subseteq Marks /\ <<e, Log>> \in Mgr!Cells
      BY <1>1, <2>1, ViewType, Cells
    <3>2. Logs[<<e, Log>>] = View(e) /\ View(e) # None
      BY <2>1, <3>1, RunnerNames DEF Logs
    <3> QED
      BY <3>2 DEF LogOf
  <2>3. OwnLog(View(e), e, posted)
    <3>1. queued[e][<<e, Log>>] \notin {Unqueued, None} => OwnLog(queued[e][<<e, Log>>], e, posted)
      BY <2>1 DEF PosterInv, LogsOwn
    <3>2. OwnLog(LogOf(scopes, e), e, posted) /\ OwnLog({}, e, posted)
      BY <2>1 DEF PosterInv, LogsOwn, OwnLogs, OwnLog
    <3> QED
      BY <1>1, <2>1, <3>1, <3>2, ViewType
  <2> QED
    BY <2>1, <2>2, <2>3 DEF OwnLog
<1> QED
  BY <1>3, <1>4, <1>5

\* A response, waiting, in a handler or handled, is with the executor that posted
\* the request, after any restores and restarts, whoever posted last.
THEOREM ResponsesReachPosters == Spec => []ResponseReachesPoster
<1> DEFINE PInv == TInv /\ QueueInv /\ PosterInv
<1>1. Init => PInv
  BY TypeInit, QueueInit, PosterInit
<1>2. PInv /\ [Next]_vars => PInv'
  BY TypeStep, QueueStep, PosterStep
<1>3. PInv => ResponseReachesPoster
  BY PosterHas
<1> QED
  BY <1>1, <1>2, <1>3, PTL DEF Spec

-----------------------------------------------------------------------------
(* Nothing is handled twice, and a checkpoint is a consistent cut          *)

\* m is among the messages, and at most at one place of them.
Has(f, m) == \E e \in Executors : \E k \in 1 .. Len(f[e]) : f[e][k] = m
Once(f, m) ==
  \A e, d \in Executors : \A k \in 1 .. Len(f[e]), l \in 1 .. Len(f[d]) :
    f[e][k] = m /\ f[d][l] = m => e = d /\ k = l

\* m is among the deliveries, and at most at one place of them.
At(s, m) == \E k \in 1 .. Len(s) : s[k].id = m
AtOnce(s, m) == \A k, l \in 1 .. Len(s) : s[k].id = m /\ s[l].id = m => k = l

\* Where an id can be in a run: sent in, in the next or the current step, in a
\* handler, a pending request, or handled.
Sent(m) == m \in Inputs /\ At(deliveries, m)
Hand(m) == \E e \in Executors : busy[e] # None /\ busy[e].id = m
Did(m)  == \E e \in Executors : <<"did", m>> \in View(e)
Around(m) ==
  Sent(m) \/ Has(nextStep, m) \/ Has(current, m) \/ Hand(m) \/ m \in pending \/ Did(m)

\* It is at one of these only, and there once.
Apart(m) ==
  /\ Sent(m) => ~Has(nextStep, m) /\ ~Has(current, m) /\ ~Hand(m) /\ m \notin pending /\ ~Did(m)
  /\ Has(nextStep, m) => ~Has(current, m) /\ ~Hand(m) /\ m \notin pending /\ ~Did(m)
  /\ Has(current, m) => ~Hand(m) /\ m \notin pending /\ ~Did(m)
  /\ Hand(m) => m \notin pending /\ ~Did(m)
  /\ m \in pending => ~Did(m)

\* No place holds it twice.
SentOnce(m) == m \in Inputs => AtOnce(deliveries, m)
HandOnce(m) ==
  \A e, d \in Executors :
    busy[e] # None /\ busy[e].id = m /\ busy[d] # None /\ busy[d].id = m => e = d
DidOnce(m) ==
  \A e, d \in Executors : <<"did", m>> \in View(e) /\ <<"did", m>> \in View(d) => e = d
Single(m) ==
  /\ Apart(m) /\ SentOnce(m) /\ HandOnce(m) /\ DidOnce(m)
  /\ Once(nextStep, m) /\ Once(current, m)

\* Who made a message or a request: it says so in its log or is still at it.
Maker(e, m) == <<"made", m>> \in View(e) \/ (busy[e] # None /\ m \in busy[e].made)
Made(m)     == \E e \in Executors : Maker(e, m)
OneMaker(m) == \A e, d \in Executors : Maker(e, m) /\ Maker(d, m) => e = d

\* The same of a checkpoint.
CpDid(c, m)    == \E e \in Executors : <<"did", m>> \in LogOf(c.state, e)
CpMade(c, m)   == \E e \in Executors : <<"made", m>> \in LogOf(c.state, e)
CpAround(c, m) == Has(c.messages, m) \/ m \in c.pending \/ CpDid(c, m)
CpSingle(c, m) ==
  /\ Has(c.messages, m) => m \notin c.pending /\ ~CpDid(c, m)
  /\ m \in c.pending => ~CpDid(c, m)
  /\ Once(c.messages, m)
  /\ \A x \in {"did", "made"} : \A e, d \in Executors :
       <<x, m>> \in LogOf(c.state, e) /\ <<x, m>> \in LogOf(c.state, d) => e = d

\* Between supersteps, and while one is prepared, nothing is being handled.
StepClean ==
  phase \in {"idle", "advancing"} => current = NoMessages /\ \A e \in Executors : busy[e] = None
\* A failed superstep of a background loop is its last.
LastFails ==
  /\ failures \in Nat /\ restores \in Nat
  /\ failures = 0 => ~failed
  /\ phase \in {"advancing", "delivering"} => loopAlive
  /\ offThread /\ failed => phase = "delivering" \/ ~loopAlive

\* What the invariant says of an id: it was given out; it was made if and only
\* if it is somewhere; it is not lost.
Sound == offThread \/ failures = 0
IdMinted(m) == Around(m) \/ Made(m) => m \in minted
IdKnown(m) == Sound /\ ~failed /\ m \in Sends \cup Requests => (Made(m) <=> Around(m))
IdKept(m)  == failures = 0 /\ restores = 0 /\ m \in minted => Around(m)
CpInv(c, m) ==
  /\ CpSingle(c, m)
  /\ CpAround(c, m) \/ CpMade(c, m) => m \in minted
  /\ Sound /\ m \in Sends \cup Requests => (CpMade(c, m) <=> CpAround(c, m))
\* The invariant of an id, of the run and of its checkpoints.
RunId(m) == Single(m) /\ OneMaker(m) /\ IdMinted(m) /\ IdKnown(m) /\ IdKept(m)
RunIds == \A m \in Ids : RunId(m)
CpIds  == \A n \in 1 .. Len(checkpoints) : \A m \in Ids : CpInv(checkpoints[n], m)
CutInv == StepClean /\ LastFails /\ RunIds /\ CpIds

LEMMA HasNone == \A m : ~Has(NoMessages, m) /\ Once(NoMessages, m)
  BY DEF Has, Once, NoMessages

\* One more message.
LEMMA HasAppend ==
  ASSUME NEW f \in Messages, NEW e \in Executors, NEW x \in Ids, NEW m
  PROVE  LET g == [f EXCEPT ![e] = Append(@, x)]
         IN  /\ Has(g, m) <=> Has(f, m) \/ m = x
             /\ Once(f, m) /\ (m = x => ~Has(f, m)) => Once(g, m)
<1> DEFINE g == [f EXCEPT ![e] = Append(@, x)]
<1>1. /\ f[e] \in Seq(Ids) /\ Len(f[e]) \in Nat
      /\ \A d \in Executors : g[d] = IF d = e THEN Append(f[e], x) ELSE f[d]
  BY DEF Messages
<1>2. /\ Len(Append(f[e], x)) = Len(f[e]) + 1
      /\ \A k \in 1 .. Len(f[e]) : Append(f[e], x)[k] = f[e][k]
      /\ Append(f[e], x)[Len(f[e]) + 1] = x
  BY <1>1
<1> DEFINE s == Append(f[e], x)
<1>7. /\ Len(s) = Len(f[e]) + 1 /\ s[Len(f[e]) + 1] = x
      /\ \A k \in 1 .. Len(f[e]) : s[k] = f[e][k]
      /\ g[e] = s /\ \A d \in Executors : d # e => g[d] = f[d]
  BY <1>1, <1>2
<1> HIDE DEF g, s
<1>3. /\ \A k \in 1 .. Len(f[e]) : k \in 1 .. Len(s) /\ s[k] = f[e][k]
      /\ Len(f[e]) + 1 \in 1 .. Len(s) /\ s[Len(f[e]) + 1] = x
      /\ \A k \in 1 .. Len(s) : k \in 1 .. Len(f[e]) \/ k = Len(f[e]) + 1
      /\ g[e] = s /\ \A d \in Executors : d # e => g[d] = f[d]
  BY <1>1, <1>7
<1>4. Has(g, m) <=> Has(f, m) \/ m = x
  BY <1>3 DEF Has
<1>5. ASSUME Once(f, m), m = x => ~Has(f, m),
             NEW a \in Executors, NEW b \in Executors, NEW k \in 1 .. Len(g[a]), NEW l \in 1 .. Len(g[b]),
             g[a][k] = m, g[b][l] = m
      PROVE  a = b /\ k = l
  <2>1. CASE m = x
    <3>1. ASSUME NEW d \in Executors, NEW j \in 1 .. Len(g[d]), g[d][j] = m
          PROVE  d = e /\ j = Len(f[e]) + 1
      BY <1>3, <1>5, <2>1, <3>1 DEF Has
    <3> QED
      BY <1>5, <3>1
  <2>2. CASE m # x
    <3>1. ASSUME NEW d \in Executors, NEW j \in 1 .. Len(g[d]), g[d][j] = m
          PROVE  j \in 1 .. Len(f[d]) /\ f[d][j] = m
      BY <1>3, <2>2, <3>1
    <3> QED
      BY <1>5, <3>1 DEF Once
  <2> QED
    BY <2>1, <2>2
<1>6. Once(f, m) /\ (m = x => ~Has(f, m)) => Once(g, m)
  BY <1>5 DEF Once
<1> QED
  BY <1>4, <1>6 DEF g

\* The first message of a queue taken.
LEMMA HasTail ==
  ASSUME NEW f \in Messages, NEW e \in Executors, f[e] # <<>>, NEW m
  PROVE  LET g == [f EXCEPT ![e] = Tail(@)]
         IN  /\ Head(f[e]) \in Ids
             /\ Has(f, m) <=> Has(g, m) \/ m = Head(f[e])
             /\ Once(f, m) => Once(g, m) /\ (m = Head(f[e]) => ~Has(g, m))
<1> DEFINE g == [f EXCEPT ![e] = Tail(@)]
           s == Tail(f[e])
           x == Head(f[e])
<1>1. f[e] \in Seq(Ids) /\ \A d \in Executors : g[d] = IF d = e THEN s ELSE f[d]
  BY DEF Messages
<1>2. /\ x \in Ids /\ f[e][1] = x /\ 1 \in 1 .. Len(f[e]) /\ Len(f[e]) \in Nat
      /\ \A k \in 1 .. Len(s) : k + 1 \in 1 .. Len(f[e]) /\ s[k] = f[e][k + 1] /\ k + 1 # 1
      /\ \A k \in 1 .. Len(f[e]) : k # 1 => k - 1 \in 1 .. Len(s) /\ s[k - 1] = f[e][k]
  BY <1>1
<1> HIDE DEF g, s, x
<1>3. Has(f, m) <=> Has(g, m) \/ m = x
  <2>1. ASSUME NEW d \in Executors, NEW k \in 1 .. Len(f[d]), f[d][k] = m, m # x PROVE Has(g, m)
    <3>1. CASE d = e
      <4>1. k - 1 \in 1 .. Len(s) /\ s[k - 1] = m
        BY <1>2, <2>1, <3>1
      <4> QED
        BY <1>1, <4>1 DEF Has
    <3>2. CASE d # e
      BY <1>1, <2>1, <3>2 DEF Has
    <3> QED
      BY <3>1, <3>2
  <2>2. ASSUME NEW d \in Executors, NEW k \in 1 .. Len(g[d]), g[d][k] = m PROVE Has(f, m)
    <3>1. CASE d = e
      <4>1. k + 1 \in 1 .. Len(f[e]) /\ f[e][k + 1] = m
        BY <1>1, <1>2, <2>2, <3>1
      <4> QED
        BY <4>1 DEF Has
    <3>2. CASE d # e
      BY <1>1, <2>2, <3>2 DEF Has
    <3> QED
      BY <3>1, <3>2
  <2>3. m = x => Has(f, m)
    BY <1>2 DEF Has
  <2> QED
    BY <2>1, <2>2, <2>3 DEF Has
<1>4. Once(f, m) => (m = x => ~Has(g, m))
  <2> SUFFICES ASSUME Once(f, m), m = x, NEW d \in Executors, NEW k \in 1 .. Len(g[d]), g[d][k] = m PROVE FALSE
    BY DEF Has
  <2>1. CASE d = e
    BY <1>1, <1>2, <2>1 DEF Once
  <2>2. CASE d # e
    BY <1>1, <1>2, <2>2 DEF Once
  <2> QED
    BY <2>1, <2>2
<1>5. Once(f, m) => Once(g, m)
  <2> SUFFICES ASSUME Once(f, m), NEW a \in Executors, NEW b \in Executors,
                      NEW k \in 1 .. Len(g[a]), NEW l \in 1 .. Len(g[b]), g[a][k] = m, g[b][l] = m
               PROVE  a = b /\ k = l
    BY DEF Once
  <2>1. ASSUME NEW d \in Executors, NEW j \in 1 .. Len(g[d]), g[d][j] = m
        PROVE  LET i == IF d = e THEN j + 1 ELSE j IN i \in 1 .. Len(f[d]) /\ f[d][i] = m
    BY <1>1, <1>2, <2>1
  <2>2. a = b
    <3>1. PICK i \in 1 .. Len(f[a]) : f[a][i] = m
      BY <2>1
    <3>2. PICK j \in 1 .. Len(f[b]) : f[b][j] = m
      BY <2>1
    <3> QED
      BY <3>1, <3>2 DEF Once
  <2>3. (IF a = e THEN k + 1 ELSE k) = (IF b = e THEN l + 1 ELSE l)
    <3> DEFINE i == IF a = e THEN k + 1 ELSE k
               j == IF b = e THEN l + 1 ELSE l
    <3>1. i \in 1 .. Len(f[a]) /\ f[a][i] = m /\ j \in 1 .. Len(f[b]) /\ f[b][j] = m
      BY <2>1
    <3> HIDE DEF i, j
    <3>2. i = j
      BY <3>1 DEF Once
    <3> QED
      BY <3>2 DEF i, j
  <2> QED
    BY <2>2, <2>3
<1> QED
  BY <1>2, <1>3, <1>4, <1>5 DEF g, x

\* A queue dropped.
LEMMA HasDrop ==
  ASSUME NEW f \in Messages, NEW e \in Executors, NEW m
  PROVE  LET g == [f EXCEPT ![e] = <<>>]
         IN  (Has(g, m) => Has(f, m)) /\ (Once(f, m) => Once(g, m))
<1> DEFINE g == [f EXCEPT ![e] = <<>>]
<1>1. Len(g[e]) = 0 /\ \A d \in Executors : d # e => g[d] = f[d]
  BY DEF Messages
<1> HIDE DEF g
<1>2. ASSUME NEW d \in Executors, NEW k \in 1 .. Len(g[d]) PROVE k \in 1 .. Len(f[d]) /\ f[d][k] = g[d][k]
  BY <1>1, <1>2
<1>3. Has(g, m) => Has(f, m)
  BY <1>2 DEF Has
<1>4. Once(f, m) => Once(g, m)
  <2> SUFFICES ASSUME Once(f, m), NEW a \in Executors, NEW b \in Executors,
                      NEW k \in 1 .. Len(g[a]), NEW l \in 1 .. Len(g[b]), g[a][k] = m, g[b][l] = m
               PROVE  a = b /\ k = l
    BY DEF Once
  <2>1. k \in 1 .. Len(f[a]) /\ f[a][k] = m /\ l \in 1 .. Len(f[b]) /\ f[b][l] = m
    BY <1>2
  <2> QED
    BY <2>1 DEF Once
<1> QED
  BY <1>3, <1>4 DEF g

\* One more delivery, and the first one taken.
LEMMA AtAppend ==
  ASSUME NEW s \in Seq(Delivery), NEW d \in Delivery, NEW m
  PROVE  /\ At(Append(s, d), m) <=> At(s, m) \/ m = d.id
         /\ AtOnce(s, m) /\ (m = d.id => ~At(s, m)) => AtOnce(Append(s, d), m)
<1> DEFINE g == Append(s, d)
<1>1. /\ \A k \in 1 .. Len(s) : k \in 1 .. Len(g) /\ g[k] = s[k]
      /\ Len(s) + 1 \in 1 .. Len(g) /\ g[Len(s) + 1] = d
      /\ \A k \in 1 .. Len(g) : k \in 1 .. Len(s) \/ k = Len(s) + 1
  OBVIOUS
<1> HIDE DEF g
<1>2. At(g, m) <=> At(s, m) \/ m = d.id
  BY <1>1 DEF At
<1>3. AtOnce(s, m) /\ (m = d.id => ~At(s, m)) => AtOnce(g, m)
  BY <1>1 DEF AtOnce, At
<1> QED
  BY <1>2, <1>3 DEF g

LEMMA AtTail ==
  ASSUME NEW s \in Seq(Delivery), s # <<>>, NEW m
  PROVE  /\ At(s, m) <=> At(Tail(s), m) \/ m = Head(s).id
         /\ AtOnce(s, m) => AtOnce(Tail(s), m) /\ (m = Head(s).id => ~At(Tail(s), m))
<1> DEFINE g == Tail(s)
           x == Head(s)
<1>1. /\ s[1] = x /\ 1 \in 1 .. Len(s)
      /\ \A k \in 1 .. Len(g) : k \in Nat /\ k + 1 \in 1 .. Len(s) /\ g[k] = s[k + 1] /\ k + 1 # 1
      /\ \A k \in 1 .. Len(s) : k # 1 => k - 1 \in 1 .. Len(g) /\ g[k - 1] = s[k]
  OBVIOUS
<1> HIDE DEF g, x
<1>2. At(s, m) <=> At(g, m) \/ m = x.id
  <2>1. ASSUME NEW k \in 1 .. Len(s), s[k].id = m, m # x.id PROVE At(g, m)
    <3>1. k - 1 \in 1 .. Len(g) /\ g[k - 1].id = m
      BY <1>1, <2>1
    <3> QED
      BY <3>1 DEF At
  <2>2. ASSUME NEW k \in 1 .. Len(g), g[k].id = m PROVE At(s, m)
    <3>1. k + 1 \in 1 .. Len(s) /\ s[k + 1].id = m
      BY <1>1, <2>2
    <3> QED
      BY <3>1 DEF At
  <2>3. m = x.id => At(s, m)
    BY <1>1 DEF At
  <2> QED
    BY <2>1, <2>2, <2>3 DEF At
<1>3. AtOnce(s, m) => (m = x.id => ~At(g, m))
  BY <1>1 DEF AtOnce, At
<1>4. AtOnce(s, m) => AtOnce(g, m)
  <2> SUFFICES ASSUME AtOnce(s, m), NEW k \in 1 .. Len(g), NEW l \in 1 .. Len(g), g[k].id = m, g[l].id = m
               PROVE  k = l
    BY DEF AtOnce
  <2>1. k + 1 \in 1 .. Len(s) /\ l + 1 \in 1 .. Len(s) /\ s[k + 1].id = m /\ s[l + 1].id = m
    BY <1>1
  <2>2. k + 1 = l + 1
    BY <2>1 DEF AtOnce
  <2> QED
    BY <1>1, <2>2
<1> QED
  BY <1>2, <1>3, <1>4 DEF g, x

\* What an executor sees in its log after a step, by what it has queued.
LEMMA ViewNext ==
  ASSUME StateType', NEW e \in Executors
  PROVE  View(e)' = IF queued'[e][<<e, Log>>] \notin {Unqueued, None} THEN queued'[e][<<e, Log>>]
                    ELSE IF queued'[e][<<e, Log>>] = Unqueued THEN LogOf(scopes', e) ELSE {}
<1>1. <<e, Log>> \in Mgr!Cells
  BY Cells
<1>2. /\ scopes'[<<e, Log>>] \in (SUBSET Marks) \cup {None}
      /\ queued'[e][<<e, Log>>] \in (SUBSET Marks) \cup {None, Unqueued}
  BY <1>1 DEF StateType, States
<1> QED
  BY <1>2, RunnerNames DEF View, Mgr!ReadState, Mgr!IsQueued, LogOf

LEMMA ViewKept == ASSUME UNCHANGED stateVars PROVE \A f \in Executors : View(f)' = View(f)
  BY DEF View, Mgr!ReadState, Mgr!IsQueued, stateVars

\* A handler that returns has its log written, the others keep theirs.
LEMMA ViewReturn ==
  ASSUME TInv, NEW e \in Executors, Return(e), NEW f \in Executors
  PROVE  View(f)' = IF f = e THEN Logged(e) ELSE View(f)
<1>1. StepType /\ StateType
  BY TypeParts DEF TInv
<1>2. Mgr!WriteState(e, <<e, Log>>, Logged(e)) /\ Handling(e)
  BY DEF Return, Logged
<1>3. Logged(e) \in SUBSET Marks /\ <<e, Log>> \in Mgr!Cells /\ <<f, Log>> \in Mgr!Cells
  BY <1>1, <1>2, LoggedType, Cells
<1>4. /\ StateType' /\ scopes' = scopes
      /\ queued'[f][<<f, Log>>] = IF f = e THEN Logged(e) ELSE queued[f][<<f, Log>>]
  BY <1>1, <1>2, <1>3, QueueWrite
<1>5. Logged(e) # None /\ Logged(e) # Unqueued
  BY <1>3, RunnerNames
<1>6. CASE f = e
  BY <1>4, <1>5, <1>6, ViewNext
<1>7. CASE f # e
  BY <1>1, <1>4, <1>7, ViewNext, ViewType
<1> QED
  BY <1>6, <1>7

LEMMA ViewShared ==
  ASSUME TInv, NEW e \in Executors, WriteShared(e), NEW f \in Executors
  PROVE  View(f)' = View(f)
<1>1. StateType
  BY TypeParts DEF TInv
<1>2. Mgr!WriteState(e, <<Shared, Log>>, {}) /\ {} \in SUBSET Marks
  BY DEF WriteShared
<1>3. StateType' /\ scopes' = scopes /\ queued'[f][<<f, Log>>] = queued[f][<<f, Log>>]
  BY <1>1, <1>2, QueueWrite, Cells
<1> QED
  BY <1>1, <1>3, ViewNext, ViewType

\* Publishing changes nothing an executor sees, and without a contest all that
\* it sees is published.
LEMMA ViewPublished ==
  ASSUME TInv, QueueInv, Checkpoint \/ CheckpointContested \/ CheckpointNotCommitted, NEW e \in Executors
  PROVE  View(e)' = View(e) /\ (Checkpoint \/ CheckpointNotCommitted => LogOf(scopes', e) = View(e))
<1> DEFINE c == <<e, Log>>
<1>1. StateType /\ StateType' /\ c \in Mgr!Cells
  BY TypeParts, Published, Cells DEF TInv
<1>2. PICK D : scopes' = Mgr!Applied(D)
  BY <1>1, Published
<1>3. /\ \/ LogOf(scopes', e) = LogOf(scopes, e)
         \/ queued[e][c] \notin {Unqueued, None} /\ LogOf(scopes', e) = queued[e][c]
      /\ queued[e][c] # None
  BY <1>1, <1>2, PublishedLog, RunnerNames DEF QueueInv
<1>4. View(e) = IF queued[e][c] # Unqueued THEN queued[e][c] ELSE LogOf(scopes, e)
  BY <1>1, <1>3, ViewType
<1>5. CASE CheckpointContested /\ ~(Checkpoint \/ CheckpointNotCommitted)
  <2>1. queued' = queued
    BY <1>5 DEF CheckpointContested, Mgr!PublishUpdatesFails
  <2> QED
    BY <1>1, <1>3, <1>4, <1>5, <2>1, ViewNext
<1>6. CASE Checkpoint \/ CheckpointNotCommitted
  <2>1. scopes' = Mgr!Applied(Mgr!Cells) /\ queued' = [x \in Executors |-> [d \in Mgr!Cells |-> Unqueued]]
    BY <1>6 DEF Checkpoint, CheckpointNotCommitted, Mgr!PublishUpdates
  <2>2. ASSUME queued[e][c] # Unqueued PROVE scopes'[c] = queued[e][c]
    <3> DEFINE f == CHOOSE x \in Executors : Mgr!IsQueued(x, c)
    <3>1. \E x \in Executors : Mgr!IsQueued(x, c)
      BY <2>2 DEF Mgr!IsQueued
    <3>2. f \in Executors /\ Mgr!IsQueued(f, c)
      BY <3>1
    <3>3. scopes'[c] = queued[f][c]
      BY <1>1, <2>1, <3>1 DEF Mgr!Applied
    <3> HIDE DEF f
    <3>4. f = e
      BY <3>2 DEF Mgr!IsQueued, QueueInv
    <3> QED
      BY <3>3, <3>4
  <2>3. LogOf(scopes', e) = View(e)
    BY <1>3, <1>4, <2>2 DEF LogOf
  <2>4. View(e)' = LogOf(scopes', e)
    <3>1. queued'[e][c] = Unqueued
      BY <1>1, <2>1
    <3> QED
      BY <1>1, <3>1, ViewNext
  <2> QED
    BY <2>3, <2>4
<1> QED
  BY <1>5, <1>6

\* A run that was put back sees what the checkpoint holds.
LEMMA ViewRestored ==
  ASSUME TInv, NEW n \in 1 .. Len(checkpoints), Restore(n) \/ Resume(n), NEW e \in Executors
  PROVE  View(e)' = LogOf(checkpoints[n].state, e)
<1>1. StateType'
  BY TypeStep, TypePartsNext DEF TInv, Next, Client
<1>2. scopes' = checkpoints[n].state
  BY DEF Restore, Resume, Import
<1>3. queued'[e][<<e, Log>>] = Unqueued
  BY Cells DEF Restore, Resume, Mgr!ImportState, Mgr!Queued, Mgr!IsQueued
<1> QED
  BY <1>1, <1>2, <1>3, ViewNext

\* When handlers and logs stay as they are, so does what is said of them.
LEMMA HandlersKept ==
  ASSUME NEW m, busy' = busy, \A e \in Executors : View(e)' = View(e)
  PROVE  /\ Hand(m)' <=> Hand(m)
         /\ HandOnce(m) => HandOnce(m)'
         /\ Did(m)' <=> Did(m)
         /\ DidOnce(m) => DidOnce(m)'
         /\ \A e \in Executors : Maker(e, m)' <=> Maker(e, m)
<1>1. (Hand(m)' <=> Hand(m)) /\ (HandOnce(m) => HandOnce(m)')
  BY DEF Hand, HandOnce
<1>2. (Did(m)' <=> Did(m)) /\ (DidOnce(m) => DidOnce(m)')
  BY DEF Did, DidOnce
<1>3. \A e \in Executors : Maker(e, m)' <=> Maker(e, m)
  BY DEF Maker
<1> QED
  BY <1>1, <1>2, <1>3

\* Steps that move nothing: the delivery that is added or taken is not of an id
\* the invariant counts.
LEMMA IdStays ==
  ASSUME NEW m \in Ids, RunId(m), UNCHANGED <<offThread, stepVars, reqVars, minted, restores>>,
         \A e \in Executors : View(e)' = View(e),
         failures \in Nat, failures' \in {failures, failures + 1},
         m \in Inputs => (At(deliveries', m) <=> At(deliveries, m)),
         m \in Inputs => (AtOnce(deliveries, m) => AtOnce(deliveries', m))
  PROVE  RunId(m)'
<1>1. /\ busy' = busy /\ nextStep' = nextStep /\ current' = current /\ pending' = pending
      /\ offThread' = offThread /\ failed' = failed /\ minted' = minted /\ restores' = restores
  BY DEF stepVars, reqVars
<1>2. /\ Hand(m)' <=> Hand(m)
      /\ HandOnce(m) => HandOnce(m)'
      /\ Did(m)' <=> Did(m)
      /\ DidOnce(m) => DidOnce(m)'
      /\ \A e \in Executors : Maker(e, m)' <=> Maker(e, m)
  BY <1>1, HandlersKept
<1>3. (Sent(m)' <=> Sent(m)) /\ (SentOnce(m) => SentOnce(m)')
  BY DEF Sent, SentOnce
<1>4. (Around(m)' <=> Around(m)) /\ (Made(m)' <=> Made(m)) /\ (OneMaker(m) => OneMaker(m)')
  BY <1>1, <1>2, <1>3 DEF Around, Made, OneMaker
<1>5. Single(m)'
  BY <1>1, <1>2, <1>3 DEF Single, Apart, RunId
<1>6. failures' = 0 => failures = 0
  OBVIOUS
<1> QED
  BY <1>1, <1>4, <1>5, <1>6 DEF RunId, IdMinted, IdKnown, IdKept, Sound

\* Messages and responses sent in.
LEMMA IdEnqueue ==
  ASSUME TInv, LastFails, NEW m \in Ids, RunId(m),
         \/ \E i \in Inputs : EnqueueMessage(i)
         \/ \E r \in Requests, port \in BOOLEAN : EnqueueResponse(r, port)
  PROVE  RunId(m)'
<1>1. RestType /\ deliveries \in Seq(Delivery)
  BY TypeParts DEF TInv, RestType
<1>2. /\ UNCHANGED <<offThread, stepVars, reqVars, stateVars, failures, restores>>
  BY DEF EnqueueMessage, EnqueueResponse, counters
<1>3. \A e \in Executors : View(e)' = View(e)
  BY <1>2, ViewKept
<1>4. CASE \E r \in Requests, port \in BOOLEAN : EnqueueResponse(r, port)
  <2>1. PICK r \in Requests, port \in BOOLEAN : EnqueueResponse(r, port)
    BY <1>4
  <2> DEFINE d == [id |-> r, port |-> port]
  <2>2. d \in Delivery /\ d.id \notin Inputs /\ deliveries' = Append(deliveries, d) /\ minted' = minted
    BY <2>1, RunnerNames DEF EnqueueResponse, Delivery, histVars
  <2> HIDE DEF d
  <2>3. m \in Inputs => (At(deliveries', m) <=> At(deliveries, m)) /\ (AtOnce(deliveries, m) => AtOnce(deliveries', m))
    BY <1>1, <2>2, AtAppend
  <2> QED
    BY <1>2, <1>3, <2>2, <2>3, IdStays DEF LastFails
<1>5. CASE \E i \in Inputs : EnqueueMessage(i)
  <2>1. PICK i \in Inputs : EnqueueMessage(i)
    BY <1>5
  <2> DEFINE d == [id |-> i, port |-> TRUE]
  <2>2. /\ d \in Delivery /\ d.id = i /\ deliveries' = Append(deliveries, d)
        /\ minted' = minted \cup {i} /\ i \notin minted
    BY <2>1 DEF EnqueueMessage, Delivery
  <2> HIDE DEF d
  <2>3. /\ At(deliveries', m) <=> At(deliveries, m) \/ m = i
        /\ AtOnce(deliveries, m) /\ (m = i => ~At(deliveries, m)) => AtOnce(deliveries', m)
    BY <1>1, <2>2, AtAppend
  <2>4. m = i => m \in Inputs /\ m \notin Sends \cup Requests /\ ~Around(m) /\ ~Made(m)
    BY <2>1, <2>2, RunnerNames DEF RunId, IdMinted
  <2>5. (Sent(m)' <=> Sent(m) \/ m = i) /\ SentOnce(m)'
    BY <2>3, <2>4 DEF Sent, SentOnce, RunId, Single, Around
  <2>6. /\ busy' = busy /\ nextStep' = nextStep /\ current' = current /\ pending' = pending
        /\ offThread' = offThread /\ failed' = failed
    BY <1>2 DEF stepVars, reqVars
  <2>7. /\ Hand(m)' <=> Hand(m)
        /\ HandOnce(m) => HandOnce(m)'
        /\ Did(m)' <=> Did(m)
        /\ DidOnce(m) => DidOnce(m)'
        /\ \A e \in Executors : Maker(e, m)' <=> Maker(e, m)
    BY <1>3, <2>6, HandlersKept
  <2>8. (Around(m)' <=> Around(m) \/ m = i) /\ (Made(m)' <=> Made(m)) /\ (OneMaker(m) => OneMaker(m)')
    BY <2>5, <2>6, <2>7 DEF Around, Made, OneMaker
  <2>9. Single(m)'
    BY <2>4, <2>5, <2>6, <2>7 DEF Single, Apart, Around, RunId
  <2> QED
    BY <1>2, <2>2, <2>4, <2>6, <2>8, <2>9 DEF RunId, IdMinted, IdKnown, IdKept, Sound
<1> QED
  BY <1>4, <1>5

\* A superstep that begins or fails, a response turned away, the end of a run.
LEMMA IdRest ==
  ASSUME TInv, LastFails, NEW m \in Ids, RunId(m), BeginStep \/ RejectResponse \/ StepFails \/ Close
  PROVE  RunId(m)'
<1>1. RestType /\ deliveries \in Seq(Delivery)
  BY TypeParts DEF TInv, RestType
<1>2. UNCHANGED <<offThread, stepVars, reqVars, stateVars, minted, failures, restores>>
  BY DEF BeginStep, RejectResponse, StepFails, Close, histVars, counters
<1>3. \A e \in Executors : View(e)' = View(e)
  BY <1>2, ViewKept
<1>4. m \in Inputs => (At(deliveries', m) <=> At(deliveries, m)) /\ (AtOnce(deliveries, m) => AtOnce(deliveries', m))
  <2>1. CASE RejectResponse
    <3>1. deliveries # <<>> /\ deliveries' = Tail(deliveries) /\ Head(deliveries).id \notin Inputs
      BY <2>1, RunnerNames DEF RejectResponse
    <3> QED
      BY <1>1, <3>1, AtTail
  <2>2. CASE BeginStep \/ StepFails \/ Close
    BY <2>2 DEF BeginStep, StepFails, Close
  <2> QED
    BY <2>1, <2>2
<1> QED
  BY <1>2, <1>3, <1>4, IdStays DEF LastFails

\* A delivery is mapped into the next step.
LEMMA IdDeliver ==
  ASSUME TInv, NEW m \in Ids, RunId(m), DeliverInput \/ DeliverResponse
  PROVE  RunId(m)'
<1>1. /\ StepType /\ ReqType /\ deliveries \in Seq(Delivery)
  BY TypeParts DEF TInv, RestType
<1>2. UNCHANGED <<offThread, current, busy, failed, stateVars, minted, failures, restores>>
  BY DEF DeliverInput, DeliverResponse, histVars, counters
<1> DEFINE x == Head(deliveries).id
<1>3. /\ \A e \in Executors : View(e)' = View(e)
      /\ Hand(m)' <=> Hand(m)
      /\ HandOnce(m) => HandOnce(m)'
      /\ Did(m)' <=> Did(m)
      /\ DidOnce(m) => DidOnce(m)'
      /\ \A e \in Executors : Maker(e, m)' <=> Maker(e, m)
  BY <1>2, ViewKept, HandlersKept
<1>4. /\ deliveries # <<>> /\ deliveries' = Tail(deliveries)
      /\ At(deliveries, m) <=> At(deliveries', m) \/ m = x
      /\ AtOnce(deliveries, m) => AtOnce(deliveries', m) /\ (m = x => ~At(deliveries', m))
  <2>1. deliveries # <<>> /\ deliveries' = Tail(deliveries)
    BY DEF DeliverInput, DeliverResponse
  <2> QED
    BY <1>1, <2>1, AtTail
<1>5. /\ x \in Inputs => pending' = pending
      /\ x \notin Inputs => x \in pending /\ pending' = pending \ {x}
      /\ \E e \in Executors : nextStep' = [nextStep EXCEPT ![e] = Append(@, x)]
      /\ x \in Ids
  <2>1. CASE DeliverInput
    BY <2>1, RunnerAssumption DEF DeliverInput, Ids, reqVars
  <2>2. CASE DeliverResponse
    <3>1. x \in pending /\ x \in Requests /\ pending' = pending \ {x} /\ owner[x] \in Executors
      BY <1>1, <2>2 DEF DeliverResponse, Complete, ReqType
    <3>2. nextStep' = [nextStep EXCEPT ![owner[x]] = Append(@, x)]
      BY <2>2 DEF DeliverResponse, Receiver
    <3> QED
      BY <3>1, <3>2, RunnerNames DEF Ids
  <2> QED
    BY <2>1, <2>2
<1> HIDE DEF x
<1>6. /\ Has(nextStep', m) <=> Has(nextStep, m) \/ m = x
      /\ Once(nextStep, m) /\ (m = x => ~Has(nextStep, m)) => Once(nextStep', m)
  <2>1. PICK e \in Executors : nextStep' = [nextStep EXCEPT ![e] = Append(@, x)]
    BY <1>5
  <2>2. nextStep \in Messages
    BY <1>1 DEF StepType
  <2> QED
    BY <1>5, <2>1, <2>2, HasAppend
<1>7. Single(m) /\ (m = x => Sent(m) \/ m \in pending)
  BY <1>4, <1>5 DEF RunId, Sent
<1>8. /\ m # x => (Sent(m)' <=> Sent(m)) /\ (m \in pending' <=> m \in pending)
      /\ m = x => ~Sent(m)' /\ m \notin pending'
      /\ SentOnce(m)'
  <2>1. pending \subseteq Requests /\ Inputs \cap Requests = {}
    BY <1>1, RunnerNames DEF ReqType
  <2>2. Single(m) => (m \in Inputs => AtOnce(deliveries, m))
    BY DEF Single, SentOnce
  <2> QED
    BY <1>4, <1>5, <1>7, <2>1, <2>2 DEF Sent, SentOnce
<1>9. (Around(m)' <=> Around(m)) /\ (Made(m)' <=> Made(m)) /\ (OneMaker(m) => OneMaker(m)')
  BY <1>2, <1>3, <1>6, <1>7, <1>8 DEF Around, Made, OneMaker
<1>10. Single(m)'
  BY <1>2, <1>3, <1>6, <1>7, <1>8 DEF Single, Apart
<1> QED
  BY <1>2, <1>9, <1>10 DEF RunId, IdMinted, IdKnown, IdKept, Sound

\* The next step becomes the current one, which was done. What failed before was
\* in lockstep, or this would not be.
LEMMA IdSwap ==
  ASSUME TInv, StepClean, LastFails, NEW m \in Ids, RunId(m), Swap PROVE RunId(m)'
<1>1. /\ UNCHANGED <<offThread, deliveries, busy, pending, minted, failures, restores>> /\ UNCHANGED stateVars
      /\ current' = nextStep /\ nextStep' = NoMessages /\ phase = "advancing" /\ failed' = FALSE
  BY DEF Swap, reqVars, histVars, counters
<1>2. /\ \A e \in Executors : View(e)' = View(e)
      /\ Hand(m)' <=> Hand(m)
      /\ HandOnce(m) => HandOnce(m)'
      /\ Did(m)' <=> Did(m)
      /\ DidOnce(m) => DidOnce(m)'
      /\ \A e \in Executors : Maker(e, m)' <=> Maker(e, m)
  BY <1>1, ViewKept, HandlersKept
<1>3. (Sent(m)' <=> Sent(m)) /\ (SentOnce(m) => SentOnce(m)')
  BY <1>1 DEF Sent, SentOnce
<1>4. ~Has(current, m) /\ ~Has(nextStep', m) /\ Once(nextStep', m)
  BY <1>1, HasNone DEF StepClean
<1>5. (Around(m)' <=> Around(m)) /\ (Made(m)' <=> Made(m)) /\ (OneMaker(m) => OneMaker(m)')
  BY <1>1, <1>2, <1>3, <1>4 DEF Around, Made, OneMaker
<1>6. Single(m)'
  BY <1>1, <1>2, <1>3, <1>4 DEF Single, Apart, RunId
<1>7. Sound => ~failed
  BY <1>1 DEF LastFails, Sound
<1> QED
  BY <1>1, <1>5, <1>6, <1>7 DEF RunId, IdMinted, IdKnown, IdKept, Sound

\* A receiver takes its next message into its handler.
LEMMA IdTake ==
  ASSUME TInv, NEW m \in Ids, RunId(m), NEW e \in Executors, Take(e) PROVE RunId(m)'
<1>1. StepType
  BY TypeParts DEF TInv
<1> DEFINE x == Head(current[e])
<1>2. /\ UNCHANGED <<offThread, deliveries, nextStep, failed, pending, minted, failures, restores>>
      /\ UNCHANGED stateVars
      /\ busy[e] = None /\ current[e] # <<>> /\ current' = [current EXCEPT ![e] = Tail(@)]
      /\ busy' = [busy EXCEPT ![e] = [id |-> x, made |-> {}]]
  BY DEF Take, reqVars, histVars, counters
<1>3. /\ x \in Ids
      /\ Has(current, m) <=> Has(current', m) \/ m = x
      /\ Once(current, m) => Once(current', m) /\ (m = x => ~Has(current', m))
  BY <1>1, <1>2, HasTail DEF StepType
<1> HIDE DEF x
<1>4. /\ \A f \in Executors : f # e => busy'[f] = busy[f]
      /\ busy'[e].id = x /\ busy'[e].made = {} /\ busy'[e] # None
  <2>1. [id |-> x, made |-> {}] # None
    BY <1>3, RunnerNames
  <2> QED
    BY <1>1, <1>2, <2>1 DEF StepType
<1>5. ~Handling(e) /\ (m = x => ~Hand(m))
  BY <1>2, <1>3 DEF Handling, RunId, Single, Apart
<1>6. Hand(m)' <=> Hand(m) \/ m = x
  BY <1>2, <1>4 DEF Hand
<1>7. HandOnce(m) => HandOnce(m)'
  <2>1. ASSUME HandOnce(m), NEW f \in Executors, NEW d \in Executors,
               busy'[f] # None, busy'[f].id = m, busy'[d] # None, busy'[d].id = m
        PROVE  f = d
    BY <1>4, <1>5, <2>1 DEF HandOnce, Hand
  <2> QED
    BY <2>1 DEF HandOnce
<1>8. /\ \A f \in Executors : View(f)' = View(f)
      /\ Did(m)' <=> Did(m)
      /\ DidOnce(m) => DidOnce(m)'
      /\ Sent(m)' <=> Sent(m)
      /\ SentOnce(m) => SentOnce(m)'
  BY <1>2, ViewKept DEF Did, DidOnce, Sent, SentOnce
<1>9. \A f \in Executors : Maker(f, m)' <=> Maker(f, m)
  BY <1>2, <1>4, <1>8 DEF Maker
<1>10. (Around(m)' <=> Around(m)) /\ (Made(m)' <=> Made(m)) /\ (OneMaker(m) => OneMaker(m)')
  BY <1>2, <1>3, <1>6, <1>8, <1>9 DEF Around, Made, OneMaker
<1>11. Single(m)'
  BY <1>2, <1>3, <1>5, <1>6, <1>7, <1>8 DEF Single, Apart, RunId
<1> QED
  BY <1>2, <1>10, <1>11 DEF RunId, IdMinted, IdKnown, IdKept, Sound

\* A handler fails: what it was given and what its receiver had left are gone.
LEMMA IdFail ==
  ASSUME TInv, LastFails, NEW m \in Ids, RunId(m), NEW e \in Executors, Fail(e) PROVE RunId(m)'
<1>1. StepType
  BY TypeParts DEF TInv
<1>2. /\ UNCHANGED <<offThread, deliveries, nextStep, pending, minted>> /\ UNCHANGED stateVars
      /\ failed' = TRUE /\ failures' # 0
      /\ current' = [current EXCEPT ![e] = <<>>] /\ busy' = [busy EXCEPT ![e] = None]
  BY DEF Fail, reqVars, histVars, LastFails
<1>3. (Has(current', m) => Has(current, m)) /\ (Once(current, m) => Once(current', m))
  BY <1>1, <1>2, HasDrop DEF StepType
<1>4. \A f \in Executors : busy'[f] = IF f = e THEN None ELSE busy[f]
  BY <1>1, <1>2 DEF StepType
<1>5. /\ Hand(m)' => Hand(m)
      /\ HandOnce(m) => HandOnce(m)'
  BY <1>4 DEF Hand, HandOnce
<1>6. /\ \A f \in Executors : View(f)' = View(f)
      /\ Did(m)' <=> Did(m)
      /\ DidOnce(m) => DidOnce(m)'
      /\ Sent(m)' <=> Sent(m)
      /\ SentOnce(m) => SentOnce(m)'
  BY <1>2, ViewKept DEF Did, DidOnce, Sent, SentOnce
<1>7. \A f \in Executors : Maker(f, m)' => Maker(f, m)
  BY <1>4, <1>6 DEF Maker
<1>8. (Around(m)' => Around(m)) /\ (Made(m)' => Made(m)) /\ (OneMaker(m) => OneMaker(m)')
  BY <1>2, <1>3, <1>5, <1>6, <1>7 DEF Around, Made, OneMaker
<1>9. Single(m)'
  BY <1>2, <1>3, <1>5, <1>6 DEF Single, Apart, RunId
<1> QED
  BY <1>2, <1>8, <1>9 DEF RunId, IdMinted, IdKnown, IdKept

\* A handler makes something new: a message for the next step, or a request.
LEMMA IdSend ==
  ASSUME TInv, NEW m \in Ids, RunId(m), NEW e \in Executors,
         \/ \E x \in Sends, to \in Executors : Send(e, x, to)
         \/ \E r \in Requests : Post(e, r)
  PROVE  RunId(m)'
<1>1. StepType
  BY TypeParts DEF TInv
<1>2. PICK x \in Sends \cup Requests :
        /\ x \notin minted /\ minted' = minted \cup {x}
        /\ busy' = [busy EXCEPT ![e].made = @ \cup {x}] /\ Handling(e)
        /\ \/ /\ \E to \in Executors : nextStep' = [nextStep EXCEPT ![to] = Append(@, x)]
              /\ pending' = pending
           \/ nextStep' = nextStep /\ pending' = pending \cup {x}
        /\ UNCHANGED <<offThread, deliveries, current, failed, failures, restores>> /\ UNCHANGED stateVars
  BY DEF Send, Post, reqVars, counters
<1>3. x \in Ids
  BY DEF Ids
<1>4. \A f \in Executors :
        /\ busy'[f] # None <=> busy[f] # None
        /\ busy[f] # None => busy'[f].id = busy[f].id
        /\ f = e => busy'[f].made = busy[f].made \cup {x} /\ busy[f] # None
        /\ f # e => busy'[f] = busy[f]
  <2>1. busy[e] \in [id : Ids, made : SUBSET Ids] /\ busy[e] # None
    BY <1>1, <1>2 DEF Handling, StepType
  <2> DEFINE b == [busy[e] EXCEPT !.made = @ \cup {x}]
  <2>2. b \in [id : Ids, made : SUBSET Ids] /\ b.id = busy[e].id /\ b.made = busy[e].made \cup {x}
    BY <1>3, <2>1
  <2>3. \A f \in Executors : busy'[f] = IF f = e THEN b ELSE busy[f]
    BY <1>1, <1>2 DEF StepType
  <2> HIDE DEF b
  <2>4. b # None
    BY <2>2, RunnerNames
  <2> QED
    BY <2>1, <2>2, <2>3, <2>4
<1>5. m = x => ~Around(m) /\ ~Made(m)
  BY <1>2 DEF RunId, IdMinted
<1>6. /\ \A f \in Executors : View(f)' = View(f)
      /\ Did(m)' <=> Did(m)
      /\ DidOnce(m) => DidOnce(m)'
      /\ Sent(m)' <=> Sent(m)
      /\ SentOnce(m) => SentOnce(m)'
  BY <1>2, ViewKept DEF Did, DidOnce, Sent, SentOnce
<1>7. (Hand(m)' <=> Hand(m)) /\ (HandOnce(m) => HandOnce(m)')
  BY <1>4 DEF Hand, HandOnce
<1>8. \A f \in Executors : Maker(f, m)' <=> Maker(f, m) \/ (f = e /\ m = x)
  BY <1>4, <1>6 DEF Maker
<1>9. /\ Has(nextStep', m) \/ m \in pending' <=> Has(nextStep, m) \/ m \in pending \/ m = x
      /\ m # x => (Has(nextStep', m) <=> Has(nextStep, m)) /\ (m \in pending' <=> m \in pending)
      /\ Single(m) => ~(Has(nextStep', m) /\ m \in pending')
      /\ Once(nextStep, m) => Once(nextStep', m)
  <2>1. CASE \E to \in Executors : nextStep' = [nextStep EXCEPT ![to] = Append(@, x)] /\ pending' = pending
    <3>1. PICK to \in Executors : nextStep' = [nextStep EXCEPT ![to] = Append(@, x)] /\ pending' = pending
      BY <2>1
    <3>2. /\ Has(nextStep', m) <=> Has(nextStep, m) \/ m = x
          /\ Once(nextStep, m) /\ (m = x => ~Has(nextStep, m)) => Once(nextStep', m)
      BY <1>1, <1>3, <3>1, HasAppend DEF StepType
    <3> QED
      BY <1>5, <3>1, <3>2 DEF Around, Single, Apart
  <2>2. CASE nextStep' = nextStep /\ pending' = pending \cup {x}
    BY <1>5, <2>2 DEF Around, Single, Apart
  <2> QED
    BY <1>2, <2>1, <2>2
<1>10. (Around(m)' <=> Around(m) \/ m = x) /\ (Made(m)' <=> Made(m) \/ m = x)
  BY <1>2, <1>6, <1>7, <1>8, <1>9 DEF Around, Made
<1>11. OneMaker(m)'
  BY <1>5, <1>8 DEF OneMaker, Made, RunId
<1>12. Single(m)'
  <2>1. CASE m = x
    BY <1>2, <1>5, <1>6, <1>7, <1>9, <2>1 DEF Single, Apart, Around, RunId
  <2>2. CASE m # x
    BY <1>2, <1>6, <1>7, <1>9, <2>2 DEF Single, Apart, RunId
  <2> QED
    BY <2>1, <2>2
<1> QED
  BY <1>2, <1>10, <1>11, <1>12 DEF RunId, IdMinted, IdKnown, IdKept, Sound

\* A handler returns: what it handled and made is in its log.
LEMMA IdReturn ==
  ASSUME TInv, NEW m \in Ids, RunId(m), NEW e \in Executors, Return(e) PROVE RunId(m)'
<1>1. StepType
  BY TypeParts DEF TInv
<1> DEFINE x == busy[e].id
<1>2. /\ UNCHANGED <<offThread, deliveries, nextStep, current, failed, pending, minted, failures, restores>>
      /\ busy[e] # None /\ busy' = [busy EXCEPT ![e] = None]
  BY DEF Return, Handling, reqVars, histVars, counters
<1>3. \A f \in Executors : busy'[f] = IF f = e THEN None ELSE busy[f]
  BY <1>1, <1>2 DEF StepType
<1>4. \A f \in Executors : View(f)' = IF f = e THEN Logged(e) ELSE View(f)
  BY ViewReturn
<1>5. /\ <<"did", m>> \in Logged(e) <=> <<"did", m>> \in View(e) \/ m = x
      /\ <<"made", m>> \in Logged(e) <=> <<"made", m>> \in View(e) \/ m \in busy[e].made
  <2>1. "did" # "made"
    OBVIOUS
  <2> QED
    BY <2>1 DEF Logged
<1> HIDE DEF x
<1>6. m = x => Hand(m) /\ ~Did(m)
  BY <1>2 DEF x, Hand, RunId, Single, Apart
<1>7. HandOnce(m) /\ Hand(m)' => m # x
  BY <1>2, <1>3 DEF x, Hand, HandOnce
<1>8. /\ Hand(m)' \/ m = x <=> Hand(m)
      /\ HandOnce(m) => HandOnce(m)'
      /\ Did(m)' <=> Did(m) \/ m = x
  BY <1>2, <1>3, <1>4, <1>5 DEF x, Hand, HandOnce, Did
<1>9. DidOnce(m) => DidOnce(m)'
  BY <1>4, <1>5, <1>6 DEF Did, DidOnce
<1>10. (Sent(m)' <=> Sent(m)) /\ (SentOnce(m) => SentOnce(m)')
  BY <1>2 DEF Sent, SentOnce
<1>11. \A f \in Executors : Maker(f, m)' <=> Maker(f, m)
  BY <1>2, <1>3, <1>4, <1>5 DEF Maker
<1>12. (Around(m)' <=> Around(m)) /\ (Made(m)' <=> Made(m)) /\ (OneMaker(m) => OneMaker(m)')
  BY <1>2, <1>8, <1>10, <1>11 DEF Around, Made, OneMaker
<1>13. Single(m)'
  BY <1>2, <1>6, <1>7, <1>8, <1>9, <1>10 DEF Single, Apart, RunId
<1> QED
  BY <1>2, <1>12, <1>13 DEF RunId, IdMinted, IdKnown, IdKept, Sound

LEMMA IdShared ==
  ASSUME TInv, LastFails, NEW m \in Ids, RunId(m), NEW e \in Executors, WriteShared(e) PROVE RunId(m)'
<1>1. /\ UNCHANGED <<offThread, stepVars, reqVars, minted, restores>>
      /\ deliveries' = deliveries /\ failures' = failures
  BY DEF WriteShared, histVars, counters
<1>2. \A f \in Executors : View(f)' = View(f)
  BY ViewShared
<1> QED
  BY <1>1, <1>2, IdStays DEF LastFails

\* The end of a superstep moves nothing.
LEMMA IdCheckpoint ==
  ASSUME TInv, QueueInv, LastFails, NEW m \in Ids, RunId(m),
         Checkpoint \/ CheckpointContested \/ CheckpointNotCommitted
  PROVE  RunId(m)'
<1>1. /\ UNCHANGED <<offThread, stepVars, reqVars, minted, restores>>
      /\ deliveries' = deliveries /\ failures' \in {failures, failures + 1}
  BY DEF Checkpoint, CheckpointContested, CheckpointNotCommitted, histVars, counters
<1>2. \A f \in Executors : View(f)' = View(f)
  BY ViewPublished
<1> QED
  BY <1>1, <1>2, IdStays DEF LastFails

\* A run put back is where the checkpoint is.
LEMMA IdRestore ==
  ASSUME TInv, StepClean, LastFails, NEW m \in Ids, RunId(m), NEW n \in 1 .. Len(checkpoints),
         CpInv(checkpoints[n], m), Restore(n) \/ Resume(n)
  PROVE  RunId(m)'
<1> DEFINE c == checkpoints[n]
<1>1. /\ UNCHANGED <<offThread, minted, failures>> /\ restores' # 0
      /\ deliveries' = <<>> /\ nextStep' = c.messages /\ pending' = c.pending
      /\ failed' \in {failed, FALSE}
  <2>1. restores \in Nat
    BY DEF LastFails
  <2>2. UNCHANGED <<offThread, minted, failures>> /\ restores' = restores + 1 /\ failed' \in {failed, FALSE}
    BY DEF Restore, Resume, histVars
  <2>3. deliveries' = <<>> /\ nextStep' = c.messages /\ pending' = c.pending
    BY DEF Restore, Resume, Import
  <2>4. restores' # 0
    BY <2>1, <2>2
  <2> QED
    BY <2>2, <2>3, <2>4
<1>2. current' = NoMessages /\ \A e \in Executors : busy'[e] = None
  BY DEF Restore, Resume, StepClean
<1>3. \A e \in Executors : View(e)' = LogOf(c.state, e)
  BY ViewRestored
<1> HIDE DEF c
<1>4. ~Sent(m)' /\ SentOnce(m)'
  BY <1>1 DEF Sent, SentOnce, At, AtOnce
<1>5. ~Has(current', m) /\ Once(current', m) /\ ~Hand(m)' /\ HandOnce(m)'
  BY <1>2, HasNone DEF Hand, HandOnce
<1>6. Did(m)' <=> CpDid(c, m)
  BY <1>3 DEF Did, CpDid
<1>7. Made(m)' <=> CpMade(c, m)
  BY <1>2, <1>3 DEF Made, Maker, CpMade
<1>8. CpInv(c, m)
  BY DEF c
<1>9. DidOnce(m)' /\ OneMaker(m)'
  BY <1>2, <1>3, <1>8 DEF DidOnce, OneMaker, Maker, CpInv, CpSingle
<1>10. Around(m)' <=> CpAround(c, m)
  BY <1>1, <1>4, <1>5, <1>6 DEF Around, CpAround
<1>11. Single(m)'
  BY <1>1, <1>4, <1>5, <1>6, <1>8, <1>9 DEF Single, Apart, CpInv, CpSingle
<1> QED
  BY <1>1, <1>7, <1>8, <1>9, <1>10, <1>11 DEF RunId, IdMinted, IdKnown, IdKept, CpInv, Sound

\* A checkpoint is where the run is.
LEMMA CpExported ==
  ASSUME TInv, QueueInv, Checkpoint, NEW m \in Ids, RunId(m)
  PROVE  CpInv(Exported, m)
<1> DEFINE c == Exported
<1>1. /\ c.messages = nextStep /\ c.pending = pending /\ c.state = scopes'
      /\ current = NoMessages /\ (\A e \in Executors : busy[e] = None) /\ failed = FALSE
  <2>1. failed \in BOOLEAN
    BY DEF TInv, TypeOK
  <2> QED
    BY <2>1 DEF Exported, Checkpoint, Delivered
<1>2. \A e \in Executors : LogOf(c.state, e) = View(e)
  BY <1>1, ViewPublished
<1> HIDE DEF c
<1>3. ~Sent(m) \/ m \notin Sends \cup Requests
  BY RunnerNames DEF Sent
<1>4. /\ ~Has(current, m) /\ ~Hand(m)
      /\ Did(m) <=> CpDid(c, m)
      /\ Made(m) <=> CpMade(c, m)
  BY <1>1, <1>2, HasNone DEF Hand, Did, CpDid, Made, Maker, CpMade
<1>5. (CpAround(c, m) => Around(m)) /\ (m \in Sends \cup Requests => (Around(m) => CpAround(c, m)))
  BY <1>1, <1>3, <1>4 DEF Around, CpAround
<1>6. \A e, d \in Executors : <<"made", m>> \in LogOf(c.state, e) /\ <<"made", m>> \in LogOf(c.state, d) => e = d
  BY <1>2 DEF RunId, OneMaker, Maker
<1>7. \A e, d \in Executors : <<"did", m>> \in LogOf(c.state, e) /\ <<"did", m>> \in LogOf(c.state, d) => e = d
  BY <1>2 DEF RunId, Single, DidOnce
<1>8. CpSingle(c, m)
  BY <1>1, <1>4, <1>6, <1>7 DEF CpSingle, RunId, Single, Apart
<1>9. CpAround(c, m) \/ CpMade(c, m) => m \in minted
  BY <1>4, <1>5 DEF RunId, IdMinted
<1>10. Sound /\ m \in Sends \cup Requests => (CpMade(c, m) <=> CpAround(c, m))
  BY <1>1, <1>4, <1>5 DEF RunId, IdKnown
<1>11. CpInv(c, m)
  BY <1>8, <1>9, <1>10 DEF CpInv
<1> QED
  BY <1>11 DEF c

\* What holds of a checkpoint goes on to hold of it.
LEMMA CpStays ==
  ASSUME NEW c, NEW m, CpInv(c, m), LastFails, minted \subseteq minted', offThread' = offThread,
         failures' \in {failures, failures + 1}
  PROVE  CpInv(c, m)'
<1>1. Sound' => Sound
  BY DEF Sound, LastFails
<1> QED
  BY <1>1 DEF CpInv, CpSingle, CpAround, CpDid, CpMade, LogOf

\* What no step does.
LEMMA Forward ==
  ASSUME [Next]_vars, LastFails
  PROVE  minted \subseteq minted' /\ offThread' = offThread /\ failures' \in {failures, failures + 1}
<1>1. CASE Client
  BY <1>1 DEF Client, EnqueueMessage, EnqueueResponse, Restore, Resume, Close, histVars, counters
<1>2. CASE Loop
  BY <1>2 DEF Loop, BeginStep, DeliverInput, DeliverResponse, RejectResponse, Swap, StepFails,
              Checkpoint, CheckpointContested, CheckpointNotCommitted, histVars, counters
<1>3. CASE \E e \in Executors : Handler(e)
  BY <1>3 DEF Handler, Take, Send, Post, WriteShared, Return, Fail, histVars, counters
<1>4. CASE UNCHANGED vars
  BY <1>4 DEF vars, histVars, counters
<1> QED
  BY <1>1, <1>2, <1>3, <1>4 DEF Next

LEMMA CpIdsStep ==
  ASSUME TInv, QueueInv, LastFails, RunIds, CpIds, [Next]_vars PROVE CpIds'
<1>1. minted \subseteq minted' /\ offThread' = offThread /\ failures' \in {failures, failures + 1}
  BY Forward
<1>2. CASE checkpoints' = checkpoints
  <2> SUFFICES ASSUME NEW n \in 1 .. Len(checkpoints), NEW m \in Ids PROVE CpInv(checkpoints[n], m)'
    BY <1>2 DEF CpIds
  <2>1. PICK c : c = checkpoints[n]
    OBVIOUS
  <2>2. CpInv(c, m)
    BY <2>1 DEF CpIds
  <2>3. CpInv(c, m)'
    BY <1>1, <2>2, CpStays
  <2> QED
    BY <1>2, <2>1, <2>3
<1>3. CASE Checkpoint
  <2>1. StepType /\ ReqType /\ CpType /\ StateType /\ StateType'
    BY <1>3, TypeParts, Published DEF TInv
  <2>2. PICK c : c = Exported
    OBVIOUS
  <2>3. c \in CheckpointType /\ checkpoints' = Append(checkpoints, c)
    BY <1>3, <2>1, <2>2, ExportedType DEF Checkpoint
  <2>4. /\ \A n \in 1 .. Len(checkpoints) : checkpoints'[n] = checkpoints[n]
        /\ checkpoints'[Len(checkpoints')] = c
        /\ \A n \in 1 .. Len(checkpoints') : n \in 1 .. Len(checkpoints) \/ n = Len(checkpoints')
    BY <2>1, <2>3, OneMoreCheckpoint
  <2> SUFFICES ASSUME NEW n \in 1 .. Len(checkpoints'), NEW m \in Ids PROVE CpInv(checkpoints[n], m)'
    BY DEF CpIds
  <2>5. PICK b : b = checkpoints'[n]
    OBVIOUS
  <2>6. CpInv(b, m)
    <3>1. CASE n \in 1 .. Len(checkpoints)
      BY <2>4, <2>5, <3>1 DEF CpIds
    <3>2. CASE n = Len(checkpoints')
      BY <1>3, <2>2, <2>4, <2>5, <3>2, CpExported DEF RunIds
    <3> QED
      BY <2>4, <3>1, <3>2
  <2>7. CpInv(b, m)'
    BY <1>1, <2>6, CpStays
  <2> QED
    BY <2>5, <2>7
<1>4. checkpoints' = checkpoints \/ Checkpoint
  <2>1. CASE Client
    BY <2>1 DEF Client, EnqueueMessage, EnqueueResponse, Restore, Resume, Close, cpVars
  <2>2. CASE Loop
    BY <2>2 DEF Loop, BeginStep, DeliverInput, DeliverResponse, RejectResponse, Swap, StepFails,
                CheckpointContested, CheckpointNotCommitted, cpVars
  <2>3. CASE \E e \in Executors : Handler(e)
    BY <2>3 DEF Handler, Take, Send, Post, WriteShared, Return, Fail, cpVars
  <2>4. CASE UNCHANGED vars
    BY <2>4 DEF vars, cpVars
  <2> QED
    BY <2>1, <2>2, <2>3, <2>4 DEF Next
<1> QED
  BY <1>2, <1>3, <1>4

LEMMA RunIdsStep ==
  ASSUME TInv, QueueInv, StepClean, LastFails, RunIds, CpIds, [Next]_vars PROVE RunIds'
<1> SUFFICES ASSUME NEW m \in Ids PROVE RunId(m)'
  BY DEF RunIds
<1>1. RunId(m)
  BY DEF RunIds
<1>2. CASE Client
  <2>1. CASE \E n \in 1 .. Len(checkpoints) : Restore(n) \/ Resume(n)
    BY <1>1, <2>1, IdRestore DEF CpIds
  <2> QED
    BY <1>1, <1>2, <2>1, IdEnqueue, IdRest DEF Client
<1>3. CASE Loop
  BY <1>1, <1>3, IdRest, IdDeliver, IdSwap, IdCheckpoint DEF Loop
<1>4. CASE \E e \in Executors : Handler(e)
  BY <1>1, <1>4, IdTake, IdSend, IdShared, IdReturn, IdFail DEF Handler
<1>5. CASE UNCHANGED vars
  <2>1. UNCHANGED <<offThread, stepVars, reqVars, stateVars, minted, restores, failures, deliveries>>
    BY <1>5 DEF vars, histVars, counters
  <2>2. \A f \in Executors : View(f)' = View(f)
    BY <2>1, ViewKept
  <2> QED
    BY <1>1, <2>1, <2>2, IdStays DEF LastFails
<1> QED
  BY <1>2, <1>3, <1>4, <1>5 DEF Next

LEMMA StepCleanStep ==
  ASSUME TInv, StepClean, LastFails, [Next]_vars PROVE StepClean' /\ LastFails'
<1>0. failures \in Nat /\ restores \in Nat
  BY DEF LastFails
<1>1. CASE Client
  <2>1. CASE \/ \E i \in Inputs : EnqueueMessage(i)
             \/ \E r \in Requests, port \in BOOLEAN : EnqueueResponse(r, port)
             \/ Close
    <3>1. UNCHANGED <<stepVars, offThread, failures, restores>>
      BY <2>1 DEF EnqueueMessage, EnqueueResponse, Close, counters
    <3>2. UNCHANGED <<phase, loopAlive>> \/ (phase' = "ended" /\ ~loopAlive')
      BY <2>1 DEF EnqueueMessage, EnqueueResponse, Close
    <3> QED
      BY <1>0, <3>1, <3>2 DEF StepClean, LastFails, stepVars
  <2>2. CASE \E n \in 1 .. Len(checkpoints) : Restore(n)
    BY <1>0, <2>2 DEF Restore, StepClean, LastFails
  <2>3. CASE \E n \in 1 .. Len(checkpoints) : Resume(n)
    BY <1>0, <2>3 DEF Resume, StepClean, LastFails
  <2> QED
    BY <1>1, <2>1, <2>2, <2>3 DEF Client
<1>2. CASE Loop
  <2>1. CASE BeginStep \/ DeliverInput \/ DeliverResponse \/ RejectResponse
    BY <1>0, <2>1 DEF BeginStep, DeliverInput, DeliverResponse, RejectResponse, AdvanceError, StepClean, LastFails,
                 stepVars, counters
  <2>2. CASE Swap \/ StepFails
    <3>1. CASE Swap
      BY <1>0, <3>1 DEF Swap, StepClean, LastFails, counters
    <3>2. CASE StepFails
      BY <1>0, <3>2 DEF StepFails, Delivered, StepError, StepClean, LastFails, stepVars, counters
    <3> QED
      BY <2>2, <3>1, <3>2
  <2>3. CASE Checkpoint \/ CheckpointContested \/ CheckpointNotCommitted
    BY <1>0, <2>3 DEF Checkpoint, CheckpointContested, CheckpointNotCommitted, Delivered, StepError, StepClean,
                 LastFails, stepVars, counters
  <2> QED
    BY <1>2, <2>1, <2>2, <2>3 DEF Loop
<1>3. CASE \E e \in Executors : Handler(e)
  <2>1. PICK e \in Executors : Handler(e)
    BY <1>3
  <2>2. /\ phase = "delivering" /\ UNCHANGED <<phase, loopAlive, offThread, restores>>
        /\ (failures' = failures /\ failed' = failed) \/ failures' = failures + 1
    BY <2>1 DEF Handler, Take, Send, Post, WriteShared, Return, Fail, Handling, stepVars, counters
  <2> QED
    BY <1>0, <2>2 DEF StepClean, LastFails
<1>4. CASE UNCHANGED vars
  BY <1>4 DEF vars, stepVars, counters, StepClean, LastFails
<1> QED
  BY <1>1, <1>2, <1>3, <1>4 DEF Next

LEMMA CutInit == Init => CutInv
<1> SUFFICES ASSUME Init PROVE CutInv
  OBVIOUS
<1>1. StepClean /\ LastFails /\ CpIds
  BY DEF Init, StepClean, LastFails, CpIds
<1>2. \A e \in Executors : View(e) = {} /\ busy[e] = None
  <2>1. StateType /\ \A e \in Executors : queued[e][<<e, Log>>] = Unqueued /\ LogOf(scopes, e) = {} /\ busy[e] = None
    BY TypeInit, TypeParts, Cells DEF TInv, Init, Mgr!Init, LogOf
  <2> QED
    BY <2>1, ViewType
<1>3. \A m \in Ids : RunId(m)
  <2> TAKE m \in Ids
  <2>1. ~Sent(m) /\ SentOnce(m) /\ m \notin pending /\ minted = {}
    BY DEF Init, Sent, SentOnce, At, AtOnce
  <2>2. ~Has(nextStep, m) /\ Once(nextStep, m) /\ ~Has(current, m) /\ Once(current, m)
    BY HasNone DEF Init
  <2>3. ~Hand(m) /\ HandOnce(m) /\ ~Did(m) /\ DidOnce(m) /\ ~Made(m) /\ OneMaker(m)
    BY <1>2 DEF Hand, HandOnce, Did, DidOnce, Made, OneMaker, Maker
  <2> QED
    BY <2>1, <2>2, <2>3 DEF RunId, Single, Apart, Around, IdMinted, IdKnown, IdKept
<1> QED
  BY <1>1, <1>3 DEF CutInv, RunIds

LEMMA CutStep == TInv /\ QueueInv /\ CutInv /\ [Next]_vars => CutInv'
  BY CpIdsStep, RunIdsStep, StepCleanStep DEF CutInv

\* The size of a set that has one member at most.
LEMMA OneAtMost ==
  ASSUME NEW S, \A a, b \in S : a = b
  PROVE  Cardinality(S) = IF S = {} THEN 0 ELSE 1
<1>1. CASE S = {}
  BY <1>1, FS_EmptySet
<1>2. CASE S # {}
  <2>1. PICK a \in S : S = {a}
    BY <1>2
  <2> QED
    BY <1>2, <2>1, FS_Singleton
<1> QED
  BY <1>1, <1>2

\* How often a message is in the queues.
LEMMA CountQueue ==
  ASSUME NEW f \in Messages, NEW m, Once(f, m)
  PROVE  Cardinality(InQueue(m, f)) = IF Has(f, m) THEN 1 ELSE 0
<1> DEFINE S == InQueue(m, f)
<1>1. \A p : p \in S <=> \E e \in Executors : p \in {e} \X {k \in DOMAIN f[e] : f[e][k] = m}
  BY DEF InQueue
<1>2. \A e \in Executors : DOMAIN f[e] = 1 .. Len(f[e])
  BY DEF Messages
<1>3. ASSUME NEW p \in S, NEW q \in S PROVE p = q
  <2>1. PICK e \in Executors : p \in {e} \X {k \in DOMAIN f[e] : f[e][k] = m}
    BY <1>1, <1>3
  <2>2. PICK d \in Executors : q \in {d} \X {k \in DOMAIN f[d] : f[d][k] = m}
    BY <1>1, <1>3
  <2>3. PICK k \in DOMAIN f[e] : f[e][k] = m /\ p = <<e, k>>
    BY <2>1
  <2>4. PICK l \in DOMAIN f[d] : f[d][l] = m /\ q = <<d, l>>
    BY <2>2
  <2> QED
    BY <1>2, <2>3, <2>4 DEF Once
<1>4. S # {} <=> Has(f, m)
  <2>1. ASSUME NEW p \in S PROVE Has(f, m)
    <3>1. PICK e \in Executors : p \in {e} \X {k \in DOMAIN f[e] : f[e][k] = m}
      BY <1>1, <2>1
    <3>2. PICK k \in DOMAIN f[e] : f[e][k] = m
      BY <3>1
    <3> QED
      BY <1>2, <3>2 DEF Has
  <2>2. ASSUME NEW e \in Executors, NEW k \in 1 .. Len(f[e]), f[e][k] = m PROVE S # {}
    <3>1. <<e, k>> \in {e} \X {j \in DOMAIN f[e] : f[e][j] = m}
      BY <1>2, <2>2
    <3> QED
      BY <1>1, <3>1
  <2> QED
    BY <2>1, <2>2 DEF Has
<1> HIDE DEF S
<1>5. Cardinality(S) = IF S = {} THEN 0 ELSE 1
  BY <1>3, OneAtMost
<1> QED
  BY <1>4, <1>5 DEF S

\* How often it is among the requests, and how often in the logs.
LEMMA CountRequest ==
  ASSUME NEW R, NEW m PROVE Cardinality(R \cap {m}) = IF m \in R THEN 1 ELSE 0
<1>1. \A a, b \in R \cap {m} : a = b
  OBVIOUS
<1>2. R \cap {m} = {} <=> m \notin R
  OBVIOUS
<1> QED
  BY <1>1, <1>2, OneAtMost

LEMMA CountLogs ==
  ASSUME NEW mark, NEW s, NEW m,
         \A e, d \in Executors : <<mark, m>> \in LogOf(s, e) /\ <<mark, m>> \in LogOf(s, d) => e = d
  PROVE  Cardinality(In(mark, m, s)) = IF \E e \in Executors : <<mark, m>> \in LogOf(s, e) THEN 1 ELSE 0
<1>1. \A a, b \in In(mark, m, s) : a = b
  BY DEF In
<1>2. In(mark, m, s) # {} <=> \E e \in Executors : <<mark, m>> \in LogOf(s, e)
  BY DEF In
<1> QED
  BY <1>1, <1>2, OneAtMost

LEMMA CutChecked == TInv /\ CpIds => CheckpointIsACut
<1> SUFFICES ASSUME TInv, CpIds, Sound, NEW n \in 1 .. Len(checkpoints)
             PROVE  LET c == checkpoints[n]
                    IN  /\ \A m \in Inputs : Places(m, c.messages, c.pending, c.state) <= 1
                        /\ \A m \in Sends \cup Requests :
                             Places(m, c.messages, c.pending, c.state) = Cardinality(In("made", m, c.state))
                        /\ \A m \in Sends \cup Requests : Cardinality(In("made", m, c.state)) <= 1
  BY DEF CheckpointIsACut, Sound
<1>1. PICK c \in CheckpointType : c = checkpoints[n] /\ c.messages \in Messages
  <2>1. checkpoints[n] \in CheckpointType
    BY TypeParts DEF TInv, CpType
  <2>2. \A c \in CheckpointType : c.messages \in Messages
    BY DEF CheckpointType
  <2> QED
    BY <2>1, <2>2
<1>2. ASSUME NEW m \in Ids
      PROVE  /\ Places(m, c.messages, c.pending, c.state) = IF CpAround(c, m) THEN 1 ELSE 0
             /\ Cardinality(In("made", m, c.state)) = IF CpMade(c, m) THEN 1 ELSE 0
             /\ m \in Sends \cup Requests => (CpMade(c, m) <=> CpAround(c, m))
  <2>1. CpInv(c, m)
    BY <1>1 DEF CpIds
  <2>2. Cardinality(InQueue(m, c.messages)) = IF Has(c.messages, m) THEN 1 ELSE 0
    BY <1>1, <2>1, CountQueue DEF CpInv, CpSingle
  <2>3. Cardinality(c.pending \cap {m}) = IF m \in c.pending THEN 1 ELSE 0
    BY CountRequest
  <2>4. Cardinality(In("did", m, c.state)) = IF CpDid(c, m) THEN 1 ELSE 0
    BY <2>1, CountLogs DEF CpInv, CpSingle, CpDid
  <2>5. Cardinality(In("made", m, c.state)) = IF CpMade(c, m) THEN 1 ELSE 0
    BY <2>1, CountLogs DEF CpInv, CpSingle, CpMade
  <2> QED
    BY <2>1, <2>2, <2>3, <2>4, <2>5 DEF CpInv, CpSingle, CpAround, Places
<1> QED
  BY <1>1, <1>2 DEF Ids

\* Whatever the run is put back to, a checkpoint holds what the executors' state
\* in it has made, once, to handle or handled, and no more.
THEOREM CheckpointsAreCuts == Spec => []CheckpointIsACut
<1> DEFINE PInv == TInv /\ QueueInv /\ CutInv
<1>1. Init => PInv
  BY TypeInit, QueueInit, CutInit
<1>2. PInv /\ [Next]_vars => PInv'
  BY TypeStep, QueueStep, CutStep
<1>3. PInv => CheckpointIsACut
  BY CutChecked DEF CutInv
<1> QED
  BY <1>1, <1>2, <1>3, PTL DEF Spec

LEMMA OnceChecked == TInv /\ RunIds => HandledOnce
<1> SUFFICES ASSUME TInv, RunIds PROVE HandledOnce
  OBVIOUS
<1>1. StepType /\ ReqType /\ StateType /\ RestType
  BY TypeParts DEF TInv
<1>2. \A e \in Executors : LogOf(Logs, e) = View(e)
  <2> TAKE e \in Executors
  <2>1. View(e) \subseteq Marks /\ <<e, Log>> \in Mgr!Cells
    BY <1>1, ViewType, Cells
  <2>2. Logs[<<e, Log>>] = View(e) /\ View(e) # None
    BY <2>1, RunnerNames DEF Logs
  <2> QED
    BY <2>2 DEF LogOf
<1>3. ASSUME NEW m \in Ids PROVE Live(m) = IF Around(m) THEN 1 ELSE 0
  <2>1. Single(m)
    BY DEF RunIds, RunId
  <2>2. Cardinality(InQueue(m, nextStep)) = IF Has(nextStep, m) THEN 1 ELSE 0
    BY <1>1, <2>1, CountQueue DEF Single, StepType
  <2>3. Cardinality(InQueue(m, current)) = IF Has(current, m) THEN 1 ELSE 0
    BY <1>1, <2>1, CountQueue DEF Single, StepType
  <2>4. Cardinality(pending \cap {m}) = IF m \in pending THEN 1 ELSE 0
    BY CountRequest
  <2>5. Cardinality(In("did", m, Logs)) = IF Did(m) THEN 1 ELSE 0
    <3>1. PICK s : s = Logs
      OBVIOUS
    <3>2. \A e \in Executors : LogOf(s, e) = View(e)
      BY <1>2, <3>1
    <3>3. \A e, d \in Executors : <<"did", m>> \in LogOf(s, e) /\ <<"did", m>> \in LogOf(s, d) => e = d
      BY <2>1, <3>2 DEF Single, DidOnce
    <3>4. Cardinality(In("did", m, s)) = IF \E e \in Executors : <<"did", m>> \in LogOf(s, e) THEN 1 ELSE 0
      BY <3>3, CountLogs
    <3> QED
      BY <3>1, <3>2, <3>4 DEF Did
  <2>6. Cardinality(InHand(m)) = IF Hand(m) THEN 1 ELSE 0
    <3>1. (\A a, b \in InHand(m) : a = b) /\ (InHand(m) # {} <=> Hand(m))
      BY <2>1 DEF InHand, Hand, Single, HandOnce
    <3> QED
      BY <3>1, OneAtMost
  <2> DEFINE S == {k \in 1 .. Len(deliveries) : m \in Inputs /\ deliveries[k].id = m}
  <2>7. Cardinality(S) = IF Sent(m) THEN 1 ELSE 0
    <3>1. (\A a, b \in S : a = b) /\ (S # {} <=> Sent(m))
      BY <2>1 DEF Sent, At, AtOnce, Single, SentOnce
    <3> HIDE DEF S
    <3> QED
      BY <3>1, OneAtMost
  <2>8. Live(m) = Places(m, nextStep, pending, Logs) + Cardinality(InQueue(m, current))
                    + Cardinality(InHand(m)) + Cardinality(S)
    BY DEF Live
  <2> HIDE DEF S
  <2> QED
    BY <2>1, <2>2, <2>3, <2>4, <2>5, <2>6, <2>7, <2>8 DEF Places, Single, Apart, Around
<1>4. \A m \in Ids : Live(m) <= 1
  BY <1>3
<1>5. ASSUME failures = 0, restores = 0, NEW m \in minted PROVE Live(m) = 1
  <2>1. m \in Ids
    BY <1>1 DEF RestType
  <2> QED
    BY <1>3, <1>5, <2>1 DEF RunIds, RunId, IdKept
<1> QED
  BY <1>4, <1>5 DEF HandledOnce

\* A message is at one place of the run, or at none, and at one if nothing
\* failed and the run was not put back.
THEOREM NothingTwice == Spec => []HandledOnce
<1> DEFINE PInv == TInv /\ QueueInv /\ CutInv
<1>1. Init => PInv
  BY TypeInit, QueueInit, CutInit
<1>2. PInv /\ [Next]_vars => PInv'
  BY TypeStep, QueueStep, CutStep
<1>3. PInv => HandledOnce
  BY OnceChecked DEF CutInv
<1> QED
  BY <1>1, <1>2, <1>3, PTL DEF Spec

=============================================================================
