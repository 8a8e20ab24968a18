------------------------------ MODULE FanInProofs ------------------------------
(***************************************************************************)
(* Proofs about FanIn, for any set of sources and any bounds: a released   *)
(* batch is a complete round, no two batches are out at a time, and what is *)
(* sent is delivered once and in order. The second rests on the first: the  *)
(* barrier never stops waiting for a source whose send has released a batch *)
(* and not yet mapped it; the third on the second.                          *)
(***************************************************************************)
EXTENDS FanIn, TLAPS, SequenceTheorems

\* The buffer holds messages of just the sources that are no longer waited for.
Barrier(c) ==
  /\ From(c.pending) = Sources \ c.unseen
  /\ c.unseen # {}

\* A source that has a batch to map is waited for, and only sends have batches.
HolderIsUnseen ==
  \A s \in Sources : batch[s] # <<>> => s \in unseen /\ step = "running"

IInv ==
  /\ TypeOK
  /\ RoundIsComplete
  /\ HolderIsUnseen
  /\ OneRelease
  /\ \A k \in DOMAIN saved : Barrier(saved[k])

\* The sources of a sequence with one more message (SendMessage appends).
LEMMA FromAppend ==
  ASSUME NEW q \in Seq(Messages), NEW m \in Messages, NEW s, m[1] = s
  PROVE  From(Append(q, m)) = From(q) \cup {s}
<1> DEFINE r == Append(q, m)
<1>1. /\ Len(q) \in Nat /\ DOMAIN q = 1..Len(q)
      /\ Len(r) = Len(q) + 1 /\ DOMAIN r = 1..(Len(q) + 1)
      /\ r[Len(q) + 1] = m
      /\ \A k \in 1..Len(q) : r[k] = q[k]
  OBVIOUS
<1>2. From(r) \subseteq From(q) \cup {s}
  <2> SUFFICES ASSUME NEW k \in DOMAIN r PROVE r[k][1] \in From(q) \cup {s}
    BY DEF From
  <2>1. k \in 1..Len(q) \/ k = Len(q) + 1 BY <1>1
  <2> QED BY <1>1, <2>1 DEF From
<1>3. From(q) \subseteq From(r)
  <2> SUFFICES ASSUME NEW k \in DOMAIN q PROVE q[k][1] \in From(r)
    BY DEF From
  <2>1. k \in DOMAIN r /\ r[k] = q[k] BY <1>1
  <2> QED BY <2>1 DEF From
<1>4. s \in From(r)
  <2>1. Len(q) + 1 \in DOMAIN r BY <1>1
  <2> QED BY <1>1, <2>1 DEF From
<1> QED BY <1>2, <1>3, <1>4

\* Every run starts with an empty buffer and waits for every source.
LEMMA InitInductive == Init => IInv
<1> SUFFICES ASSUME Init PROVE IInv
  OBVIOUS
<1> USE FanInAssumption DEF Init
<1>1. TypeOK BY DEF TypeOK, Checkpoints
<1>2. RoundIsComplete BY DEF RoundIsComplete, From
<1>3. HolderIsUnseen BY DEF HolderIsUnseen
<1>4. OneRelease BY DEF OneRelease
<1> QED BY <1>1, <1>2, <1>3, <1>4 DEF IInv

\* A send, whether it only buffers its message or releases the round.
LEMMA SendInductive ==
  ASSUME IInv, NEW s \in Sources, Send(s)
  PROVE  IInv'
<1> DEFINE m == <<s, sent[s] + 1>>
<1>1. m \in Messages /\ m[1] = s
  BY DEF IInv, TypeOK, Messages
<1>2. From(Append(pending, m)) = From(pending) \cup {s}
  <2>1. pending \in Seq(Messages) BY DEF IInv, TypeOK
  <2> HIDE DEF m
  <2> QED BY ONLY <1>1, <2>1, FromAppend
<1>3. Append(pending, m) \in Seq(Messages) /\ Append(pending, m) # <<>>
  <2>1. pending \in Seq(Messages) BY DEF IInv, TypeOK
  <2> HIDE DEF m
  <2> QED BY ONLY <1>1, <2>1, AppendProperties
<1>4. batch[s] = <<>> /\ step = "running"
  BY DEF Send, Sending
<1>5. sent' \in [Sources -> Nat]
  BY DEF Send, IInv, TypeOK
<1>6. CASE unseen \subseteq {s}
  <2>1. /\ batch' = [batch EXCEPT ![s] = Append(pending, m)]
        /\ pending' = <<>> /\ unseen' = Sources
    BY <1>6 DEF Send, ProcessMessage
  <2>2. From(Append(pending, m)) = Sources
    BY <1>2, <1>6 DEF IInv, RoundIsComplete
  <2>3. \A t \in Sources : batch[t] = <<>>
    BY <1>4, <1>6 DEF IInv, HolderIsUnseen
  <2>4. batch' \in [Sources -> Seq(Messages)]
    BY <2>1, <1>3 DEF IInv, TypeOK
  <2>5. \A t \in Sources : batch'[t] = IF t = s THEN Append(pending, m) ELSE <<>>
    BY <2>1, <2>3 DEF IInv, TypeOK
  <2>6. TypeOK'
    BY <2>1, <2>4, <1>5 DEF Send, IInv, TypeOK
  <2>7. RoundIsComplete'
    <3>1. From(<<>>) = {} BY DEF From
    <3> QED BY <2>1, <2>2, <2>5, <3>1, FanInAssumption DEF RoundIsComplete
  <2>8. HolderIsUnseen' /\ OneRelease'
    BY <2>1, <2>5, <1>4 DEF HolderIsUnseen, OneRelease, Send
  <2> QED BY <2>6, <2>7, <2>8 DEF IInv, Send, Barrier
<1>7. CASE ~(unseen \subseteq {s})
  <2>1. /\ batch' = batch /\ pending' = Append(pending, m) /\ unseen' = unseen \ {s}
    BY <1>7 DEF Send, ProcessMessage
  <2>2. TypeOK'
    BY <2>1, <1>3, <1>5 DEF Send, IInv, TypeOK
  <2>3. RoundIsComplete'
    BY <2>1, <1>2, <1>7 DEF IInv, TypeOK, RoundIsComplete
  <2>4. HolderIsUnseen' /\ OneRelease'
    BY <2>1, <1>4 DEF IInv, HolderIsUnseen, OneRelease, Send
  <2> QED BY <2>2, <2>3, <2>4 DEF IInv, Send, Barrier
<1> QED BY <1>6, <1>7

\* Mapping a batch, or losing it, empties one source's hands.
LEMMA MapInductive ==
  ASSUME IInv, NEW s \in Sources, MapInto(s) \/ MapFails(s)
  PROVE  IInv'
<1>1. /\ batch' = [batch EXCEPT ![s] = <<>>]
      /\ UNCHANGED <<pending, unseen, handled, sent, saved>>
  BY DEF MapInto, MapFails, edgeVars
<1>2. \A t \in Sources : batch'[t] = IF t = s THEN <<>> ELSE batch[t]
  BY <1>1 DEF IInv, TypeOK
<1>3. batch' \in [Sources -> Seq(Messages)]
  BY <1>1 DEF IInv, TypeOK
<1>4. nextStep' \in Seq(Messages) /\ step' \in {"running", "ended", "failed"} /\ failures' \in Nat
  <2>1. nextStep \in Seq(Messages) /\ batch[s] \in Seq(Messages) /\ failures \in Nat
    BY DEF IInv, TypeOK
  <2>2. CASE MapInto(s) BY <2>1, <2>2 DEF MapInto, IInv, TypeOK
  <2>3. CASE MapFails(s) BY <2>1, <2>3 DEF MapFails
  <2> QED BY <2>2, <2>3
<1>5. TypeOK' BY <1>1, <1>3, <1>4 DEF IInv, TypeOK
<1>6. RoundIsComplete' BY <1>1, <1>2 DEF IInv, RoundIsComplete
<1>7. HolderIsUnseen' BY <1>1, <1>2 DEF IInv, HolderIsUnseen, MapInto, MapFails
<1>8. OneRelease' BY <1>2 DEF IInv, OneRelease
<1> QED BY <1>1, <1>5, <1>6, <1>7, <1>8 DEF IInv, Barrier

\* What a superstep leaves is saved as it is.
LEMMA CheckpointInductive == IInv /\ Checkpoint => IInv'
<1> SUFFICES ASSUME IInv, Checkpoint PROVE IInv'
  OBVIOUS
<1>1. UNCHANGED <<pending, unseen, batch, nextStep, handled, sent, failures>> /\ step' = "ended"
  BY DEF Checkpoint, edgeVars, runVars
<1>2. Exported \in Checkpoints /\ Barrier(Exported)
  BY DEF IInv, TypeOK, Exported, Checkpoints, RoundIsComplete, Barrier
<1>3. /\ saved' \in Seq(Checkpoints)
      /\ \A k \in DOMAIN saved' : Barrier(saved'[k])
  <2>1. CASE saved' = saved BY <2>1 DEF IInv, TypeOK
  <2>2. CASE saved' = Append(saved, Exported)
    <3>1. saved \in Seq(Checkpoints) BY DEF IInv, TypeOK
    <3>2. \A k \in 1..(Len(saved) + 1) :
            saved'[k] = IF k <= Len(saved) THEN saved[k] ELSE Exported
      BY <2>2, <3>1, <1>2
    <3>3. DOMAIN saved' = 1..(Len(saved) + 1) /\ DOMAIN saved = 1..Len(saved)
      BY <2>2, <3>1, <1>2
    <3>4. \A k \in DOMAIN saved' : Barrier(saved'[k])
      <4> SUFFICES ASSUME NEW k \in DOMAIN saved' PROVE Barrier(saved'[k])
        OBVIOUS
      <4>1. CASE k <= Len(saved)
        <5>1. k \in DOMAIN saved /\ saved'[k] = saved[k] BY <4>1, <3>1, <3>2, <3>3
        <5> QED BY <5>1 DEF IInv
      <4>2. CASE ~(k <= Len(saved)) BY <4>2, <3>2, <3>3, <1>2
      <4> QED BY <4>1, <4>2
    <3> QED BY <2>2, <3>1, <1>2, <3>4
  <2> QED BY <2>1, <2>2 DEF Checkpoint
<1>4. TypeOK' BY <1>1, <1>3 DEF IInv, TypeOK
<1>5. RoundIsComplete' /\ OneRelease' BY <1>1 DEF IInv, RoundIsComplete, OneRelease
<1>6. HolderIsUnseen' BY <1>1 DEF Checkpoint, HolderIsUnseen
<1>7. \A k \in DOMAIN saved' : Barrier(saved[k])' BY <1>3 DEF Barrier
<1> QED BY <1>4, <1>5, <1>6, <1>7 DEF IInv

\* A restored barrier is the one that was saved.
LEMMA RestoreInductive ==
  ASSUME IInv, NEW k \in 1..Len(saved), Restore(saved[k])
  PROVE  IInv'
<1>1. saved[k] \in Checkpoints /\ Barrier(saved[k])
  BY DEF IInv, TypeOK
<1>2. /\ pending' = saved[k].pending /\ unseen' = saved[k].unseen
      /\ UNCHANGED <<batch, saved>> /\ step' = "ended"
      /\ nextStep' = saved[k].nextStep /\ handled' = saved[k].handled /\ sent' = saved[k].sent
  BY DEF Restore, ImportState
<1>3. \A s \in Sources : batch[s] = <<>>
  BY DEF Restore, IInv, HolderIsUnseen
<1>4. failures' \in Nat
  BY DEF Restore, IInv, TypeOK
<1>5. TypeOK' BY <1>1, <1>2, <1>4 DEF IInv, TypeOK, Checkpoints
<1>6. RoundIsComplete' BY <1>1, <1>2, <1>3 DEF RoundIsComplete, Barrier
<1>7. HolderIsUnseen' /\ OneRelease' BY <1>2, <1>3 DEF HolderIsUnseen, OneRelease
<1> QED BY <1>2, <1>5, <1>6, <1>7 DEF IInv, Barrier

LEMMA StepInductive == IInv /\ [Next]_vars => IInv'
<1> SUFFICES ASSUME IInv, [Next]_vars PROVE IInv'
  OBVIOUS
<1>1. CASE Begin
  <2>1. UNCHANGED <<pending, unseen, batch, sent, saved, failures>> /\ step' = "running"
    BY <1>1 DEF Begin, edgeVars
  <2>2. handled' \in Seq(Messages) /\ nextStep' \in Seq(Messages)
    BY <1>1 DEF Begin, IInv, TypeOK
  <2>3. TypeOK' BY <2>1, <2>2 DEF IInv, TypeOK
  <2>4. RoundIsComplete' /\ HolderIsUnseen' /\ OneRelease'
    BY <2>1 DEF IInv, RoundIsComplete, HolderIsUnseen, OneRelease
  <2> QED BY <2>1, <2>3, <2>4 DEF IInv, Barrier
<1>2. CASE \E s \in Sources : Send(s) \/ MapInto(s) \/ MapFails(s)
  BY <1>2, SendInductive, MapInductive
<1>3. CASE Checkpoint BY <1>3, CheckpointInductive
<1>4. CASE \E k \in 1..Len(saved) : Restore(saved[k]) BY <1>4, RestoreInductive
<1>5. CASE UNCHANGED vars
  BY <1>5 DEF vars, edgeVars, runVars, IInv, TypeOK, RoundIsComplete, HolderIsUnseen,
              OneRelease, Barrier
<1> QED BY <1>1, <1>2, <1>3, <1>4, <1>5 DEF Next

\* However sends interleave and whatever checkpoint the run is put back to, a
\* batch the barrier releases has a message of each of its sources, and a
\* complete round is never kept in the buffer (statefulEdgeState).
THEOREM RoundsAreComplete == Spec => []RoundIsComplete
<1>1. IInv => RoundIsComplete BY DEF IInv
<1> QED BY <1>1, InitInductive, StepInductive, PTL DEF Spec

\* At most one released batch is on its way to the target's queue, so rounds
\* cannot overtake each other although the lock is not held (PrepareDeliveryForEdge).
THEOREM OneReleaseAtATime == Spec => []OneRelease
<1>1. IInv => OneRelease BY DEF IInv
<1> QED BY <1>1, InitInductive, StepInductive, PTL DEF Spec

\* A checkpoint has all that its sources had sent.
WayInv ==
  /\ DeliveredInOrder
  /\ \A k \in DOMAIN saved :
       Complete(saved[k].handled \o saved[k].nextStep \o saved[k].pending, saved[k].sent)

LEMMA EmptyConcat == ASSUME NEW f, \A s \in Sources : f[s] = <<>> PROVE Concat(f) = <<>>
  BY DEF Concat

LEMMA OneConcat ==
  ASSUME NEW f, NEW s \in Sources, f[s] # <<>>, \A t \in Sources : f[t] # <<>> => t = s
  PROVE  Concat(f) = f[s]
<1> DEFINE waiting == {t \in Sources : f[t] # <<>>}
<1>1. waiting = {s}
  OBVIOUS
<1>2. (CHOOSE t \in waiting : TRUE) = s
  BY <1>1
<1> QED
  BY <1>1, <1>2 DEF Concat

\* The way of the messages is a sequence of them.
LEMMA WayTypes == IInv => Concat(batch) \in Seq(Messages)
<1> SUFFICES ASSUME IInv PROVE Concat(batch) \in Seq(Messages)
  OBVIOUS
<1>1. CASE \A s \in Sources : batch[s] = <<>>
  <2>1. Concat(batch) = <<>>
    BY <1>1, EmptyConcat
  <2> QED
    BY <2>1
<1>2. CASE \E s \in Sources : batch[s] # <<>>
  <2>1. PICK s \in Sources : batch[s] # <<>>
    BY <1>2
  <2>2. Concat(batch) = batch[s]
    BY <2>1, OneConcat DEF IInv, OneRelease
  <2> QED
    BY <2>2 DEF IInv, TypeOK
<1> QED
  BY <1>1, <1>2

\* One more message of a source, the next in its count.
LEMMA CompleteMore ==
  ASSUME NEW way \in Seq(Messages), NEW counts \in [Sources -> Nat], NEW s \in Sources,
         Complete(way, counts)
  PROVE  Complete(Append(way, <<s, counts[s] + 1>>), [counts EXCEPT ![s] = @ + 1])
<1> DEFINE m    == <<s, counts[s] + 1>>
           more == Append(way, m)
           up   == [counts EXCEPT ![s] = counts[s] + 1]
<1>1. m \in Messages /\ m[1] = s /\ m[2] = counts[s] + 1
  BY DEF Messages
<1> HIDE DEF m
<1>2. /\ Len(way) \in Nat /\ DOMAIN way = 1..Len(way) /\ DOMAIN more = 1..(Len(way) + 1)
      /\ more[Len(way) + 1] = m /\ \A k \in 1..Len(way) : more[k] = way[k] /\ way[k] \in Messages
  BY <1>1
<1>3. up[s] = counts[s] + 1 /\ \A t \in Sources : t # s => up[t] = counts[t]
  OBVIOUS
<1> HIDE DEF more, up
<1>4. \A e : e \in Range(way) <=> e \in Messages /\ e[2] <= counts[e[1]]
  <2>1. Range(way) = UNION {{t} \X (1..counts[t]) : t \in Sources}
    BY DEF Complete
  <2>2. ASSUME NEW e, NEW t \in Sources, e \in {t} \X (1..counts[t]) PROVE e \in Messages /\ e[2] <= counts[e[1]]
    BY <2>2 DEF Messages
  <2>3. ASSUME NEW e \in Messages, e[2] <= counts[e[1]] PROVE e[1] \in Sources /\ e \in {e[1]} \X (1..counts[e[1]])
    BY <2>3 DEF Messages
  <2> QED
    BY <2>1, <2>2, <2>3
<1>5. \A e : e \in Range(more) <=> e \in Range(way) \/ e = m
  <2>1. ASSUME NEW e \in Range(more) PROVE e \in Range(way) \/ e = m
    <3>1. PICK k \in 1..(Len(way) + 1) : more[k] = e
      BY <1>2, <2>1 DEF Range
    <3>2. CASE k = Len(way) + 1
      BY <1>2, <3>1, <3>2
    <3>3. CASE k \in 1..Len(way)
      BY <1>2, <3>1, <3>3 DEF Range
    <3> QED
      BY <1>2, <3>2, <3>3
  <2>2. ASSUME NEW e \in Range(way) PROVE e \in Range(more)
    <3>1. PICK k \in 1..Len(way) : way[k] = e
      BY <1>2, <2>2 DEF Range
    <3>2. k \in DOMAIN more /\ more[k] = e
      BY <1>2, <3>1
    <3> QED
      BY <3>2 DEF Range
  <2>3. m \in Range(more)
    <3>1. Len(way) + 1 \in DOMAIN more
      BY <1>2
    <3> QED
      BY <1>2, <3>1 DEF Range
  <2> QED
    BY <2>1, <2>2, <2>3
<1>6. \A e : e \in Range(more) <=> e \in Messages /\ e[2] <= up[e[1]]
  <2> TAKE e
  <2>1. CASE e \in Messages
    <3>1. e[1] \in Sources /\ e[2] \in Nat /\ counts[e[1]] \in Nat /\ e = <<e[1], e[2]>>
      BY <2>1 DEF Messages
    <3>2. e = m <=> e[1] = s /\ e[2] = counts[s] + 1
      BY <1>1, <3>1 DEF m
    <3> QED
      BY <1>3, <1>4, <1>5, <2>1, <3>1, <3>2
  <2>2. CASE e \notin Messages
    BY <1>1, <1>4, <1>5, <2>2
  <2> QED
    BY <2>1, <2>2
<1>7. Range(more) = UNION {{t} \X (1..up[t]) : t \in Sources}
  <2>1. ASSUME NEW e, NEW t \in Sources, e \in {t} \X (1..up[t]) PROVE e \in Messages /\ e[2] <= up[e[1]]
    BY <2>1 DEF Messages
  <2>2. ASSUME NEW e \in Messages, e[2] <= up[e[1]] PROVE e[1] \in Sources /\ e \in {e[1]} \X (1..up[e[1]])
    BY <2>2, <1>3 DEF Messages
  <2> QED
    BY <1>6, <2>1, <2>2
<1>8. ASSUME NEW i \in DOMAIN more, NEW j \in DOMAIN more, i < j, more[i][1] = more[j][1]
      PROVE  more[i][2] < more[j][2]
  <2>1. i \in 1..Len(way)
    BY <1>2, <1>8
  <2>2. CASE j \in 1..Len(way)
    <3>1. i \in DOMAIN way /\ j \in DOMAIN way /\ way[i][1] = way[j][1]
      BY <1>2, <1>8, <2>1, <2>2
    <3> QED
      BY <1>2, <1>8, <2>1, <2>2, <3>1 DEF Complete
  <2>3. CASE j = Len(way) + 1
    <3>1. way[i] \in Range(way) /\ more[i] = way[i] /\ way[i][1] = s
      BY <1>1, <1>2, <1>8, <2>1, <2>3 DEF Range
    <3>2. way[i][2] <= counts[s] /\ way[i][2] \in Nat
      BY <1>2, <1>4, <2>1, <3>1 DEF Messages
    <3> QED
      BY <1>1, <1>2, <2>3, <3>1, <3>2
  <2> QED
    BY <1>2, <2>2, <2>3
<1> QED
  BY <1>7, <1>8 DEF Complete, more, up, m

\* A sequence is put together from its parts in any way.
LEMMA Joined ==
  ASSUME NEW x \in Seq(Messages), NEW y \in Seq(Messages), NEW z \in Seq(Messages)
  PROVE  /\ x \o y \in Seq(Messages)
         /\ (x \o y) \o z = x \o (y \o z)
         /\ x \o <<>> = x
         /\ \A m \in Messages : x \o Append(y, m) = Append(x \o y, m)
<1>1. x \o y \in Seq(Messages) /\ x \o <<>> = x
  BY ConcatProperties, ConcatEmptySeq
<1>2. (x \o y) \o z = x \o (y \o z)
  BY ConcatAssociative
<1>3. ASSUME NEW m \in Messages PROVE x \o Append(y, m) = Append(x \o y, m)
  <2>1. <<m>> \in Seq(Messages) /\ Append(y, m) = y \o <<m>> /\ Append(x \o y, m) = (x \o y) \o <<m>>
    BY <1>1, AppendIsConcat
  <2>2. (x \o y) \o <<m>> = x \o (y \o <<m>>)
    BY <2>1, ConcatAssociative
  <2> QED
    BY <2>1, <2>2
<1> QED
  BY <1>1, <1>2, <1>3

LEMMA WayInit == Init => WayInv
<1> SUFFICES ASSUME Init PROVE WayInv
  OBVIOUS
<1> DEFINE none == <<>>
<1>1. handled = none /\ nextStep = none /\ pending = none /\ saved = none /\ Concat(batch) = none
  BY EmptyConcat DEF Init
<1>2. none \in Seq(Messages) /\ none \o none = none /\ Len(none) = 0 /\ DOMAIN none = {}
  OBVIOUS
<1>3. sent = [s \in Sources |-> 0]
  BY DEF Init
<1> HIDE DEF none
<1>4. Complete(none, sent)
  <2>1. Range(none) = {}
    BY <1>2 DEF Range
  <2>2. UNION {{s} \X (1..sent[s]) : s \in Sources} = {}
    BY <1>3
  <2> QED
    BY <1>2, <2>1, <2>2 DEF Complete
<1> QED
  BY <1>1, <1>2, <1>4 DEF WayInv, DeliveredInOrder

LEMMA SendWay == ASSUME IInv, WayInv, NEW s \in Sources, Send(s) PROVE WayInv'
<1> DEFINE m   == <<s, sent[s] + 1>>
           x   == handled \o nextStep
           way == x \o Concat(batch) \o pending
<1>1. m \in Messages /\ x \in Seq(Messages) /\ pending \in Seq(Messages) /\ Concat(batch) \in Seq(Messages)
  BY WayTypes, Joined DEF IInv, TypeOK, Messages
<1>2. batch[s] = <<>> /\ step = "running" /\ UNCHANGED <<handled, nextStep, step, saved>>
      /\ sent' = [sent EXCEPT ![s] = @ + 1]
  BY DEF Send, Sending
<1>3. way \in Seq(Messages) /\ Complete(way, sent)
  BY <1>1, <1>2, Joined DEF WayInv, DeliveredInOrder
<1>4. Complete(Append(way, m), sent')
  <2>1. sent \in [Sources -> Nat]
    BY DEF IInv, TypeOK
  <2> HIDE DEF way
  <2> QED
    BY <1>2, <1>3, <2>1, CompleteMore
<1>5. handled' \o nextStep' \o Concat(batch)' \o pending' = Append(way, m)
  <2>1. CASE unseen \subseteq {s}
    <3>1. batch' = [batch EXCEPT ![s] = Append(pending, m)] /\ pending' = <<>>
      BY <2>1 DEF Send, ProcessMessage
    <3>2. \A t \in Sources : batch[t] = <<>>
      BY <1>2, <2>1 DEF IInv, HolderIsUnseen
    <3>3. Append(pending, m) \in Seq(Messages) /\ Append(pending, m) # <<>>
      <4> HIDE DEF m
      <4> QED
        BY <1>1, AppendProperties
    <3>4. batch'[s] = Append(pending, m) /\ \A t \in Sources : t # s => batch'[t] = <<>>
      BY <3>1, <3>2 DEF IInv, TypeOK
    <3> HIDE DEF m, x
    <3>5. Concat(batch') = Append(pending, m)
      BY <3>3, <3>4, OneConcat
    <3>6. Concat(batch) = <<>>
      BY <3>2, EmptyConcat
    <3>7. way = x \o pending
      BY <1>1, <3>6, Joined
    <3>8. (x \o Append(pending, m)) \o <<>> = x \o Append(pending, m)
      BY <1>1, <3>3, Joined
    <3>9. x \o Append(pending, m) = Append(x \o pending, m)
      BY <1>1, Joined
    <3> QED
      BY <1>2, <3>1, <3>5, <3>7, <3>8, <3>9 DEF x
  <2>2. CASE ~(unseen \subseteq {s})
    <3>1. batch' = batch /\ pending' = Append(pending, m)
      BY <2>2 DEF Send, ProcessMessage
    <3> DEFINE y == x \o Concat(batch)
    <3>2. y \in Seq(Messages)
      BY <1>1, Joined
    <3>3. y \o Append(pending, m) = Append(y \o pending, m)
      <4> HIDE DEF y, m
      <4> QED
        BY <1>1, <3>2, Joined
    <3> QED
      BY <1>2, <3>1, <3>3
  <2> QED
    BY <2>1, <2>2
<1> HIDE DEF way, m
<1> QED
  BY <1>2, <1>4, <1>5 DEF WayInv, DeliveredInOrder

\* Mapping a batch moves it from the sender's hands to the queue.
LEMMA MapWay == ASSUME IInv, WayInv, NEW s \in Sources, MapInto(s) PROVE WayInv'
<1> DEFINE b == batch[s]
<1>1. /\ b # <<>> /\ nextStep' = nextStep \o b /\ step = "running"
      /\ batch' = [batch EXCEPT ![s] = <<>>]
      /\ UNCHANGED <<handled, pending, sent, step, saved>>
  BY DEF MapInto, edgeVars
<1>2. \A t \in Sources : batch[t] # <<>> => t = s
  BY <1>1 DEF IInv, OneRelease
<1>3. Concat(batch) = b
  BY <1>1, <1>2, OneConcat
<1>4. Concat(batch') = <<>>
  <2>1. \A t \in Sources : batch'[t] = <<>>
    BY <1>1, <1>2 DEF IInv, TypeOK
  <2> QED
    BY <2>1, EmptyConcat
<1>5. handled \in Seq(Messages) /\ nextStep \in Seq(Messages) /\ b \in Seq(Messages) /\ pending \in Seq(Messages)
  BY DEF IInv, TypeOK
<1> HIDE DEF b
<1>6. (handled \o (nextStep \o b)) \o <<>> = (handled \o nextStep) \o b
  <2>1. nextStep \o b \in Seq(Messages)
    BY <1>5, Joined
  <2>2. handled \o (nextStep \o b) \in Seq(Messages)
    BY <1>5, <2>1, Joined
  <2>3. (handled \o (nextStep \o b)) \o <<>> = handled \o (nextStep \o b)
    BY <2>2, Joined
  <2>4. (handled \o nextStep) \o b = handled \o (nextStep \o b)
    BY <1>5, Joined
  <2> QED
    BY <2>3, <2>4
<1>7. handled' \o nextStep' \o Concat(batch)' \o pending' = handled \o nextStep \o Concat(batch) \o pending
  BY <1>1, <1>3, <1>4, <1>6
<1> QED
  BY <1>1, <1>7 DEF WayInv, DeliveredInOrder

LEMMA CheckpointWay == IInv /\ WayInv /\ Checkpoint => WayInv'
<1> SUFFICES ASSUME IInv, WayInv, Checkpoint PROVE WayInv'
  OBVIOUS
<1>1. UNCHANGED <<pending, batch, nextStep, handled, sent>> /\ step = "running"
  BY DEF Checkpoint, edgeVars, runVars
<1>2. Complete(handled \o nextStep \o Concat(batch) \o pending, sent)
  BY <1>1 DEF WayInv, DeliveredInOrder
<1>3. DeliveredInOrder'
  BY <1>1, <1>2 DEF DeliveredInOrder
<1>4. Concat(batch) = <<>>
  BY EmptyConcat DEF Checkpoint
<1>5. Complete(handled \o nextStep \o pending, sent)
  <2>1. handled \o nextStep \in Seq(Messages)
    BY Joined DEF IInv, TypeOK
  <2>2. (handled \o nextStep) \o <<>> = handled \o nextStep
    BY <2>1, Joined
  <2> QED
    BY <1>2, <1>4, <2>2
<1>6. CASE saved' = saved
  BY <1>3, <1>6 DEF WayInv
<1>7. CASE saved' = Append(saved, Exported)
  <2>1. saved \in Seq(Checkpoints) /\ Exported \in Checkpoints
    BY DEF IInv, TypeOK, Exported, Checkpoints
  <2>2. \A k \in DOMAIN saved' : (k \in DOMAIN saved /\ saved'[k] = saved[k]) \/ saved'[k] = Exported
    BY <1>7, <2>1
  <2>3. Complete(Exported.handled \o Exported.nextStep \o Exported.pending, Exported.sent)
    BY <1>5 DEF Exported
  <2> QED
    BY <1>3, <2>2, <2>3 DEF WayInv
<1> QED
  BY <1>6, <1>7 DEF Checkpoint

LEMMA RestoreWay == ASSUME IInv, WayInv, NEW k \in 1..Len(saved), Restore(saved[k]) PROVE WayInv'
<1> DEFINE c == saved[k]
<1>1. /\ pending' = c.pending /\ nextStep' = c.nextStep /\ handled' = c.handled /\ sent' = c.sent
      /\ UNCHANGED <<batch, saved>> /\ step # "running"
  BY DEF Restore, ImportState
<1>2. c \in Checkpoints /\ Complete(c.handled \o c.nextStep \o c.pending, c.sent)
  BY DEF IInv, TypeOK, WayInv
<1>3. Concat(batch) = <<>>
  BY <1>1, EmptyConcat DEF IInv, HolderIsUnseen
<1> HIDE DEF c
<1>4. (c.handled \o c.nextStep) \o <<>> = c.handled \o c.nextStep
  <2>1. c.handled \o c.nextStep \in Seq(Messages)
    BY <1>2, Joined DEF Checkpoints
  <2> QED
    BY <2>1, Joined
<1> QED
  BY <1>1, <1>2, <1>3, <1>4 DEF WayInv, DeliveredInOrder

LEMMA WayStep == IInv /\ WayInv /\ [Next]_vars => WayInv'
<1> SUFFICES ASSUME IInv, WayInv, [Next]_vars PROVE WayInv'
  OBVIOUS
<1>1. CASE Begin
  <2>1. handled' = handled \o nextStep /\ nextStep' = <<>> /\ UNCHANGED <<batch, pending, sent, saved>>
        /\ step # "failed"
    BY <1>1 DEF Begin, edgeVars
  <2>2. handled \o nextStep \in Seq(Messages)
    BY Joined DEF IInv, TypeOK
  <2>3. (handled \o nextStep) \o <<>> = handled \o nextStep
    BY <2>2, Joined
  <2> QED
    BY <2>1, <2>3 DEF WayInv, DeliveredInOrder
<1>2. CASE \E s \in Sources : Send(s) \/ MapInto(s)
  BY <1>2, SendWay, MapWay
<1>3. CASE \E s \in Sources : MapFails(s)
  BY <1>3 DEF MapFails, WayInv, DeliveredInOrder
<1>4. CASE Checkpoint
  BY <1>4, CheckpointWay
<1>5. CASE \E k \in 1..Len(saved) : Restore(saved[k])
  BY <1>5, RestoreWay
<1>6. CASE UNCHANGED vars
  BY <1>6 DEF vars, edgeVars, runVars, WayInv, DeliveredInOrder
<1> QED
  BY <1>1, <1>2, <1>3, <1>4, <1>5, <1>6 DEF Next

\* Everything the sources have sent reaches the target once and in the order of its
\* source, or is on its way there, whatever sends interleave and whatever checkpoint
\* the run is put back to; only a superstep that failed may have lost a round.
THEOREM NothingIsReordered == Spec => []DeliveredInOrder
<1>1. Init => IInv /\ WayInv
  BY InitInductive, WayInit
<1>2. IInv /\ WayInv /\ [Next]_vars => (IInv /\ WayInv)'
  BY StepInductive, WayStep
<1>3. WayInv => DeliveredInOrder
  BY DEF WayInv
<1> QED
  BY <1>1, <1>2, <1>3, PTL DEF Spec

=============================================================================
