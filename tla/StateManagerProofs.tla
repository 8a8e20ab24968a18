-------------------------- MODULE StateManagerProofs --------------------------
(***************************************************************************)
(* Proofs about StateManager, for any executors, scopes, keys and values:  *)
(* typing, what reading and clearing show, that a contested superstep is   *)
(* final, and that the queue of updates implements SharedState.            *)
(***************************************************************************)
EXTENDS StateManager, TLAPS

(* A visible scope and a key make a cell.                                  *)
LEMMA VisibleCells ==
  ASSUME NEW e \in Executors, NEW s \in VisibleScopes(e)
  PROVE  /\ s \in Scopes
         /\ \A k \in Keys : <<s, k>> \in Cells
  BY DEF VisibleScopes, Scopes, Cells

LEMMA TypeInit == Init => TypeOK
  BY DEF Init, TypeOK, States

(* Applying queued updates to the scopes gives scopes: the update of a cell *)
(* some executor queued is a value or a delete.                            *)
LEMMA AppliedType ==
  ASSUME TypeOK, NEW D
  PROVE  Applied(D) \in States
<1> SUFFICES ASSUME NEW c \in Cells, NEW x \in Executors, IsQueued(x, c)
             PROVE  queued[CHOOSE e \in Executors : IsQueued(e, c)][c] \in Values \cup {None}
  BY DEF Applied, States, TypeOK
<1> DEFINE w == CHOOSE e \in Executors : IsQueued(e, c)
<1>1. w \in Executors /\ IsQueued(w, c)
  OBVIOUS
<1> HIDE DEF w
<1>2. queued[w][c] \in Values \cup {None}
  BY <1>1 DEF IsQueued, TypeOK
<1> QED
  BY <1>2 DEF w

LEMMA TypeStep == TypeOK /\ [Next]_vars => TypeOK'
<1> SUFFICES ASSUME TypeOK, [Next]_vars PROVE TypeOK'
  OBVIOUS
<1>1. ASSUME NEW e \in Executors, NEW s \in VisibleScopes(e), NEW k \in Keys,
             NEW v \in Values \cup {None}, WriteState(e, <<s, k>>, v)
      PROVE  TypeOK'
  BY <1>1, VisibleCells DEF WriteState, TypeOK
<1>2. ASSUME NEW e \in Executors, NEW s \in VisibleScopes(e), ClearState(e, s)
      PROVE  TypeOK'
  BY <1>2, VisibleCells DEF ClearState, UpdatesForScope, TypeOK
<1>3. CASE PublishUpdates
  BY <1>3, AppliedType DEF PublishUpdates, TypeOK
<1>4. CASE PublishUpdatesFails
  BY <1>4, AppliedType DEF PublishUpdatesFails, TypeOK
<1>5. CASE ExportState
  BY <1>5 DEF ExportState, TypeOK
<1>6. ASSUME NEW state \in exported, ImportState(state)
      PROVE  TypeOK'
  BY <1>6 DEF ImportState, TypeOK
<1>7. CASE UNCHANGED vars
  BY <1>7 DEF vars, TypeOK
<1> QED
  BY <1>1, <1>2, <1>3, <1>4, <1>5, <1>6, <1>7 DEF Next, ReadOrInitState

(* Scopes, queue and exports keep their types, and an executor only ever   *)
(* queues updates of scopes it can see.                                    *)
THEOREM TypeCorrect == Spec => []TypeOK
  BY TypeInit, TypeStep, PTL DEF Spec

-----------------------------------------------------------------------------
(* Reading                                                                 *)

LEMMA KeysRead ==
  ASSUME TypeOK, NEW e \in Executors, NEW s \in VisibleScopes(e)
  PROVE  ReadKeys(e, s) = {k \in Keys : ReadState(e, <<s, k>>) # None}
<1>1. ASSUME NEW k
      PROVE  k \in ReadKeys(e, s) <=>
               \/ \E d \in Cells : d[1] = s /\ d[2] = k /\ IsQueued(e, d) /\ queued[e][d] # None
               \/ /\ \E d \in Cells : d[1] = s /\ d[2] = k /\ scopes[d] # None
                  /\ ~\E d \in Cells : d[1] = s /\ d[2] = k /\ IsQueued(e, d) /\ queued[e][d] = None
  BY DEF ReadKeys, UpdatesForScope
<1>2. ASSUME NEW k \in Keys, NEW d \in Cells, d[1] = s, d[2] = k
      PROVE  d = <<s, k>>
  BY <1>2 DEF Cells
<1>3. ASSUME NEW k \in Keys
      PROVE  k \in ReadKeys(e, s) <=> ReadState(e, <<s, k>>) # None
  BY <1>1, <1>2, <1>3, VisibleCells DEF ReadState, IsQueued
<1>4. ASSUME NEW k \in ReadKeys(e, s) PROVE k \in Keys
  BY <1>1, <1>4 DEF Cells
<1> QED
  BY <1>3, <1>4

(* Whatever the interleaving, the keys ReadKeys reports are the ones       *)
(* ReadState finds.                                                        *)
THEOREM KeysReadable == Spec => []KeysAreReadable
<1>1. TypeOK => KeysAreReadable
  BY KeysRead DEF KeysAreReadable
<1> QED
  BY <1>1, TypeCorrect, PTL

-----------------------------------------------------------------------------
(* Contested supersteps                                                    *)

(* Only PublishUpdates takes updates out of the queue.                     *)
LEMMA QueueKept ==
  ASSUME TypeOK, [Next]_vars, ~PublishUpdates,
         NEW e \in Executors, NEW c \in Cells, IsQueued(e, c)
  PROVE  IsQueued(e, c)'
<1>1. ASSUME NEW x \in Executors, NEW s \in VisibleScopes(x), NEW k \in Keys,
             NEW v \in Values \cup {None}, WriteState(x, <<s, k>>, v)
      PROVE  IsQueued(e, c)'
  BY <1>1, VisibleCells, DistinctValues DEF WriteState, IsQueued, TypeOK
<1>2. ASSUME NEW x \in Executors, NEW s \in VisibleScopes(x), ClearState(x, s)
      PROVE  IsQueued(e, c)'
  BY <1>2, DistinctValues DEF ClearState, IsQueued, TypeOK
<1>3. CASE UNCHANGED queued
  BY <1>3 DEF IsQueued
<1> QED
  BY <1>1, <1>2, <1>3 DEF Next, ReadOrInitState, PublishUpdatesFails, ExportState,
     ImportState, vars

LEMMA ContestedStep ==
  ASSUME TypeOK, [Next]_vars, ~Uncontested
  PROVE  ~Uncontested' /\ exported' = exported
<1>1. PICK c \in Cells, e1 \in Executors, e2 \in Executors :
        e1 # e2 /\ IsQueued(e1, c) /\ IsQueued(e2, c)
  BY DEF Uncontested, Contested
<1>2. ~PublishUpdates /\ ~ExportState
  BY <1>1 DEF PublishUpdates, ExportState, Queued
<1>3. IsQueued(e1, c)' /\ IsQueued(e2, c)'
  BY <1>1, <1>2, QueueKept
<1>4. ~Uncontested'
  BY <1>1, <1>3 DEF Uncontested, Contested
<1>5. exported' = exported
  BY <1>2 DEF Next, WriteState, ReadOrInitState, ClearState, PublishUpdatesFails,
     ImportState, vars
<1> QED
  BY <1>4, <1>5

(* Two updates of one key in one superstep end checkpointing for good: the *)
(* queue is never emptied again, and exporting refuses while it is not.    *)
THEOREM ContestedStays == Spec => ContestedIsFinal
<1>1. TypeOK /\ [Next]_vars => [~Uncontested => (~Uncontested' /\ exported' = exported)]_vars
  BY ContestedStep
<1> QED
  BY <1>1, TypeCorrect, PTL DEF Spec, ContestedIsFinal

-----------------------------------------------------------------------------
(* Clearing                                                                *)

Empty(e, s) == \A k \in Keys : ReadState(e, <<s, k>>) = None

ClearedVisible == \A e \in Executors, s \in Scopes : <<e, s>> \in cleared => s \in VisibleScopes(e)
ClearedEmpty   == \A e \in Executors, s \in Scopes : <<e, s>> \in cleared => Empty(e, s)

ClearedInv == TypeOK /\ ClearedVisible /\ (Uncontested => ClearedEmpty)

LEMMA ClearedInit == Init => ClearedInv
  BY TypeInit DEF Init, ClearedInv, ClearedVisible, ClearedEmpty

(* A write of another cell, or a delete, leaves an empty scope empty.      *)
LEMMA ClearedWrite ==
  ASSUME ClearedInv, NEW x \in Executors, NEW c \in Cells,
         c[1] \in VisibleScopes(x), NEW v \in Values \cup {None}, WriteState(x, c, v)
  PROVE  /\ \A e \in Executors, s \in Scopes : <<e, s>> \in cleared' => <<e, s>> \in cleared
         /\ \A e \in Executors, s \in Scopes :
              <<e, s>> \in cleared' /\ Empty(e, s) => Empty(e, s)'
<1>1. cleared' \in SUBSET cleared
  BY DEF WriteState
<1>2. ASSUME NEW e \in Executors, NEW s \in Scopes, <<e, s>> \in cleared', Empty(e, s)
      PROVE  Empty(e, s)'
  <2> SUFFICES ASSUME NEW k \in Keys PROVE ReadState(e, <<s, k>>)' = None
    BY DEF Empty
  <2>1. ReadState(e, <<s, k>>) = None /\ <<s, k>> \in Cells
    BY <1>2 DEF Empty, Cells
  <2>2. CASE e = x /\ c = <<s, k>>
    <3>1. v = None
      BY <1>2, <2>2 DEF WriteState
    <3> QED
      BY <2>1, <2>2, <3>1, DistinctValues DEF WriteState, ReadState, IsQueued, ClearedInv, TypeOK
  <2>3. CASE e # x \/ c # <<s, k>>
    BY <2>1, <2>3 DEF WriteState, ReadState, IsQueued, ClearedInv, TypeOK
  <2> QED
    BY <2>2, <2>3
<1> QED
  BY <1>1, <1>2

LEMMA ClearedClear ==
  ASSUME ClearedInv, NEW x \in Executors, NEW t \in VisibleScopes(x), ClearState(x, t),
         NEW e \in Executors, NEW s \in Scopes,
         Empty(e, s) \/ (e = x /\ s = t)
  PROVE  Empty(e, s)'
<1> SUFFICES ASSUME NEW k \in Keys PROVE ReadState(e, <<s, k>>)' = None
  BY DEF Empty
<1>1. <<s, k>> \in Cells
  BY DEF Cells
<1>2. CASE e = x /\ s = t
  <2>1. \/ queued'[e][<<s, k>>] = None
        \/ ~IsQueued(e, <<s, k>>) /\ scopes[<<s, k>>] = None /\ queued'[e][<<s, k>>] = Unqueued
    BY <1>1, <1>2 DEF ClearState, UpdatesForScope, IsQueued, ClearedInv, TypeOK
  <2> QED
    BY <2>1, DistinctValues DEF ClearState, ReadState, IsQueued
<1>3. CASE Empty(e, s) /\ ~(e = x /\ s = t)
  <2>1. ReadState(e, <<s, k>>) = None
    BY <1>3 DEF Empty
  <2>2. queued'[e][<<s, k>>] = queued[e][<<s, k>>]
    BY <1>1, <1>3 DEF ClearState, UpdatesForScope, ClearedInv, TypeOK
  <2> QED
    BY <2>1, <2>2 DEF ClearState, ReadState, IsQueued
<1> QED
  BY <1>2, <1>3

LEMMA ClearedStep == ClearedInv /\ [Next]_vars => ClearedInv'
<1> SUFFICES ASSUME ClearedInv, [Next]_vars PROVE ClearedInv'
  OBVIOUS
<1>1. TypeOK /\ TypeOK'
  BY TypeStep DEF ClearedInv
<1>2. Uncontested' => Uncontested
  BY <1>1, ContestedStep
<1> SUFFICES ClearedVisible' /\ (Uncontested' => ClearedEmpty')
  BY <1>1 DEF ClearedInv
<1>3. ASSUME NEW x \in Executors, NEW t \in VisibleScopes(x), NEW k \in Keys,
             NEW v \in Values \cup {None}, WriteState(x, <<t, k>>, v)
      PROVE  ClearedVisible' /\ (Uncontested' => ClearedEmpty')
  <2>1. <<t, k>> \in Cells /\ <<t, k>>[1] \in VisibleScopes(x)
    BY VisibleCells
  <2>2. /\ \A e \in Executors, s \in Scopes : <<e, s>> \in cleared' => <<e, s>> \in cleared
        /\ \A e \in Executors, s \in Scopes :
             <<e, s>> \in cleared' /\ Empty(e, s) => Empty(e, s)'
    BY <1>3, <2>1, ClearedWrite
  <2> QED
    BY <1>2, <2>2 DEF ClearedInv, ClearedVisible, ClearedEmpty
<1>4. ASSUME NEW x \in Executors, NEW t \in VisibleScopes(x), ClearState(x, t)
      PROVE  ClearedVisible' /\ (Uncontested' => ClearedEmpty')
  <2>1. cleared' = cleared \cup {<<x, t>>}
    BY <1>4 DEF ClearState
  <2>2. ClearedVisible'
    BY <2>1 DEF ClearedInv, ClearedVisible
  <2>3. Uncontested' => ClearedEmpty'
    BY <1>2, <1>4, <2>1, ClearedClear DEF ClearedInv, ClearedEmpty
  <2> QED
    BY <2>2, <2>3
<1>5. CASE PublishUpdates \/ \E state \in exported : ImportState(state)
  <2>1. cleared' = {}
    BY <1>5 DEF PublishUpdates, ImportState
  <2> QED
    BY <2>1 DEF ClearedVisible, ClearedEmpty
<1>6. CASE PublishUpdatesFails
  <2>1. ~Uncontested
    BY <1>6 DEF PublishUpdatesFails, Uncontested
  <2>2. ClearedVisible'
    BY <1>6 DEF PublishUpdatesFails, ClearedInv, ClearedVisible
  <2> QED
    BY <1>2, <2>1, <2>2
<1>7. CASE UNCHANGED <<scopes, queued, cleared>>
  <2>1. ClearedVisible' /\ (ClearedEmpty => ClearedEmpty')
    BY <1>7 DEF ClearedInv, ClearedVisible, ClearedEmpty, Empty, ReadState, IsQueued
  <2> QED
    BY <1>2, <2>1 DEF ClearedInv
<1> QED
  BY <1>3, <1>4, <1>5, <1>6, <1>7 DEF Next, ReadOrInitState, ExportState, vars

(* An executor sees nothing in a scope it cleared, until it writes there or *)
(* the superstep is published; the inductive invariant says it of every    *)
(* cell of the scope, published and queued, instead of the keys reported.  *)
THEOREM ClearingClears == Spec => []ClearedIsEmpty
<1>1. ClearedInv => ClearedIsEmpty
  BY KeysRead DEF ClearedInv, ClearedVisible, ClearedEmpty, ClearedIsEmpty, Empty
<1> QED
  BY <1>1, ClearedInit, ClearedStep, PTL DEF Spec

-----------------------------------------------------------------------------
(* Refinement                                                              *)

View  == [e \in Executors |-> [c \in Cells |-> ReadState(e, c)]]
Wrote == [e \in Executors |-> {c \in Cells : IsQueued(e, c)}]

LEMMA MappedInit == Init => Promised!Init
  BY DEF Init, Promised!Init, Promised!Cells, Promised!Scopes, Cells, Scopes, ReadState, IsQueued

LEMMA MappedCells ==
  /\ Promised!Cells = Cells
  /\ \A c \in Cells : Promised!Contested(c) <=> Contested(c)
  /\ \A D \in SUBSET Cells : Promised!Merged(D) = Applied(D)
<1>1. Promised!Cells = Cells
  BY DEF Promised!Cells, Promised!Scopes, Cells, Scopes
<1>2. ASSUME NEW c \in Cells, NEW e \in Executors
      PROVE  c \in Wrote[e] <=> IsQueued(e, c)
  BY DEF Wrote
<1>3. \A c \in Cells : Promised!Contested(c) <=> Contested(c)
  BY <1>2 DEF Promised!Contested, Contested, Wrote
<1>4. ASSUME NEW D \in SUBSET Cells
      PROVE  Promised!Merged(D) = Applied(D)
  <2>1. ASSUME NEW c \in Cells
        PROVE  (CHOOSE e \in Executors : c \in Wrote[e]) = (CHOOSE e \in Executors : IsQueued(e, c))
    BY <1>2
  <2>2. ASSUME NEW c \in Cells, \E e \in Executors : IsQueued(e, c)
        PROVE  View[CHOOSE e \in Executors : IsQueued(e, c)][c]
                 = queued[CHOOSE e \in Executors : IsQueued(e, c)][c]
    BY <2>2 DEF View, ReadState
  <2> QED
    BY <1>1, <1>2, <2>1, <2>2 DEF Promised!Merged, Applied, Wrote, View
<1> QED
  BY <1>1, <1>3, <1>4

LEMMA MappedWrite ==
  ASSUME TypeOK, NEW e \in Executors, NEW s \in VisibleScopes(e), NEW k \in Keys,
         NEW v \in Values \cup {None}, WriteState(e, <<s, k>>, v)
  PROVE  Promised!Next
<1> DEFINE c == <<s, k>>
<1>1. c \in Cells /\ c \in Promised!Reach(e)
  BY VisibleCells DEF Promised!Reach, VisibleScopes
<1>2. UNCHANGED <<scopes, exported>> /\ queued' = [queued EXCEPT ![e][c] = v]
  BY DEF WriteState
<1>3. Wrote' = [Wrote EXCEPT ![e] = @ \cup {c}]
  BY <1>1, <1>2, DistinctValues DEF Wrote, IsQueued, TypeOK
<1>4. View' = [View EXCEPT ![e][c] = v]
  BY <1>1, <1>2, DistinctValues DEF View, ReadState, IsQueued, TypeOK
<1>5. Promised!Write(e, c, v)
  BY <1>2, <1>3, <1>4 DEF Promised!Write, Wrote, View
<1> QED
  BY <1>1, <1>5 DEF Promised!Next

LEMMA MappedClear ==
  ASSUME TypeOK, NEW e \in Executors, NEW s \in VisibleScopes(e), ClearState(e, s)
  PROVE  Promised!Next
<1> DEFINE gone == {c \in Cells : c[1] = s /\ (scopes[c] # None \/ c \in Wrote[e])}
<1>1. UNCHANGED <<scopes, exported>>
  BY DEF ClearState
<1>2. queued' = [queued EXCEPT ![e] = [c \in Cells |-> IF c \in gone THEN None ELSE queued[e][c]]]
  BY DEF ClearState, UpdatesForScope, Wrote
<1>3. Wrote' = [Wrote EXCEPT ![e] = @ \cup gone]
  BY <1>2, DistinctValues DEF Wrote, IsQueued, TypeOK
<1>4. View' = [View EXCEPT ![e] = [c \in Cells |-> IF c[1] = s THEN None ELSE @[c]]]
  <2>1. ASSUME NEW x \in Executors, NEW c \in Cells
        PROVE  ReadState(x, c)' = IF x = e /\ c[1] = s THEN None ELSE ReadState(x, c)
    BY <1>1, <1>2, DistinctValues DEF ReadState, IsQueued, Wrote, TypeOK
  <2> QED
    BY <2>1 DEF View
<1>5. Promised!ClearScope(e, s)
  BY <1>1, <1>3, <1>4, MappedCells DEF Promised!ClearScope, Wrote, View
<1> QED
  BY <1>5 DEF Promised!Next, VisibleScopes

LEMMA MappedPublish ==
  ASSUME TypeOK, PublishUpdates
  PROVE  Promised!Next
<1>1. exported' = exported /\ scopes' = Applied(Cells) /\ \A c \in Cells : ~Contested(c)
  BY DEF PublishUpdates, Uncontested
<1>2. \A e \in Executors, c \in Cells : ~IsQueued(e, c)'
  BY DEF PublishUpdates, IsQueued
<1>3. Wrote' = [e \in Executors |-> {}]
  BY <1>2 DEF Wrote
<1>4. View' = [e \in Executors |-> Applied(Cells)]
  BY <1>1, <1>2 DEF View, ReadState, Applied
<1>5. Promised!Publish
  BY <1>1, <1>3, <1>4, MappedCells DEF Promised!Publish, Wrote, View
<1> QED
  BY <1>5 DEF Promised!Next

LEMMA MappedPublishFails ==
  ASSUME TypeOK, PublishUpdatesFails
  PROVE  Promised!Next
<1>1. PICK D \in SUBSET {c \in Cells : ~Contested(c)} : scopes' = Applied(D)
  <2>1. PICK s \in Scopes :
               \E done \in SUBSET {t \in Scopes : t # s /\ \A c \in {d \in Cells : Contested(d)} : c[1] # t},
                  partly \in SUBSET ({c \in Cells : c[1] = s} \ {d \in Cells : Contested(d)}) :
                 scopes' = Applied({c \in Cells : c[1] \in done} \cup partly)
    BY DEF PublishUpdatesFails
  <2> QED
    BY <2>1
<1>2. \E c \in Cells : Contested(c)
  BY DEF PublishUpdatesFails
<1>3. queued' = queued /\ exported' = exported
  BY DEF PublishUpdatesFails
<1>4. Wrote' = Wrote
  BY <1>3 DEF Wrote, IsQueued
<1>5. View' = [e \in Executors |-> [c \in Cells |->
                 IF c \in Wrote[e] THEN View[e][c] ELSE Applied(D)[c]]]
  BY <1>1, <1>3 DEF View, Wrote, ReadState, IsQueued
<1>6. Promised!PublishFails
  BY <1>1, <1>2, <1>3, <1>4, <1>5, MappedCells DEF Promised!PublishFails, Wrote, View
<1> QED
  BY <1>6 DEF Promised!Next

LEMMA MappedExport ==
  ASSUME TypeOK, ExportState
  PROVE  Promised!Next
<1>1. Wrote' = Wrote /\ View' = View /\ \A e \in Executors : Wrote[e] = {}
  BY DEF ExportState, Queued, Wrote, View, ReadState, IsQueued
<1>2. Promised!Save
  BY <1>1 DEF ExportState, Promised!Save, Promised!Settled, Wrote, View
<1> QED
  BY <1>2 DEF Promised!Next

LEMMA MappedImport ==
  ASSUME TypeOK, NEW state \in exported, ImportState(state)
  PROVE  Promised!Next
<1>1. state \in States
  BY DEF TypeOK
<1>2. Wrote' = Wrote /\ \A e \in Executors : Wrote[e] = {}
  BY DEF ImportState, Queued, Wrote, IsQueued
<1>3. View' = [e \in Executors |-> state]
  BY <1>1 DEF ImportState, Queued, View, ReadState, IsQueued, States
<1>4. Promised!Load(state)
  BY <1>2, <1>3 DEF ImportState, Promised!Load, Promised!Settled, Wrote, View
<1> QED
  BY <1>4 DEF Promised!Next

LEMMA MappedStep == TypeOK /\ [Next]_vars => [Promised!Next]_Promised!vars
<1> SUFFICES ASSUME TypeOK, [Next]_vars PROVE [Promised!Next]_Promised!vars
  OBVIOUS
<1>1. CASE UNCHANGED vars
  BY <1>1 DEF vars, Promised!vars, ReadState, IsQueued
<1>2. CASE Next
  BY <1>2, MappedWrite, MappedClear, MappedPublish, MappedPublishFails, MappedExport, MappedImport
     DEF Next, ReadOrInitState
<1> QED
  BY <1>1, <1>2

(* StateManager implements SharedState: a queue of updates and a table of  *)
(* scopes behave as one private view per executor and a common snapshot.   *)
THEOREM QueueKeepsPromise == Spec => KeepsPromise
  BY MappedInit, MappedStep, TypeCorrect, PTL DEF Spec, Promised!Spec, KeepsPromise
=============================================================================
