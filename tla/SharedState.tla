------------------------------ MODULE SharedState ------------------------------
(***************************************************************************)
(* What the state of a workflow run promises to its executors, whatever    *)
(* the bookkeeping: during a superstep every executor works on a view of   *)
(* its own, taken of the snapshot all executors share and changed by its   *)
(* own calls only; publishing merges the views into the next snapshot; a   *)
(* checkpoint holds a snapshot no superstep is at work on.                 *)
(* StateManager implements this with a queue of updates.                   *)
(***************************************************************************)
EXTENDS FiniteSets, Integers

CONSTANTS Executors,     \* executors of the workflow
          SharedScopes,  \* named scopes, reached by every executor
          Keys,          \* keys inside a scope
          Values,        \* values a key can have
          None,          \* "no such key"
          MaxSaved       \* bound: how many different snapshots are saved

\* A scope is the private one of an executor, named after it, or a shared one.
Scopes == Executors \cup SharedScopes
Cells  == Scopes \X Keys
Reach(e) == ({e} \cup SharedScopes) \X Keys

States == [Cells -> Values \cup {None}]

VARIABLES snapshot,  \* what the last superstep left
          view,      \* executor -> what it sees now
          wrote,     \* executor -> the cells it updated in this superstep
          saved      \* snapshots held by checkpoints

vars == <<snapshot, view, wrote, saved>>

Init ==
  /\ snapshot = [c \in Cells |-> None]
  /\ view = [e \in Executors |-> snapshot]
  /\ wrote = [e \in Executors |-> {}]
  /\ saved = {}

\* Two executors updated the same cell in one superstep.
Contested(c) ==
  \E e1, e2 \in Executors : e1 # e2 /\ c \in wrote[e1] /\ c \in wrote[e2]

\* The snapshot with the updates of the cells D merged in.
Merged(D) ==
  [c \in Cells |->
     IF c \in D /\ \E e \in Executors : c \in wrote[e]
       THEN view[CHOOSE e \in Executors : c \in wrote[e]][c]
       ELSE snapshot[c]]

Write(e, c, v) ==
  /\ UNCHANGED <<snapshot, saved>>
  /\ wrote' = [wrote EXCEPT ![e] = @ \cup {c}]
  /\ view' = [view EXCEPT ![e][c] = v]

\* Whatever was published in the scope or written by this executor is gone
\* from its view, and from nobody else's.
ClearScope(e, s) ==
  LET gone == {c \in Cells : c[1] = s /\ (snapshot[c] # None \/ c \in wrote[e])}
  IN /\ UNCHANGED <<snapshot, saved>>
     /\ wrote' = [wrote EXCEPT ![e] = @ \cup gone]
     /\ view' = [view EXCEPT ![e] =
                   [c \in Cells |-> IF c[1] = s THEN None ELSE @[c]]]

Publish ==
  /\ UNCHANGED saved
  /\ \A c \in Cells : ~Contested(c)
  /\ wrote' = [e \in Executors |-> {}]
  /\ snapshot' = Merged(Cells)
  /\ view' = [e \in Executors |-> Merged(Cells)]

\* A contested superstep is not published as a whole; what it leaves of the
\* uncontested cells is not promised, but no view is lost.
PublishFails ==
  /\ UNCHANGED <<wrote, saved>>
  /\ \E c \in Cells : Contested(c)
  /\ \E D \in SUBSET {c \in Cells : ~Contested(c)} :
       /\ snapshot' = Merged(D)
       /\ view' = [e \in Executors |->
                     [c \in Cells |-> IF c \in wrote[e] THEN view[e][c]
                                                        ELSE Merged(D)[c]]]

Settled == \A e \in Executors : wrote[e] = {}

Save ==
  /\ Settled
  /\ saved' = saved \cup {snapshot}
  /\ UNCHANGED <<snapshot, view, wrote>>

Load(s) ==
  /\ Settled
  /\ snapshot' = s
  /\ view' = [e \in Executors |-> s]
  /\ UNCHANGED <<wrote, saved>>

Next ==
  \/ \E e \in Executors : \E c \in Reach(e) : \E v \in Values \cup {None} : Write(e, c, v)
  \/ \E e \in Executors : \E s \in {e} \cup SharedScopes : ClearScope(e, s)
  \/ Publish
  \/ PublishFails
  \/ Save
  \/ \E s \in saved : Load(s)

Spec == Init /\ [][Next]_vars
=============================================================================
