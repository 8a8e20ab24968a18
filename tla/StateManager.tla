------------------------------ MODULE StateManager ------------------------------
(***************************************************************************)
(* The state of a workflow run (workflow/internal/execution/state.go):     *)
(* published scopes, and a queue of the updates executors made since the   *)
(* last publish, keyed by executor, scope and key. Handlers of different   *)
(* executors run concurrently inside a superstep and call it through their *)
(* bound contexts; the runner publishes when all handlers are done, then   *)
(* exports the scopes into a checkpoint; a restore imports them back.      *)
(* A scope without entries and no scope at all are the same here: reading, *)
(* exporting and clearing do not tell them apart.                          *)
(***************************************************************************)
EXTENDS FiniteSets, Integers

CONSTANTS Executors,     \* executors of the workflow
          SharedScopes,  \* scope names; the private scope of an executor has none
          Keys,          \* keys inside a scope
          Values,        \* values a key can have
          None,          \* no such key, and a nil value, which deletes
          Unqueued,      \* no update queued
          MaxSaved       \* bound: how many different exports are kept

ASSUME DistinctScopes == Executors \cap SharedScopes = {}
ASSUME DistinctValues == None \notin Values /\ Unqueued \notin Values \cup {None}

\* ScopeID.Equal: by name if shared, by executor if private.
Scopes == Executors \cup SharedScopes
Cells  == Scopes \X Keys
VisibleScopes(e) == {e} \cup SharedScopes

VARIABLES scopes,   \* cell -> published value, or None
          queued,   \* executor -> cell -> queued value, None for a delete, or Unqueued
          exported, \* the StateData of the checkpoints made so far
          cleared   \* history: <<executor, scope>> cleared and not written since

vars == <<scopes, queued, exported, cleared>>

States == [Cells -> Values \cup {None}]

TypeOK ==
  /\ scopes \in States
  /\ queued \in [Executors -> [Cells -> Values \cup {None, Unqueued}]]
  /\ \A e \in Executors, c \in Cells :
       queued[e][c] # Unqueued => c[1] \in VisibleScopes(e)
  /\ exported \in SUBSET States
  /\ cleared \in SUBSET (Executors \X Scopes)

Init ==
  /\ scopes = [c \in Cells |-> None]
  /\ queued = [e \in Executors |-> [c \in Cells |-> Unqueued]]
  /\ exported = {}
  /\ cleared = {}

-----------------------------------------------------------------------------
(* Reading                                                                 *)

IsQueued(e, c) == queued[e][c] # Unqueued

ReadState(e, c) == IF IsQueued(e, c) THEN queued[e][c] ELSE scopes[c]

\* Mutant: the match on the executor is not strict.
UpdatesForScopeOfAnyone(e, s) ==
  {c \in Cells : c[1] = s /\ \E other \in Executors : IsQueued(other, c)}

\* The cells of scope s with an update of e (getUpdatesForScopeStrict).
UpdatesForScope(e, s) == {c \in Cells : c[1] = s /\ IsQueued(e, c)}

\* The published keys of the scope, then the executor's own updates applied.
ReadKeys(e, s) ==
  LET published == {c[2] : c \in {d \in Cells : d[1] = s /\ scopes[d] # None}}
      deleted   == {c[2] : c \in {d \in UpdatesForScope(e, s) : queued[e][d] = None}}
      written   == {c[2] : c \in {d \in UpdatesForScope(e, s) : queued[e][d] # None}}
  IN (published \ deleted) \cup written

-----------------------------------------------------------------------------
(* Updates, queued until the superstep ends                                *)

\* A nil value is queued as a delete, as ClearStateKey does.
WriteState(e, c, v) ==
  /\ queued' = [queued EXCEPT ![e][c] = v]
  /\ cleared' = IF v = None THEN cleared ELSE cleared \ {<<e, c[1]>>}
  /\ UNCHANGED <<scopes, exported>>

\* A factory that returns nil initializes nothing.
ReadOrInitState(e, c, v) ==
  /\ ReadState(e, c) = None
  /\ v # None
  /\ WriteState(e, c, v)

ClearState(e, s) ==
  LET published == {c \in Cells : c[1] = s /\ scopes[c] # None}
  IN /\ queued' = [queued EXCEPT ![e] =
                     [c \in Cells |->
                        IF c \in published \cup UpdatesForScope(e, s)
                          THEN None ELSE queued[e][c]]]
     /\ cleared' = cleared \cup {<<e, s>>}
     /\ UNCHANGED <<scopes, exported>>

-----------------------------------------------------------------------------
(* Between supersteps                                                      *)

Queued == \E e \in Executors, c \in Cells : IsQueued(e, c)

\* StateScope.WriteState expects exactly one update for a key.
Contested(c) ==
  \E e1, e2 \in Executors : e1 # e2 /\ IsQueued(e1, c) /\ IsQueued(e2, c)

Uncontested == \A c \in Cells : ~Contested(c)

\* The scopes with the updates of the cells D applied.
Applied(D) ==
  [c \in Cells |->
     IF c \in D /\ \E e \in Executors : IsQueued(e, c)
       THEN queued[CHOOSE e \in Executors : IsQueued(e, c)][c]
       ELSE scopes[c]]

PublishUpdates ==
  /\ Uncontested
  /\ scopes' = Applied(Cells)
  /\ queued' = [e \in Executors |-> [c \in Cells |-> Unqueued]]
  /\ cleared' = {}
  /\ UNCHANGED exported

\* Mutant: the queue is dropped with the failed superstep.
PublishUpdatesFailsAndClears ==
  /\ \E s \in Scopes :
       LET contested == {c \in Cells : Contested(c)}
           inScope   == {c \in Cells : c[1] = s} \ contested
           others    == {t \in Scopes : t # s /\ \A c \in contested : c[1] # t}
       IN /\ \E c \in contested : c[1] = s
          /\ \E done \in SUBSET others, partly \in SUBSET inScope :
               scopes' = Applied({c \in Cells : c[1] \in done} \cup partly)
  /\ queued' = [e \in Executors |-> [c \in Cells |-> Unqueued]]
  /\ cleared' = {}
  /\ UNCHANGED exported

\* The first key with two updates ends the loop: by then some scopes are
\* written as a whole, and some keys of the one it was at; the queue is kept.
PublishUpdatesFails ==
  /\ \E s \in Scopes :
       LET contested == {c \in Cells : Contested(c)}
           inScope   == {c \in Cells : c[1] = s} \ contested
           others    == {t \in Scopes : t # s /\ \A c \in contested : c[1] # t}
       IN /\ \E c \in contested : c[1] = s
          /\ \E done \in SUBSET others, partly \in SUBSET inScope :
               scopes' = Applied({c \in Cells : c[1] \in done} \cup partly)
  /\ UNCHANGED <<queued, exported, cleared>>

\* ExportState refuses while updates are queued.
ExportState ==
  /\ ~Queued
  /\ (Cardinality(exported) < MaxSaved \/ scopes \in exported)
  /\ exported' = exported \cup {scopes}
  /\ UNCHANGED <<scopes, queued, cleared>>

\* Mutant: entries the checkpoint does not have survive.
ImportStateOver(state) ==
  /\ ~Queued
  /\ scopes' = [c \in Cells |-> IF state[c] = None THEN scopes[c] ELSE state[c]]
  /\ cleared' = {}
  /\ UNCHANGED <<queued, exported>>

\* ImportState refuses while updates are queued, and replaces every scope.
ImportState(state) ==
  /\ ~Queued
  /\ scopes' = state
  /\ cleared' = {}
  /\ UNCHANGED <<queued, exported>>

-----------------------------------------------------------------------------

Next ==
  \/ \E e \in Executors : \E s \in VisibleScopes(e) : \E k \in Keys :
       \E v \in Values \cup {None} :
         \/ WriteState(e, <<s, k>>, v)
         \/ ReadOrInitState(e, <<s, k>>, v)
  \/ \E e \in Executors : \E s \in VisibleScopes(e) : ClearState(e, s)
  \/ PublishUpdates
  \/ PublishUpdatesFails
  \/ ExportState
  \/ \E state \in exported : ImportState(state)

Spec == Init /\ [][Next]_vars

-----------------------------------------------------------------------------
(* Properties                                                              *)

\* The keys an executor is told of are those it can read: the two walk the
\* published scope and the queue in different ways (ReadKeys, ReadState).
KeysAreReadable ==
  \A e \in Executors : \A s \in VisibleScopes(e) :
    ReadKeys(e, s) = {k \in Keys : ReadState(e, <<s, k>>) # None}

\* A cleared scope stays empty for the executor that cleared it until it writes
\* there or the superstep is published, its own earlier writes included,
\* although clearing only queues deletes (ClearStateByID). A contested superstep
\* is the exception: a failed publish can show the executor other's keys.
ClearedIsEmpty ==
  Uncontested =>
    \A e \in Executors, s \in Scopes : <<e, s>> \in cleared => ReadKeys(e, s) = {}

\* Once two executors updated the same shared key in a superstep, nothing is
\* exported or imported any more: no checkpoint is made of the scopes that a
\* failed PublishUpdates left half written, and the run cannot be restored.
ContestedIsFinal ==
  [][~Uncontested => (~Uncontested' /\ exported' = exported)]_vars

\* The queue gives every executor what SharedState promises: isolated views,
\* merged as a whole, and checkpoints of published state only.
Promised == INSTANCE SharedState WITH
  snapshot <- scopes,
  view     <- [e \in Executors |-> [c \in Cells |-> ReadState(e, c)]],
  wrote    <- [e \in Executors |-> {c \in Cells : IsQueued(e, c)}],
  saved    <- exported

KeepsPromise == Promised!Spec
=============================================================================
