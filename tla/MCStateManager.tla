---------------------------- MODULE MCStateManager ----------------------------
(* Model checking StateManager. *)
EXTENDS StateManager, TLC

ExecutorSymmetry == Permutations(Executors)

\* A run uses two keys of the shared scopes, or one key of every scope.
Used(c) == scopes[c] # None \/ \E e \in Executors : IsQueued(e, c)
TwoKeysOrPrivate ==
  \/ \A c \in Cells : c[1] \in Executors => ~Used(c)
  \/ \A c \in Cells : c[2] # (CHOOSE k \in Keys : TRUE) => ~Used(c)
=============================================================================
