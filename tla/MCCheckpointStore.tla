--------------------------- MODULE MCCheckpointStore ---------------------------
(* Model checking CheckpointStore. *)
EXTENDS CheckpointStore, TLC

\* Checkpoint ids are random.
Symmetry == Permutations(Checkpoints)
=============================================================================
