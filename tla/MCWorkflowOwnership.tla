-------------------------- MODULE MCWorkflowOwnership --------------------------
(* Model checking WorkflowOwnership. *)
EXTENDS WorkflowOwnership, TLC

\* Runs, hosts and the runs of hosts are interchangeable.
Symmetry == Permutations(Runs) \cup Permutations(Hosts) \cup Permutations(Children)
=============================================================================
