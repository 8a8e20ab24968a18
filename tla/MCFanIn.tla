-------------------------------- MODULE MCFanIn --------------------------------
(* Model checking FanIn. *)
EXTENDS FanIn, TLC

\* The sources of a barrier are interchangeable.
Symmetry == Permutations(Sources)
=============================================================================
