-------------------------------- MODULE MCRunner --------------------------------
(* Model checking Runner. *)
EXTENDS Runner

CONSTANTS r1, r2

\* Requests are interchangeable: the first one is posted first.
InTurn == r2 \in minted => r1 \in minted

\* No more than two failures and restores together, and the last superstep only in
\* lockstep and while there are none.
Bounds == /\ failures + restores <= 2
          /\ steps = MaxSteps => ~offThread /\ failures + restores = 0
=============================================================================
