------------------------------ MODULE MCAgentTurn ------------------------------
(* Model checking AgentTurn. *)
EXTENDS AgentTurn, TLC

CONSTANTS a, b, c, free,     \* calls
          gated, ruled, safe \* tools

\* Two calls of a tool that requires approval, one of another such tool, and
\* one of a tool that requires none.
MCToolOf ==
  [x \in Calls |-> IF x = free THEN safe ELSE IF x = c THEN ruled ELSE gated]

\* Several messages are injected where the model makes one call at most.
FewCalls == sent <= 1 \/ Cardinality(called) <= 1

\* The calls of one tool are interchangeable.
Symmetry == Permutations({a, b})
=============================================================================
