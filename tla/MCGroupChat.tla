------------------------------ MODULE MCGroupChat ------------------------------
(* Model checking GroupChat: either caller with either manager, and more of one *)
(* bound for less of another.                                                   *)
EXTENDS GroupChat

Bounded(wrapped, round, t, i, q, r) ==
  [hosted : {wrapped}, roundRobin : {round}, turns : {t},
   inputs : {i}, requests : {q}, restarts : {r}]

\* A manager that selects anybody, and at most two turns in a chat.
MCFree == Bounded(FALSE, FALSE, 2, 2, 1, 1) \cup Bounded(FALSE, FALSE, 2, 1, 2, 1)
            \cup Bounded(TRUE, FALSE, 2, 1, 1, 1)

\* A round-robin manager, which comes back to the first participant in a chat.
MCRounds == Bounded(FALSE, TRUE, 4, 2, 1, 1) \cup Bounded(FALSE, TRUE, 4, 1, 2, 1)
              \cup Bounded(TRUE, TRUE, 4, 1, 1, 1) \cup Bounded(TRUE, TRUE, 2, 2, 1, 0)

MCSetups == MCFree \cup MCRounds

\* Wrapped as an agent, for turns that run beside each other in one chat.
MCWrapped == Bounded(TRUE, TRUE, 3, 1, 2, 0) \cup Bounded(TRUE, FALSE, 3, 1, 2, 0)
=============================================================================
