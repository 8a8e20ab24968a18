-------------------------- MODULE MCRunEventStream --------------------------
(* Small instances of RunEventStream. One state graph holds a run for each *)
(* choice of who takes part: beside a first watcher there is a second one, *)
(* or somebody who cancels, or somebody who restores, or nobody.           *)
EXTENDS RunEventStream, FiniteSets, TLC

ClientSymmetry == Permutations(Work)

Callers == {s \in Stoppers : stopPc[s] = "idle"} \cup {k \in Restorers : restorePc[k] = "idle"}
Readers == {r \in Watchers : watchPc[r] = "idle"}

Others  == Cardinality(Readers) + Cardinality(Callers) - 1

Scenario ==
    /\ Readers # {} /\ Others <= 1
    \* two messages only where one watcher reads a run that started afresh
    /\ inputs + turns <= 2
    /\ Others = 1 => inputs + turns <= 1
    \* a resumed run beside nobody, or beside somebody who restores it
    /\ saved # {} /\ Others = 1 =>
          /\ turns + inputs = 0 /\ Callers \subseteq Restorers /\ Callers # {}
          /\ Cardinality({w \in Work : work[w] # "new"}) = 1
    /\ saved # {} => inputs <= 1 /\ turns = 0

MCInit     == Init /\ Scenario
MCSpec     == MCInit /\ [][Next]_vars
MCFairSpec == MCSpec /\ Fairness
=============================================================================
