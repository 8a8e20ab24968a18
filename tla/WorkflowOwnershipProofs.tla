------------------------ MODULE WorkflowOwnershipProofs ------------------------
(***************************************************************************)
(* For any number of runs and hosts, whatever their tokens' addresses: one *)
(* run owns the workflow at a time, and no direct run one that is bound;   *)
(* and while it has one parent, a run starts on clean executors unless it  *)
(* was overtaken.                                                          *)
(***************************************************************************)
EXTENDS WorkflowOwnership, TLAPS

USE DEF Parties, Takers, SubRuns

\* Runs are told apart by their tokens, from each other and from every host.
LEMMA Tokens ==
  /\ \A p \in Takers : Identity(p) = p
  /\ \A h \in Hosts : Identity(h) \notin Takers
  /\ \A p \in Runs \cup Hosts : Signoff(p) = None
  /\ \A p \in SubRuns : Signoff(p) # None /\ Signoff(p) \in Identities /\ Signoff(p) \notin Takers
  /\ \A p \in Parties : Identity(p) \in Identities
  /\ None \notin Identities
<1>1. \A p \in SubRuns : p[1] \in Hosts
  OBVIOUS
<1>2. \A p \in Takers : Identity(p) = p
  BY DistinctParties DEF Identity
<1>3. \A h \in Hosts : Identity(h) \notin Takers
  BY DistinctParties DEF Identity
<1>4. \A p \in Runs \cup Hosts : Signoff(p) = None
  BY DistinctParties DEF Signoff
<1>5. \A p \in Parties : Identity(p) \in Identities
  BY DEF Identities
<1>6. None \notin Identities
  BY DistinctParties DEF Identities, Identity
<1> QED
  BY <1>1, <1>2, <1>3, <1>4, <1>5, <1>6 DEF Signoff

-----------------------------------------------------------------------------
(* The inductive invariant                                                 *)

\* What a party loaded is what it may swap: no owner, or one that accepts it.
Loaded ==
  /\ \A p \in Parties : pc[p] = "check" => loaded[p] = None /\ Signoff(p) = None
  /\ \A p \in Parties : pc[p] = "swap" =>
       \/ loaded[p] = None /\ Signoff(p) = None
       \/ loaded[p] # None /\ Accepts(loaded[p], p)
  /\ \A p \in Parties : pc[p] = "handback" => loaded[p] # None /\ p \in Takers

\* The owner's token is that of the party that took, or the one it took from.
TokenOfTaker ==
  owner # None =>
    /\ ~owner.back => owner.token = Identity(owner.by)
    /\ owner.back => owner.token = Signoff(owner.by) /\ owner.by \in SubRuns

\* A run that owns the workflow is the owner, by its own taking.
OwnersAreOwner ==
  \A p \in Takers : Owns(p) => owner # None /\ owner.by = p /\ ~owner.back

\* A bound workflow always has an owner, and it is no direct run.
BoundHasOwner ==
  \A h \in Hosts : Bound(h) => owner # None /\ owner.token \notin Runs

IInv == TypeOK /\ Loaded /\ TokenOfTaker /\ OwnersAreOwner /\ BoundHasOwner

LEMMA OwnerFields ==
  ASSUME TypeOK, owner # None
  PROVE  owner.token \in Identities /\ owner.sub \in BOOLEAN /\ owner.by \in Parties
           /\ owner.back \in BOOLEAN
BY DEF TypeOK, Owners, WorkflowOwner

LEMMA InitInv == Init => IInv
BY Switches DEF Init, IInv, TypeOK, Owners, Loaded, TokenOfTaker, OwnersAreOwner, BoundHasOwner, Owns, Bound

\* The steps that leave the owner alone.
LEMMA StepAside ==
  ASSUME IInv, NEW p \in Parties,
         Load(p) \/ CheckReset(p) \/ Mark(p) \/ Execute(p) \/ Release(p)
           \/ Reset(p) \/ ClearNeedsReset(p)
  PROVE  IInv'
<1> USE DEF IInv, TypeOK, Goto
<1>1. TypeOK'
  <2>1. CASE Load(p)
    BY <2>1 DEF Load
  <2>2. CASE CheckReset(p)
    BY <2>2 DEF CheckReset
  <2>3. CASE Mark(p)
    BY <2>3, Switches DEF Mark
  <2>4. CASE Execute(p)
    BY <2>4 DEF Execute
  <2>5. CASE Release(p)
    BY <2>5 DEF Release
  <2>6. CASE Reset(p)
    BY <2>6 DEF Reset
  <2>7. CASE ClearNeedsReset(p)
    BY <2>7 DEF ClearNeedsReset
  <2> QED
    BY <2>1, <2>2, <2>3, <2>4, <2>5, <2>6, <2>7
<1>2. owner' = owner
  BY DEF Load, CheckReset, Mark, Execute, Release, Reset, ClearNeedsReset
<1>3. Loaded'
  BY <1>2 DEF Loaded, Accepts, Load, CheckReset, Mark, Execute, Release, Reset, ClearNeedsReset
<1>4. TokenOfTaker'
  BY <1>2 DEF TokenOfTaker
<1>5. OwnersAreOwner'
  BY <1>2 DEF OwnersAreOwner, Owns, Load, CheckReset, Mark, Execute, Release, Reset,
     ClearNeedsReset
<1>6. BoundHasOwner'
  BY <1>2 DEF BoundHasOwner, Bound, Load, CheckReset, Mark, Execute, Release, Reset,
     ClearNeedsReset
<1> QED
  BY <1>1, <1>3, <1>4, <1>5, <1>6

LEMMA StepSwap ==
  ASSUME IInv, NEW p \in Parties, Swap(p)
  PROVE  IInv'
<1> USE DEF IInv, TypeOK, Goto
<1>1. CASE owner # loaded[p]
  <2>1. owner' = owner /\ loaded' = loaded /\ needsReset' = needsReset /\ dirty' = dirty /\ canReset' = canReset
        /\ pc' = [pc EXCEPT ![p] = "new"] /\ raced' = raced \ {p}
    BY <1>1 DEF Swap
  <2>2. TypeOK' /\ Loaded' /\ TokenOfTaker'
    BY <2>1 DEF Loaded, TokenOfTaker, Accepts
  <2>3. OwnersAreOwner' /\ BoundHasOwner'
    BY <2>1 DEF OwnersAreOwner, BoundHasOwner, Owns, Bound
  <2> QED
    BY <2>2, <2>3
<1>2. CASE owner = loaded[p]
  <2>1. /\ owner' = Taken(p) /\ pc[p] = "swap" /\ pc' = [pc EXCEPT ![p] = "mark"]
        /\ loaded' = loaded /\ needsReset' = needsReset /\ dirty' = dirty /\ canReset' = canReset
        /\ raced' = raced \cup (Waiting \ {p})
    BY <1>2 DEF Swap
  <2>2. /\ owner' \in Owners /\ owner' # None
        /\ owner'.token = Identity(p) /\ owner'.by = p /\ ~owner'.back
    <3>1. owner' = [token |-> Identity(p), sub |-> p \in Hosts, by |-> p, back |-> FALSE]
      BY <2>1 DEF Taken
    <3>2. Identity(p) \in Identities /\ (p \in Hosts) \in BOOLEAN /\ p \in Parties
      BY Tokens
    <3>3. owner' \in WorkflowOwner
      BY <3>1, <3>2 DEF WorkflowOwner
    <3> QED
      BY <3>1, <3>3, NilIsNoOwner DEF Owners
  <2>3. TypeOK'
    BY <2>1, <2>2 DEF Waiting
  <2>4. Loaded'
    BY <2>1 DEF Loaded, Accepts
  <2>5. TokenOfTaker'
    BY <2>2 DEF TokenOfTaker
  <2>6. ASSUME NEW q \in Takers, q # p, Owns(q) PROVE FALSE
    <3>1. owner # None /\ owner.token = q
      BY <2>6, Tokens DEF OwnersAreOwner, TokenOfTaker
    <3>2. q \in {Signoff(p), Identity(p)}
      BY <1>2, <2>1, <3>1 DEF Loaded, Accepts
    <3> QED
      BY <2>6, <3>2, Tokens
  <2>7. OwnersAreOwner'
    BY <2>1, <2>2, <2>6 DEF OwnersAreOwner, Owns
  <2>8. ASSUME NEW h \in Hosts, Bound(h), p \in Runs PROVE FALSE
    <3>1. owner # None /\ owner.token \notin Runs
      BY <2>8 DEF BoundHasOwner
    <3>2. owner.token \in {Signoff(p), Identity(p)}
      BY <1>2, <2>1, <3>1 DEF Loaded, Accepts
    <3> QED
      BY <2>8, <3>1, <3>2, Tokens, OwnerFields
  <2>9. BoundHasOwner'
    <3>1. p \notin Runs => Identity(p) \notin Runs
      BY Tokens, DistinctParties
    <3> QED
      BY <2>1, <2>2, <2>8, <3>1, DistinctParties DEF BoundHasOwner, Bound
  <2> QED
    BY <2>3, <2>4, <2>5, <2>7, <2>9
<1> QED
  BY <1>1, <1>2

LEMMA StepHandBack ==
  ASSUME IInv, NEW p \in Parties, HandBack(p)
  PROVE  IInv'
<1> USE DEF IInv, TypeOK, Goto
<1>1. p \in Takers /\ pc[p] = "handback" /\ loaded[p] # None
  BY DEF HandBack, Loaded
<1>2. CASE owner # loaded[p]
  <2>1. owner' = owner /\ loaded' = loaded /\ needsReset' = needsReset /\ dirty' = dirty /\ canReset' = canReset
        /\ pc' = [pc EXCEPT ![p] = "run"] /\ raced' = raced
    BY <1>2 DEF HandBack
  <2>2. TypeOK' /\ Loaded' /\ TokenOfTaker'
    BY <2>1 DEF Loaded, TokenOfTaker, Accepts
  <2>3. OwnersAreOwner' /\ BoundHasOwner'
    BY <1>1, <2>1, DistinctParties DEF OwnersAreOwner, BoundHasOwner, Owns, Bound
  <2> QED
    BY <2>2, <2>3
<1>3. CASE owner = loaded[p]
  <2>1. /\ loaded' = loaded /\ needsReset' = needsReset /\ dirty' = dirty /\ canReset' = canReset
        /\ pc' = [pc EXCEPT ![p] = "reset"] /\ raced' = raced
        /\ owner' = IF Signoff(p) = None THEN None
                    ELSE [token |-> Signoff(p), sub |-> owner.sub, by |-> p, back |-> TRUE]
    BY <1>3 DEF HandBack
  <2>2. owner # None /\ owner.by = p /\ owner.token = p
    BY <1>1, <1>3, Tokens DEF OwnersAreOwner, Owns, TokenOfTaker
  <2>3. p \in SubRuns => Signoff(p) # None /\ Signoff(p) \in Identities /\ Signoff(p) \notin Takers
    BY Tokens
  <2>4. p \in Runs => Signoff(p) = None
    BY Tokens
  <2>5. owner' \in Owners /\ TokenOfTaker'
    BY <1>1, <2>1, <2>3, <2>4, <2>2, OwnerFields DEF Owners, WorkflowOwner, TokenOfTaker
  <2>6. TypeOK' /\ Loaded'
    BY <2>1, <2>5 DEF Loaded, Accepts
  <2>7. OwnersAreOwner'
    BY <2>1, <2>2 DEF OwnersAreOwner, Owns
  <2>8. ASSUME NEW h \in Hosts, Bound(h) PROVE owner' # None /\ owner'.token \notin Runs
    <3>1. p \in SubRuns
      BY <1>1, <2>2, <2>8 DEF BoundHasOwner
    <3>2. owner' = [token |-> Signoff(p), sub |-> owner.sub, by |-> p, back |-> TRUE]
      BY <2>1, <2>3, <3>1
    <3>3. owner'.token \notin Runs
      BY <2>3, <3>1, <3>2
    <3>4. Signoff(p) \in Identities /\ owner.sub \in BOOLEAN
      BY <2>2, <2>3, <3>1, OwnerFields
    <3>5. owner' \in WorkflowOwner
      BY <3>2, <3>4 DEF WorkflowOwner
    <3> QED
      BY <3>3, <3>5, NilIsNoOwner
  <2>9. BoundHasOwner'
    BY <2>1, <2>8, <1>1, DistinctParties DEF BoundHasOwner, Bound
  <2> QED
    BY <2>5, <2>6, <2>7, <2>9
<1> QED
  BY <1>2, <1>3

LEMMA Inductive == IInv /\ [Next]_vars => IInv'
<1> SUFFICES ASSUME IInv, [Next]_vars PROVE IInv'
  OBVIOUS
<1>1. CASE UNCHANGED vars
  BY <1>1 DEF vars, IInv, TypeOK, Loaded, Accepts, TokenOfTaker, OwnersAreOwner, Owns,
     BoundHasOwner, Bound
<1> QED
  BY <1>1, StepAside, StepSwap, StepHandBack DEF Next, Step

THEOREM Invariance == Spec => []IInv
BY InitInv, Inductive, PTL DEF Spec

-----------------------------------------------------------------------------
(* Properties                                                              *)

\* The owner, needsReset and what parties have loaded keep their types.
THEOREM TypeCorrect == Spec => []TypeOK
<1>1. IInv => TypeOK
  BY DEF IInv
<1> QED
  BY <1>1, Invariance, PTL

\* At most one run owns the workflow, whatever the interleaving of checks,
\* swaps and hand-backs (TakeOwnership, ReleaseOwnershipTo).
THEOREM OneRunAtATime == Spec => []OneRun
<1>1. IInv => OneRun
  BY DEF IInv, OneRun, OwnersAreOwner
<1> QED
  BY <1>1, Invariance, PTL

\* While a host is bound no direct run gets the workflow, between the runs of
\* the host neither (ReleaseOwnershipTo with the host as target).
THEOREM BoundIsNeverRun == Spec => []BoundIsNotRun
<1>1. IInv => BoundIsNotRun
  BY Tokens DEF IInv, BoundIsNotRun, OwnersAreOwner, TokenOfTaker, BoundHasOwner
<1> QED
  BY <1>1, Invariance, PTL

-----------------------------------------------------------------------------
(* Hosts and their runs                                                    *)

\* The token of the owner says who is at work: a run that took, or else a host
\* that is bound. Which host, it does not tell.
TokenIsHeld ==
  owner # None =>
    IF owner.token \in Takers
      THEN Owns(owner.token)
      ELSE \E h \in Hosts : Bound(h) /\ Identity(h) = owner.token

\* Past its first look, a run of a host finds its host bound.
HostIsBound == \A p \in SubRuns : pc[p] \notin {"new", "done", "refused"} => pc[p[1]] = "run"

\* What owner and program counters say of the hosts.
HostInv == TokenIsHeld /\ HostIsBound

\* From its look at the owner to the end of its reset.
Active(p) == pc[p] \in {"swap", "mark", "run", "handback", "reset", "clear"}

\* A host makes its runs one after the other.
OneOfHost == \A p, q \in SubRuns : p[1] = q[1] /\ Active(p) /\ Active(q) => p = q

\* The steps that leave the owner alone.
Aside(p) == Load(p) \/ CheckReset(p) \/ Mark(p) \/ Execute(p) \/ Release(p)
              \/ Reset(p) \/ ClearNeedsReset(p)

\* A run of a host, its host and its name.
LEMMA SubRunParts ==
  \A p \in SubRuns : /\ p[1] \in Hosts /\ p[2] \in Children /\ p = <<p[1], p[2]>>
                     /\ Signoff(p) = Identity(p[1])
BY DEF Signoff

\* Nobody has a token at first.
LEMMA HostInit == Init => HostInv /\ OneOfHost
BY SubRunParts DEF Init, HostInv, TokenIsHeld, HostIsBound, OneOfHost, Active, Bound

\* A run hands back only what is its own.
LEMMA ReleaseHandsBack ==
  ASSUME IInv, NEW p \in Parties, Release(p)
  PROVE  p \in Takers /\ pc[p] = "run" /\ pc' = [pc EXCEPT ![p] = "handback"]
BY Tokens DEF IInv, Release, OwnersAreOwner, TokenOfTaker, Owns, Goto

\* The steps that leave the owner alone keep who is bound.
LEMMA HostAside ==
  ASSUME IInv, HostInv, OneOfHost, NEW p \in Parties, Aside(p)
  PROVE  HostInv' /\ OneOfHost'
<1> USE DEF Goto
<1>0. pc \in [Parties -> {"new", "check", "swap", "mark", "run", "release", "handback",
                         "reset", "clear", "done", "refused"}] /\ owner' = owner
  BY DEF IInv, TypeOK, Aside, Load, CheckReset, Mark, Execute, Release, Reset, ClearNeedsReset
<1>1. \/ Load(p) /\ MayStart(p) /\ pc[p] = "new"
           /\ \E l \in {"check", "swap", "refused"} : pc' = [pc EXCEPT ![p] = l]
      \/ p \notin SubRuns /\ pc[p] = "check" /\ \E l \in {"swap", "refused"} : pc' = [pc EXCEPT ![p] = l]
      \/ pc[p] = "mark" /\ pc' = [pc EXCEPT ![p] = "run"]
      \/ pc' = pc
      \/ p \in Takers /\ pc[p] = "run" /\ pc' = [pc EXCEPT ![p] = "handback"]
      \/ pc[p] = "reset" /\ \E l \in {"clear", "done"} : pc' = [pc EXCEPT ![p] = l]
      \/ pc[p] = "clear" /\ pc' = [pc EXCEPT ![p] = "done"]
  <2>1. CASE Load(p)
    BY <2>1 DEF Load
  <2>2. CASE CheckReset(p)
    BY <2>2, Tokens DEF CheckReset, IInv, Loaded
  <2>3. CASE Release(p)
    BY <2>3, ReleaseHandsBack
  <2> QED
    BY <2>1, <2>2, <2>3 DEF Aside, Mark, Execute, Reset, ClearNeedsReset
<1>2. TokenIsHeld'
  BY <1>0, <1>1, DistinctParties DEF HostInv, TokenIsHeld, Owns, Bound
<1>4. HostIsBound'
  <2> SUFFICES ASSUME NEW q \in SubRuns, pc'[q] \notin {"new", "done", "refused"} PROVE pc'[q[1]] = "run"
    BY DEF HostIsBound
  <2>1. q \in Parties /\ q[1] \in Hosts /\ q[1] \in Parties
    BY SubRunParts
  <2>2. pc[q[1]] = "run"
    BY <1>0, <1>1, <2>1 DEF HostInv, HostIsBound, MayStart
  <2> QED
    BY <1>0, <1>1, <2>1, <2>2, DistinctParties
<1>5. OneOfHost'
  <2> SUFFICES ASSUME NEW q \in SubRuns, NEW r \in SubRuns, q[1] = r[1], Active(q)', Active(r)' PROVE q = r
    BY DEF OneOfHost
  <2>1. q = <<q[1], q[2]>> /\ r = <<r[1], r[2]>> /\ q[2] \in Children /\ r[2] \in Children
    BY SubRunParts
  <2>2. \A s \in SubRuns : Active(s)' => Active(s) \/ (s = p /\ MayStart(p))
    BY <1>0, <1>1 DEF Active
  <2>3. ASSUME NEW s \in SubRuns, NEW t \in SubRuns, s[1] = t[1], MayStart(s), Active(t), t # s PROVE FALSE
    <3>1. s = <<s[1], s[2]>> /\ t = <<t[1], t[2]>> /\ t[2] \in Children
      BY SubRunParts
    <3>2. t[2] # s[2] /\ t = <<s[1], t[2]>>
      BY <2>3, <3>1
    <3>3. pc[<<s[1], t[2]>>] \in {"new", "done", "refused"}
      BY <2>3, <3>1, <3>2 DEF MayStart
    <3> QED
      BY <2>3, <3>2, <3>3 DEF Active
  <2> QED
    BY <2>2, <2>3 DEF OneOfHost
<1> QED
  BY <1>2, <1>4, <1>5 DEF HostInv

\* The party that swaps is the one its token names.
LEMMA HostSwap ==
  ASSUME IInv, HostInv, OneOfHost, NEW p \in Parties, Swap(p)
  PROVE  HostInv' /\ OneOfHost'
<1> USE DEF Goto
<1>0. pc \in [Parties -> {"new", "check", "swap", "mark", "run", "release", "handback",
                         "reset", "clear", "done", "refused"}] /\ pc[p] = "swap"
  BY DEF IInv, TypeOK, Swap
<1>1. HostIsBound' /\ OneOfHost'
  <2>1. \E l \in {"mark", "new"} : pc' = [pc EXCEPT ![p] = l]
    BY DEF Swap
  <2> QED
    BY <1>0, <2>1, SubRunParts DEF HostInv, HostIsBound, OneOfHost, Active
<1>2. CASE owner # loaded[p]
  <2>1. owner' = owner /\ pc' = [pc EXCEPT ![p] = "new"]
    BY <1>2 DEF Swap
  <2>2. TokenIsHeld'
    BY <1>0, <2>1 DEF HostInv, TokenIsHeld, Owns, Bound
  <2> QED
    BY <1>1, <2>2 DEF HostInv
<1>3. CASE owner = loaded[p]
  <2>1. /\ pc' = [pc EXCEPT ![p] = "mark"]
        /\ owner' = [token |-> Identity(p), sub |-> p \in Hosts, by |-> p, back |-> FALSE]
    BY <1>3 DEF Swap, Taken
  <2>2. pc'[p] = "mark" /\ owner'.token = Identity(p)
    BY <1>0, <2>1
  <2>3. TokenIsHeld'
    BY <2>2, Tokens DEF TokenIsHeld, Owns, Bound
  <2> QED
    BY <1>1, <2>3 DEF HostInv
<1> QED
  BY <1>2, <1>3

\* A run of a host hands back to its host, another run to nobody.
LEMMA HostHandBack ==
  ASSUME IInv, HostInv, OneOfHost, NEW p \in Parties, HandBack(p)
  PROVE  HostInv' /\ OneOfHost'
<1> USE DEF Goto
<1>0. /\ pc \in [Parties -> {"new", "check", "swap", "mark", "run", "release", "handback",
                             "reset", "clear", "done", "refused"}]
      /\ pc[p] = "handback" /\ p \in Takers /\ p \notin Hosts
  BY DistinctParties DEF IInv, TypeOK, HandBack, Loaded
<1>a. /\ \E l \in {"run", "reset"} : pc' = [pc EXCEPT ![p] = l]
      /\ \A q \in Parties : (q \in Hosts => pc'[q] = pc[q])
  BY <1>0 DEF HandBack
<1>b. HostIsBound' /\ OneOfHost'
  BY <1>0, <1>a, SubRunParts DEF HostInv, HostIsBound, OneOfHost, Active
<1>1. CASE owner # loaded[p]
  <2>1. owner' = owner /\ pc' = [pc EXCEPT ![p] = "run"]
    BY <1>1 DEF HandBack
  <2>2. TokenIsHeld'
    BY <1>0, <1>a, <2>1 DEF HostInv, TokenIsHeld, Owns, Bound
  <2> QED
    BY <1>b, <2>2 DEF HostInv
<1>2. CASE owner = loaded[p]
  <2>1. pc' = [pc EXCEPT ![p] = "reset"]
        /\ owner' = IF Signoff(p) = None THEN None
                    ELSE [token |-> Signoff(p), sub |-> owner.sub, by |-> p, back |-> TRUE]
    BY <1>2 DEF HandBack
  <2>2. owner # None /\ owner.token = p
    BY <1>0, Tokens DEF IInv, OwnersAreOwner, Owns, TokenOfTaker
  <2>3. CASE p \in SubRuns
    <3>1. owner'.token = Identity(p[1]) /\ p[1] \in Hosts
      BY <2>1, <2>3, SubRunParts, Tokens
    <3>2. pc'[p[1]] = "run"
      BY <1>0, <1>a, <2>3, <3>1 DEF HostInv, HostIsBound
    <3>3. TokenIsHeld'
      BY <3>1, <3>2, Tokens DEF TokenIsHeld, Bound
    <3> QED
      BY <1>b, <3>3 DEF HostInv
  <2>4. CASE p \in Runs
    <3>1. owner' = None
      BY <2>1, <2>4, Tokens
    <3> QED
      BY <1>b, <3>1 DEF HostInv, TokenIsHeld
  <2> QED
    BY <1>0, <2>3, <2>4
<1> QED
  BY <1>1, <1>2

\* Every step keeps what is known of the hosts.
LEMMA HostStep ==
  ASSUME IInv, HostInv, OneOfHost, [Next]_vars
  PROVE  HostInv' /\ OneOfHost'
<1>1. CASE UNCHANGED vars
  BY <1>1 DEF vars, HostInv, TokenIsHeld, HostIsBound, OneOfHost, Owns, Bound, Active
<1> QED
  BY <1>1, HostAside, HostSwap, HostHandBack DEF Next, Step, Aside

\* A host that is bound stays so: where there is one parent now, there was one before.
LEMMA ParentForGood ==
  ASSUME IInv, NEW p \in Parties, Step(p), OneParent'
  PROVE  OneParent
<1>1. pc \in [Parties -> {"new", "check", "swap", "mark", "run", "release", "handback",
                         "reset", "clear", "done", "refused"}]
  BY DEF IInv, TypeOK
<1>2. /\ \A h \in Parties : h # p => pc'[h] = pc[h]
      /\ Bound(p) /\ p \in Hosts => Bound(p)'
  <2>1. CASE Load(p)
    BY <1>1, <2>1 DEF Load, Goto, Bound
  <2>2. CASE CheckReset(p) \/ Swap(p) \/ Mark(p) \/ Execute(p)
    BY <1>1, <2>2 DEF CheckReset, Swap, Mark, Execute, Goto, Bound
  <2>3. CASE Release(p)
    BY <1>1, <2>3, ReleaseHandsBack, DistinctParties DEF Bound
  <2>4. CASE HandBack(p) \/ Reset(p) \/ ClearNeedsReset(p)
    BY <1>1, <2>4 DEF HandBack, Reset, ClearNeedsReset, Goto, Bound
  <2> QED
    BY <2>1, <2>2, <2>3, <2>4 DEF Step
<1>3. ASSUME NEW h \in Hosts, Bound(h) PROVE Bound(h)'
  BY <1>2, <1>3 DEF Bound
<1> QED
  BY <1>3 DEF OneParent

-----------------------------------------------------------------------------
(* A run starts on clean executors                                         *)

\* Past its hand-back, with the reset before it.
Resetting(p) == pc[p] \in {"reset", "clear"}

\* Who saw no owner and was not overtaken can still swap into a clean workflow.
WaitersAreRight ==
  \A p \in Waiting \ raced :
    owner = None /\ (pc[p] = "swap" => ~needsReset)

\* A workflow that nobody owns and that is not due for a reset is clean.
NobodyLeft ==
  owner = None /\ ~needsReset => dirty = {}

\* Nobody else owns the workflow while a run resets it.
ResetAlone ==
  \A p, q \in Takers : Resetting(p) /\ (Resetting(q) \/ Owns(q)) => p = q

\* A reset is due from the mark of a run to the end of its own.
ResetDue ==
  \A p \in Takers : pc[p] \in {"run", "handback", "reset", "clear"} => needsReset

\* Where resets are possible, what is in the executors is of runs that go on.
DirtyAtWork ==
  canReset => \A p \in dirty : pc[p] \in {"run", "handback", "reset"}

\* Who clears the flag has reset the executors; hosts never reset.
ResetterCan ==
  /\ \A p \in Parties : pc[p] = "clear" => canReset
  /\ \A h \in Hosts : ~Resetting(h)

\* A run on its own finds nothing of others.
RunsAlone ==
  \A p \in Runs : Owns(p) => dirty \subseteq {p}

\* No run is still resetting a workflow that is bound.
BoundNoReset == \A h \in Hosts, p \in Runs : Bound(h) => ~Resetting(p)

\* What holds as long as nobody was overtaken between look and swap, and no second
\* parent let in.
RightInv == WaitersAreRight /\ NobodyLeft /\ ResetAlone /\ ResetDue /\ RunsAlone /\ BoundNoReset

\* The program counters, as far as proofs need them.
Labels == {"new", "check", "swap", "mark", "run", "release", "handback",
           "reset", "clear", "done", "refused"}

\* Who was overtaken and went on stays beyond the swap.
LEMMA RacedForGood ==
  ASSUME IInv, NEW p \in Parties, Step(p), Unraced'
  PROVE  Unraced
<1>0. pc \in [Parties -> Labels] /\ raced \subseteq Parties
  BY DEF IInv, TypeOK, Labels
<1> SUFFICES ASSUME NEW q \in raced, pc[q] \notin {"new", "check", "swap", "refused"} PROVE FALSE
  BY DEF Unraced
<1>1. q \in raced'
  BY DEF Step, Load, CheckReset, Swap, Mark, Execute, Release, HandBack, Reset, ClearNeedsReset
<1>2. pc'[q] \notin {"new", "check", "swap", "refused"}
  <2>1. CASE Release(p)
    BY <1>0, <2>1, ReleaseHandsBack
  <2>2. CASE ~Release(p)
    BY <1>0, <2>2 DEF Step, Load, CheckReset, Swap, Mark, Execute, HandBack, Reset, ClearNeedsReset,
       Goto
  <2> QED
    BY <2>1, <2>2
<1> QED
  BY <1>1, <1>2 DEF Unraced

\* Who owns the workflow, or is bound to it, is where the owner is.
LEMMA OwnerIsThere ==
  ASSUME IInv
  PROVE  /\ \A p, q \in Takers : Owns(p) /\ Owns(q) => p = q
         /\ \A p \in Takers : Owns(p) => owner # None
         /\ \A h \in Hosts : Bound(h) => owner # None
         /\ \A h \in Hosts, p \in Runs : Bound(h) => ~Owns(p)
BY Tokens DEF IInv, OwnersAreOwner, BoundHasOwner, TokenOfTaker

\* The unconditional part: what is dirty is at work, where resets are possible.
LEMMA WorkStep ==
  ASSUME IInv, DirtyAtWork, ResetterCan, NEW p \in Parties, Step(p)
  PROVE  DirtyAtWork' /\ ResetterCan'
<1>0. pc \in [Parties -> Labels] /\ dirty \subseteq Takers
      /\ (pc[p] = "handback" => p \notin Hosts)
  BY DistinctParties DEF IInv, TypeOK, Labels, Loaded
<1> USE DEF Goto, DirtyAtWork, ResetterCan, Resetting
<1>1. CASE Load(p) \/ CheckReset(p) \/ Swap(p) \/ Mark(p)
  BY <1>0, <1>1 DEF Load, CheckReset, Swap, Mark
<1>2. CASE Execute(p)
  BY <1>0, <1>2 DEF Execute
<1>3. CASE Release(p)
  <2>1. /\ pc[p] = "run" /\ pc' = [pc EXCEPT ![p] = "handback"] /\ UNCHANGED <<canReset, dirty>>
    BY <1>3, ReleaseHandsBack DEF Release
  <2> QED
    BY <1>0, <2>1
<1>4. CASE HandBack(p)
  BY <1>0, <1>4 DEF HandBack
<1>5. CASE Reset(p)
  BY <1>0, <1>5 DEF Reset
<1>6. CASE ClearNeedsReset(p)
  BY <1>0, <1>6 DEF ClearNeedsReset
<1> QED
  BY <1>1, <1>2, <1>3, <1>4, <1>5, <1>6 DEF Step

\* Who swaps without having been overtaken finds nobody resetting, and a run and a host
\* find the executors clean.
LEMMA SwapIntoClean ==
  ASSUME IInv, HostInv, OneOfHost, RightInv, Unraced', OneParent',
         NEW p \in Parties, Swap(p), owner = loaded[p]
  PROVE  /\ \A q \in Takers : ~Resetting(q)
         /\ p \notin SubRuns => dirty = {}
<1>0. /\ pc \in [Parties -> Labels] /\ pc[p] = "swap" /\ pc' = [pc EXCEPT ![p] = "mark"]
      /\ raced \subseteq raced'
  BY DEF IInv, TypeOK, Labels, Swap, Goto
<1>1. CASE p \in SubRuns
  <2>1. pc[p[1]] = "run" /\ p[1] \in Hosts /\ Bound(p[1])
    BY <1>0, <1>1, SubRunParts DEF HostInv, HostIsBound, Bound
  <2>2. \A q \in Runs : ~Resetting(q)
    BY <2>1 DEF RightInv, BoundNoReset
  <2>3. ASSUME NEW q \in SubRuns, Resetting(q) PROVE FALSE
    <3>1. pc[q[1]] = "run" /\ q[1] \in Hosts /\ Bound(q[1])
      BY <2>3, SubRunParts DEF HostInv, HostIsBound, Bound, Resetting
    <3>2. q[1] = p[1]
      BY <2>1, <3>1, ParentForGood DEF Step, OneParent
    <3>3. p = q
      BY <1>0, <1>1, <2>3, <3>2 DEF OneOfHost, Active, Resetting
    <3> QED
      BY <1>0, <2>3, <3>3 DEF Resetting
  <2> QED
    BY <1>1, <2>2, <2>3
<1>2. CASE p \notin SubRuns
  <2>1. Signoff(p) = None /\ (p \in Runs => Identity(p) = p)
    BY <1>2, Tokens
  <2>2. owner = None
    <3> SUFFICES ASSUME owner # None PROVE FALSE
      OBVIOUS
    <3>1. owner.token \in {None, Identity(p)} /\ owner.token \in Identities
      BY <1>0, <2>1, OwnerFields DEF IInv, Loaded, Accepts
    <3>2. owner.token = Identity(p)
      BY <3>1, Tokens
    <3>3. CASE p \in Runs
      BY <1>0, <2>1, <3>2, <3>3 DEF HostInv, TokenIsHeld, Owns
    <3>4. CASE p \in Hosts
      <4>1. PICK h \in Hosts : Bound(h)
        BY <3>2, <3>4, Tokens DEF HostInv, TokenIsHeld
      <4>2. h # p /\ Bound(h)' /\ Bound(p)'
        BY <1>0, <4>1 DEF Bound
      <4> QED
        BY <3>4, <4>2 DEF OneParent
    <3> QED
      BY <1>2, <3>3, <3>4
  <2>3. p \in Waiting \ raced
    BY <1>0, <2>2 DEF Waiting, Unraced
  <2>4. ~needsReset
    BY <1>0, <2>3 DEF RightInv, WaitersAreRight
  <2> QED
    BY <2>2, <2>4 DEF RightInv, NobodyLeft, ResetDue, Resetting
<1> QED
  BY <1>1, <1>2

\* A swap.
LEMMA RightSwap ==
  ASSUME IInv, HostInv, OneOfHost, RightInv, ResetterCan, Unraced', OneParent',
         NEW p \in Parties, Swap(p)
  PROVE  RightInv'
<1>0. /\ pc \in [Parties -> Labels] /\ pc[p] = "swap" /\ raced \subseteq Parties
      /\ UNCHANGED <<canReset, needsReset, loaded, dirty>>
  BY DEF IInv, TypeOK, Labels, Swap
<1>1. CASE owner # loaded[p]
  <2>1. owner' = owner /\ pc' = [pc EXCEPT ![p] = "new"] /\ raced' = raced \ {p}
    BY <1>1 DEF Swap, Goto
  <2>2. Waiting' \ raced' \subseteq Waiting \ raced
    BY <1>0, <2>1 DEF Waiting
  <2>3. WaitersAreRight'
    BY <1>0, <2>1, <2>2 DEF RightInv, WaitersAreRight, Waiting
  <2>4. NobodyLeft' /\ ResetAlone' /\ ResetDue' /\ RunsAlone' /\ BoundNoReset'
    BY <1>0, <2>1 DEF RightInv, NobodyLeft, ResetAlone, ResetDue, RunsAlone, BoundNoReset, Owns, Bound,
       Resetting
  <2> QED
    BY <2>3, <2>4 DEF RightInv
<1>2. CASE owner = loaded[p]
  <2>1. owner' = Taken(p) /\ pc' = [pc EXCEPT ![p] = "mark"] /\ raced' = raced \cup (Waiting \ {p})
    BY <1>2 DEF Swap, Goto
  <2>2. (\A q \in Takers : ~Resetting(q)) /\ (p \notin SubRuns => dirty = {})
    BY <1>2, SwapIntoClean
  <2>3. \A q \in Takers : ~Resetting(q)'
    BY <1>0, <2>1, <2>2 DEF Resetting
  <2>4. Waiting' \ raced' = {}
    BY <1>0, <2>1 DEF Waiting
  <2>5. owner' # None
    <3>1. Taken(p) \in WorkflowOwner
      BY Tokens DEF Taken, WorkflowOwner
    <3> QED
      BY <2>1, <3>1, NilIsNoOwner
  <2>6. WaitersAreRight' /\ NobodyLeft' /\ ResetAlone' /\ BoundNoReset'
    BY <2>3, <2>4, <2>5 DEF WaitersAreRight, NobodyLeft, ResetAlone, BoundNoReset
  <2>7. ResetDue'
    BY <1>0, <2>1 DEF RightInv, ResetDue
  <2>8. RunsAlone'
    BY <1>0, <2>1, <2>2, DistinctParties DEF RightInv, RunsAlone, Owns
  <2> QED
    BY <2>6, <2>7, <2>8 DEF RightInv
<1> QED
  BY <1>1, <1>2

\* The looks at the owner and at the flag, and the mark.
LEMMA RightTake ==
  ASSUME IInv, RightInv, HasResettable, NEW p \in Parties, Load(p) \/ CheckReset(p) \/ Mark(p)
  PROVE  RightInv'
<1>0. pc \in [Parties -> Labels] /\ loaded \in [Parties -> Owners] /\ raced \subseteq Parties
      /\ UNCHANGED <<owner, dirty, raced>>
  BY DEF IInv, TypeOK, Labels, Load, CheckReset, Mark
<1> USE DEF Goto
<1>1. CASE Load(p)
  <2>1. /\ pc[p] = "new" /\ loaded' = [loaded EXCEPT ![p] = owner] /\ needsReset' = needsReset
        /\ \E l \in {"check", "swap", "refused"} : pc' = [pc EXCEPT ![p] = l]
        /\ (pc'[p] = "swap" => owner # None)
    BY <1>0, <1>1 DEF Load
  <2>2. WaitersAreRight'
    BY <1>0, <2>1 DEF RightInv, WaitersAreRight, Waiting
  <2>3. NobodyLeft' /\ ResetAlone' /\ ResetDue' /\ RunsAlone' /\ BoundNoReset'
    BY <1>0, <2>1 DEF RightInv, NobodyLeft, ResetAlone, ResetDue, RunsAlone, BoundNoReset, Owns, Bound,
       Resetting
  <2> QED
    BY <2>2, <2>3 DEF RightInv
<1>2. CASE CheckReset(p)
  <2>1. /\ pc[p] = "check" /\ loaded' = loaded /\ needsReset' = needsReset
        /\ \E l \in {"swap", "refused"} : pc' = [pc EXCEPT ![p] = l]
        /\ (pc'[p] = "swap" => ~needsReset)
    BY <1>0, <1>2 DEF CheckReset
  <2>2. WaitersAreRight'
    BY <1>0, <2>1 DEF RightInv, WaitersAreRight, Waiting
  <2>3. NobodyLeft' /\ ResetAlone' /\ ResetDue' /\ RunsAlone' /\ BoundNoReset'
    BY <1>0, <2>1 DEF RightInv, NobodyLeft, ResetAlone, ResetDue, RunsAlone, BoundNoReset, Owns, Bound,
       Resetting
  <2> QED
    BY <2>2, <2>3 DEF RightInv
<1>3. CASE Mark(p)
  <2>1. pc[p] = "mark" /\ loaded' = loaded /\ needsReset' /\ pc' = [pc EXCEPT ![p] = "run"]
    BY <1>3 DEF Mark
  <2>2. owner # None
    BY <2>1, OwnerIsThere DEF Owns, Bound
  <2>3. Waiting' = Waiting
    BY <1>0, <2>1 DEF Waiting
  <2>4. WaitersAreRight'
    BY <1>0, <2>2, <2>3 DEF RightInv, WaitersAreRight
  <2>5. NobodyLeft' /\ ResetAlone' /\ ResetDue' /\ RunsAlone' /\ BoundNoReset'
    BY <1>0, <2>1 DEF RightInv, NobodyLeft, ResetAlone, ResetDue, RunsAlone, BoundNoReset, Owns, Bound,
       Resetting
  <2> QED
    BY <2>4, <2>5 DEF RightInv
<1> QED
  BY <1>1, <1>2, <1>3

\* The run and its end.
LEMMA RightEnd ==
  ASSUME IInv, RightInv, DirtyAtWork, ResetterCan, HasResettable, NEW p \in Parties,
         Execute(p) \/ Release(p) \/ HandBack(p) \/ Reset(p) \/ ClearNeedsReset(p)
  PROVE  RightInv'
<1>0. /\ pc \in [Parties -> Labels] /\ loaded \in [Parties -> Owners] /\ raced \subseteq Parties
      /\ raced' = raced /\ dirty \subseteq Takers
  BY DEF IInv, TypeOK, Labels, Execute, Release, HandBack, Reset, ClearNeedsReset
<1> USE DEF Goto
<1>1. CASE Execute(p)
  <2>1. /\ pc[p] = "run" /\ p \in Takers /\ dirty' = dirty \cup {p}
        /\ UNCHANGED <<owner, needsReset, pc, loaded>>
    BY <1>1 DEF Execute
  <2>2. Owns(p) /\ owner # None
    BY <2>1, OwnerIsThere DEF Owns
  <2>3. RunsAlone'
    BY <1>0, <2>1, <2>2, OwnerIsThere DEF RightInv, RunsAlone, Owns
  <2>4. WaitersAreRight' /\ NobodyLeft' /\ ResetAlone' /\ ResetDue' /\ BoundNoReset'
    BY <1>0, <2>1, <2>2 DEF RightInv, WaitersAreRight, Waiting, NobodyLeft, ResetAlone, ResetDue,
       BoundNoReset, Owns, Bound, Resetting
  <2> QED
    BY <2>3, <2>4 DEF RightInv
<1>2. CASE Release(p)
  <2>1. /\ p \in Takers /\ pc[p] = "run" /\ pc' = [pc EXCEPT ![p] = "handback"]
        /\ loaded' = [loaded EXCEPT ![p] = owner] /\ UNCHANGED <<owner, needsReset, dirty>>
    BY <1>2, ReleaseHandsBack DEF Release
  <2>2. Waiting' = Waiting
    BY <1>0, <2>1 DEF Waiting
  <2>3. WaitersAreRight'
    BY <1>0, <2>1, <2>2 DEF RightInv, WaitersAreRight, Waiting
  <2>4. NobodyLeft' /\ ResetAlone' /\ ResetDue' /\ RunsAlone' /\ BoundNoReset'
    BY <1>0, <2>1, DistinctParties DEF RightInv, NobodyLeft, ResetAlone, ResetDue, RunsAlone,
       BoundNoReset, Owns, Bound, Resetting
  <2> QED
    BY <2>3, <2>4 DEF RightInv
<1>3. CASE HandBack(p)
  <2>1. /\ pc[p] = "handback" /\ p \in Takers /\ UNCHANGED <<needsReset, loaded, dirty>>
        /\ \/ owner' = owner /\ pc' = [pc EXCEPT ![p] = "run"]
           \/ pc' = [pc EXCEPT ![p] = "reset"]
    BY <1>3 DEF HandBack, IInv, Loaded
  <2>2. Owns(p) /\ owner # None /\ needsReset /\ p \notin Hosts
    BY <2>1, OwnerIsThere, DistinctParties DEF Owns, RightInv, ResetDue
  <2>3. Waiting' \ raced' = {}
    BY <1>0, <2>1, <2>2 DEF Waiting, RightInv, WaitersAreRight
  <2>4. WaitersAreRight' /\ NobodyLeft'
    BY <2>1, <2>2, <2>3 DEF WaitersAreRight, NobodyLeft
  <2>5. ResetAlone'
    BY <1>0, <2>1, <2>2, OwnerIsThere DEF RightInv, ResetAlone, Owns, Resetting
  <2>6. ResetDue' /\ RunsAlone'
    BY <1>0, <2>1, <2>2 DEF RightInv, ResetDue, RunsAlone, Owns
  <2>7. BoundNoReset'
    BY <1>0, <2>1, <2>2, OwnerIsThere, DistinctParties DEF RightInv, BoundNoReset, Bound, Resetting
  <2> QED
    BY <2>4, <2>5, <2>6, <2>7 DEF RightInv
<1>4. CASE Reset(p)
  <2>1. /\ pc[p] = "reset" /\ UNCHANGED <<needsReset, loaded, owner>> /\ dirty' \subseteq dirty
        /\ \E l \in {"clear", "done"} : pc' = [pc EXCEPT ![p] = l]
    BY <1>4 DEF Reset
  <2>2. Waiting' = Waiting
    BY <1>0, <2>1 DEF Waiting
  <2>3. WaitersAreRight'
    BY <1>0, <2>1, <2>2 DEF RightInv, WaitersAreRight, Waiting
  <2>4. NobodyLeft' /\ ResetAlone' /\ ResetDue' /\ RunsAlone' /\ BoundNoReset'
    BY <1>0, <2>1 DEF RightInv, NobodyLeft, ResetAlone, ResetDue, RunsAlone, BoundNoReset, Owns, Bound,
       Resetting
  <2> QED
    BY <2>3, <2>4 DEF RightInv
<1>5. CASE ClearNeedsReset(p)
  <2>1. /\ pc[p] = "clear" /\ UNCHANGED <<dirty, loaded, owner>> /\ ~needsReset'
        /\ pc' = [pc EXCEPT ![p] = "done"]
    BY <1>5 DEF ClearNeedsReset
  <2>2. canReset /\ p \in Takers
    BY <2>1 DEF ResetterCan, Resetting
  <2>3. \A q \in Takers : pc[q] \in {"run", "handback", "reset", "clear"} => q = p
    BY <2>1, <2>2 DEF RightInv, ResetAlone, Owns, Resetting
  <2>4. dirty = {}
    BY <1>0, <2>1, <2>2, <2>3 DEF DirtyAtWork
  <2>5. Waiting' = Waiting
    BY <1>0, <2>1 DEF Waiting
  <2>6. WaitersAreRight'
    BY <1>0, <2>1, <2>5 DEF RightInv, WaitersAreRight, Waiting
  <2>7. ResetDue'
    BY <1>0, <2>1, <2>3 DEF ResetDue
  <2>8. NobodyLeft' /\ RunsAlone'
    BY <2>1, <2>4 DEF NobodyLeft, RunsAlone
  <2>9. ResetAlone' /\ BoundNoReset'
    BY <1>0, <2>1, <2>2, DistinctParties DEF RightInv, ResetAlone, BoundNoReset, Owns, Bound, Resetting
  <2> QED
    BY <2>6, <2>7, <2>8, <2>9 DEF RightInv
<1> QED
  BY <1>1, <1>2, <1>3, <1>4, <1>5

\* The invariant of the executors.
CleanInv == HostInv /\ OneOfHost /\ DirtyAtWork /\ ResetterCan /\ (HasResettable /\ Unraced /\ OneParent => RightInv)

\* Every step keeps the executors clean.
LEMMA CleanStep == IInv /\ CleanInv /\ [Next]_vars => CleanInv'
<1> SUFFICES ASSUME IInv, CleanInv, [Next]_vars PROVE CleanInv'
  OBVIOUS
<1>1. HostInv' /\ OneOfHost'
  BY HostStep DEF CleanInv
<1>2. CASE UNCHANGED vars
  <2>1. DirtyAtWork' /\ ResetterCan' /\ (Unraced' => Unraced) /\ (OneParent' => OneParent)
    BY <1>2 DEF vars, CleanInv, DirtyAtWork, ResetterCan, Resetting, Unraced, OneParent, Bound
  <2>2. RightInv => RightInv'
    BY <1>2 DEF vars, RightInv, WaitersAreRight, Waiting, NobodyLeft, ResetAlone, ResetDue, RunsAlone,
       BoundNoReset, Owns, Bound, Resetting
  <2> QED
    BY <1>1, <2>1, <2>2 DEF CleanInv
<1>3. ASSUME NEW p \in Parties, Step(p) PROVE CleanInv'
  <2>1. DirtyAtWork' /\ ResetterCan'
    BY <1>3, WorkStep DEF CleanInv
  <2>2. ASSUME HasResettable, Unraced', OneParent' PROVE RightInv'
    <3>1. RightInv
      BY <1>3, <2>2, RacedForGood, ParentForGood DEF CleanInv
    <3> QED
      BY <1>3, <2>2, <3>1, RightSwap, RightTake, RightEnd DEF Step, CleanInv
  <2> QED
    BY <1>1, <2>1, <2>2 DEF CleanInv
<1> QED
  BY <1>2, <1>3 DEF Next

\* They are clean at first.
LEMMA CleanInit == Init => DirtyAtWork /\ ResetterCan /\ RightInv
BY DEF Init, DirtyAtWork, ResetterCan, RightInv, WaitersAreRight, Waiting, NobodyLeft, ResetAlone,
   ResetDue, RunsAlone, BoundNoReset, Owns, Bound, Resetting

\* A run finds nothing of an earlier run in the executors it shares and they are not
\* reset under it, unless somebody was overtaken between its look at the owner and its
\* swap by another's whole run, or a second parent was let in (TakeOwnership,
\* ReleaseOwnershipTo, TryReset).
THEOREM RunsStartClean == Spec => []CleanUnlessRaced
<1>1. IInv /\ CleanInv => CleanUnlessRaced
  <2> SUFFICES ASSUME IInv, CleanInv, HasResettable, Unraced, OneParent, NEW p \in Takers, Owns(p),
                      ~(p \in SubRuns /\ ~canReset), NEW d \in dirty
               PROVE  d = p
    BY DEF CleanUnlessRaced
  <2>1. RightInv /\ d \in Takers
    BY DEF CleanInv, IInv, TypeOK
  <2>2. CASE p \in Runs
    BY <2>1, <2>2 DEF RightInv, RunsAlone
  <2>3. CASE canReset
    <3>1. Owns(d) \/ Resetting(d)
      BY <2>3 DEF CleanInv, DirtyAtWork, Owns, Resetting
    <3> QED
      BY <2>1, <3>1, OwnerIsThere DEF RightInv, ResetAlone
  <2> QED
    BY <2>2, <2>3
<1>2. Init => CleanInv
  BY HostInit, CleanInit DEF CleanInv
<1>3. IInv /\ CleanInv /\ [Next]_vars => CleanInv'
  BY CleanStep
<1> QED
  BY <1>1, <1>2, <1>3, Invariance, PTL DEF Spec
=============================================================================
