--------------------------- MODULE WorkflowOwnership ---------------------------
(***************************************************************************)
(* Who may run a workflow (workflow/workflow.go TakeOwnership,             *)
(* ReleaseOwnershipTo, TryReset; called by workflow/inproc/context.go and  *)
(* subworkflow.go). A workflow value is shared by goroutines: top-level    *)
(* runs take it, hosts bind it as a subworkflow for good, and the runs of  *)
(* a host take it over from its host and hand it back. The owner is an     *)
(* atomic pointer changed by compare-and-swap, needsReset is an atomic     *)
(* flag of its own, and the executors the workflow shares between runs are *)
(* reset after the owner has let go.                                       *)
(***************************************************************************)
EXTENDS FiniteSets, Integers

CONSTANTS Runs,          \* top-level runs (not concurrent ones, which take nothing)
          Hosts,         \* bindings of the workflow as a subworkflow
          Children,      \* names of the runs a host makes
          None,          \* no owner, no token
          OneIdentity,   \* tokens of hosts are pointers to zero-size variables:
                         \* TRUE if the build gives all of them one address,
          Address,       \* which is this
          HasResettable  \* some executor has a ResetFunc

SubRuns == Hosts \X Children
Takers  == Runs \cup SubRuns
Parties == Takers \cup Hosts

ASSUME DistinctParties ==
  /\ Runs \cap Hosts = {} /\ Runs \cap SubRuns = {} /\ Hosts \cap SubRuns = {}
  /\ {None, Address} \cap Parties = {}
  /\ None # Address
ASSUME Switches ==
  /\ {OneIdentity, HasResettable} \subseteq BOOLEAN

\* What tells one token from another (ownershipTokenIdentity).
Identity(p) == IF p \in Hosts /\ OneIdentity THEN Address ELSE p
Identities  == {Identity(p) : p \in Parties}

WorkflowOwner == [token : Identities, sub : BOOLEAN, by : Parties, back : BOOLEAN]

ASSUME NilIsNoOwner == None \notin WorkflowOwner

\* The token a party shows to take over from (existingOwnerSignoff).
Signoff(p) == IF p \in SubRuns THEN Identity(p[1]) ELSE None

VARIABLES
  owner,      \* ownerToken: [token, sub, by, back], or None; a party allocates
              \* one workflowOwner when it takes and one when it hands back
  needsReset,
  pc,         \* where a party is
  loaded,     \* the owner it loaded
  canReset,   \* every shared executor has one, and it succeeds; never changes
  dirty,      \* parties whose work is in the shared executors
  raced       \* history: somebody else took the workflow since they saw no owner

vars == <<owner, needsReset, pc, loaded, canReset, dirty, raced>>

Owners == WorkflowOwner \cup {None}

TypeOK ==
  /\ owner \in Owners
  /\ needsReset \in BOOLEAN
  /\ pc \in [Parties -> {"new", "check", "swap", "mark", "run", "release", "handback",
                         "reset", "clear", "done", "refused"}]
  /\ loaded \in [Parties -> Owners]
  /\ canReset \in BOOLEAN
  /\ dirty \in SUBSET Takers
  /\ raced \in SUBSET Parties

Init ==
  /\ owner = None
  /\ needsReset = FALSE
  /\ pc = [p \in Parties |-> "new"]
  /\ loaded = [p \in Parties |-> None]
  /\ canReset \in {HasResettable, FALSE}
  /\ dirty = {}
  /\ raced = {}

Goto(p, l) == pc' = [pc EXCEPT ![p] = l]

-----------------------------------------------------------------------------
(* TakeOwnership                                                           *)

\* A host has one run at a time, after it is bound: its executor makes the
\* next when it has closed the last, and its parent is owned by one run.
MayStart(p) ==
  p \in SubRuns =>
    /\ pc[p[1]] = "run"
    /\ \A n \in Children : pc[<<p[1], n>>] \in {"new", "done", "refused"} \/ n = p[2]

\* Mutant: no owner, or a host, lets anybody take over.
AcceptsOfHost(o, p) == o.token \in {Signoff(p), Identity(p)} \cup {Identity(h) : h \in Hosts}

\* The owner is somebody who lets p take over, or p itself.
Accepts(o, p) == o.token \in {Signoff(p), Identity(p)}

Load(p) ==
  /\ pc[p] = "new" /\ MayStart(p)
  /\ loaded' = [loaded EXCEPT ![p] = owner]
  /\ Goto(p, CASE owner = None /\ Signoff(p) = None -> "check"
               [] owner # None /\ Accepts(owner, p) -> "swap"
               [] OTHER -> "refused")
  /\ UNCHANGED <<canReset, owner, needsReset, dirty, raced>>

\* Mutant: an unowned workflow is taken as it is.
CheckNothing(p) ==
  /\ pc[p] = "check"
  /\ Goto(p, "swap")
  /\ UNCHANGED <<canReset, owner, needsReset, loaded, dirty, raced>>

CheckReset(p) ==
  /\ pc[p] = "check"
  /\ Goto(p, IF needsReset THEN "refused" ELSE "swap")
  /\ UNCHANGED <<canReset, owner, needsReset, loaded, dirty, raced>>

\* Parties that have seen no owner and have not swapped yet.
Waiting == {p \in Parties : pc[p] \in {"check", "swap"} /\ loaded[p] = None}

Taken(p) == [token |-> Identity(p), sub |-> p \in Hosts, by |-> p, back |-> FALSE]

\* Mutant: the pointer is stored, not compared and swapped.
StoreOwner(p) ==
  /\ pc[p] = "swap"
  /\ owner' = Taken(p)
  /\ Goto(p, "mark")
  /\ raced' = raced \cup (Waiting \ {p})
  /\ UNCHANGED <<canReset, needsReset, loaded, dirty>>

\* CompareAndSwap, or another turn of the loop.
Swap(p) ==
  /\ pc[p] = "swap"
  /\ IF owner = loaded[p]
       THEN owner' = Taken(p) /\ Goto(p, "mark") /\ raced' = raced \cup (Waiting \ {p})
       ELSE owner' = owner /\ Goto(p, "new") /\ raced' = raced \ {p}
  /\ UNCHANGED <<canReset, needsReset, loaded, dirty>>

Mark(p) ==
  /\ pc[p] = "mark"
  /\ needsReset' = HasResettable
  /\ Goto(p, "run")
  /\ UNCHANGED <<canReset, owner, loaded, dirty, raced>>

-----------------------------------------------------------------------------
(* The run, and ReleaseOwnershipTo                                         *)

\* The executors of the run change what they share with other runs.
Execute(p) ==
  /\ pc[p] = "run" /\ p \in Takers
  /\ dirty' = dirty \cup {p}
  /\ UNCHANGED <<canReset, owner, needsReset, pc, loaded, raced>>

\* endRun; a host is never unbound.
Release(p) ==
  /\ pc[p] = "run" /\ p \in Takers
  /\ loaded' = [loaded EXCEPT ![p] = owner]
  /\ Goto(p, IF owner # None /\ owner.token = Identity(p) THEN "handback" ELSE "refused")
  /\ UNCHANGED <<canReset, owner, needsReset, dirty, raced>>

HandBack(p) ==
  /\ pc[p] = "handback"
  /\ IF owner = loaded[p]
       THEN /\ owner' = IF Signoff(p) = None THEN None
                        ELSE [token |-> Signoff(p), sub |-> owner.sub, by |-> p, back |-> TRUE]
            /\ Goto(p, "reset")
       ELSE owner' = owner /\ Goto(p, "run")
  /\ UNCHANGED <<canReset, needsReset, loaded, dirty, raced>>

\* TryReset: executors are reset until one cannot be.
Reset(p) ==
  /\ pc[p] = "reset"
  /\ IF canReset
       THEN dirty' = {} /\ Goto(p, "clear")
       ELSE dirty' = dirty /\ Goto(p, "done")
  /\ UNCHANGED <<canReset, owner, needsReset, loaded, raced>>

ClearNeedsReset(p) ==
  /\ pc[p] = "clear"
  /\ needsReset' = FALSE
  /\ Goto(p, "done")
  /\ UNCHANGED <<canReset, owner, loaded, dirty, raced>>

-----------------------------------------------------------------------------

Step(p) ==
  \/ Load(p) \/ CheckReset(p) \/ Swap(p) \/ Mark(p)
  \/ Execute(p)
  \/ Release(p) \/ HandBack(p) \/ Reset(p) \/ ClearNeedsReset(p)

Next == \E p \in Parties : Step(p)

Spec == Init /\ [][Next]_vars

-----------------------------------------------------------------------------
(* Properties                                                              *)

\* From its swap to the swap that hands the workflow back.
Owns(p) == pc[p] \in {"mark", "run", "handback"}
Bound(h) == pc[h] \in {"mark", "run"}

\* At most one run has the workflow at a time, although the check of the owner
\* and the swap are two steps and pointers are handed from run to host and back.
OneRun == \A p, q \in Takers : Owns(p) /\ Owns(q) => p = q

\* A workflow bound as a subworkflow is not run by anybody but its hosts.
BoundIsNotRun == \A h \in Hosts, p \in Runs : ~(Bound(h) /\ Owns(p))

\* "cannot use a Workflow as a subworkflow of multiple parent workflows"
\* (TakeOwnership): one binding per workflow. It fails where hosts share an
\* address, as those of BindSubworkflowAsExecutor do.
OneParent == \A g, h \in Hosts : Bound(g) /\ Bound(h) => g = h

\* No swap of a run that saw no owner came after another's whole run.
Unraced == \A p \in raced : pc[p] \in {"new", "check", "swap", "refused"}

\* A run's shared executors hold nothing of an earlier run and are not reset
\* under it, although owner and needsReset are two words and the reset comes
\* after the owner is gone. It takes that nobody stalls between looking at the
\* owner and swapping it while a whole run comes and goes, and that there is one
\* parent: the run of a second may begin before that of the first is reset. And
\* the runs of a host, which never meet an unowned workflow, go on where no
\* reset is possible.
CleanUnlessRaced ==
  HasResettable /\ Unraced /\ OneParent =>
    \A p \in Takers :
      Owns(p) => dirty \subseteq {p} \/ (p \in SubRuns /\ ~canReset)
=============================================================================
