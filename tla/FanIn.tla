--------------------------------- MODULE FanIn ---------------------------------
(***************************************************************************)
(* A fan-in barrier edge (workflow/internal/execution/edgerunner.go) while  *)
(* its sources run concurrently: it buffers what they send until each of    *)
(* them has sent something, then releases the whole buffer to the target,   *)
(* and its buffer is part of every checkpoint. A handler sends one message  *)
(* after the other; processMessage is atomic (statefulEdgeState.mu), what a *)
(* sender does with the released batch afterwards is not. Messages that the *)
(* condition, the target id or the types of the edge keep out are left out. *)
(* After a failed superstep only a restore follows: that a consumer in       *)
(* lockstep may go on without what the failure lost is a matter of Runner.   *)
(***************************************************************************)
EXTENDS Sequences, Functions, FiniteSets, Integers

CONSTANTS Sources,     \* SourceIDs of the edge, executors of the workflow
          MaxSends,    \* bound: messages of a source
          MaxSaved,    \* bound: checkpoints
          MaxFailures  \* bound: targets that cannot be resolved, and restores

ASSUME FanInAssumption ==
  /\ IsFiniteSet(Sources) /\ Sources # {}
  /\ {MaxSends, MaxSaved, MaxFailures} \subseteq Nat

\* A message: its source, and its number among those of the source.
Messages == Sources \X (Nat \ {0})

VARIABLES
  pending,    \* pendingMessages: the buffer
  unseen,     \* unseen: sources the barrier still waits for
  batch,      \* source -> the batch its send has released and not yet mapped
  nextStep,   \* the target's queue of the next superstep
  handled,    \* the target's log of what it was delivered
  sent,       \* source -> messages sent; the source's own state
  step,       \* "running", "ended", "failed"
  saved,      \* checkpoints of the run
  failures    \* counter for the bound

edgeVars == <<pending, unseen>>
runVars  == <<batch, nextStep, handled, sent>>
vars == <<edgeVars, runVars, step, saved, failures>>

\* newStatefulEdgeState
Init ==
  /\ pending = <<>>
  /\ unseen = Sources
  /\ batch = [s \in Sources |-> <<>>]
  /\ nextStep = <<>>
  /\ handled = <<>>
  /\ sent = [s \in Sources |-> 0]
  /\ step = "ended"
  /\ saved = <<>>
  /\ failures = 0

\* A superstep starts: the target is delivered its messages, the sources theirs.
Begin ==
  /\ step = "ended"
  /\ step' = "running"
  /\ handled' = handled \o nextStep
  /\ nextStep' = <<>>
  /\ UNCHANGED <<edgeVars, batch, sent, saved, failures>>

\* The handler of a source is not inside a send.
Sending(s) == step = "running" /\ batch[s] = <<>>

\* Mutant: the buffer is handed over and kept.
ProcessMessageKeeps(s, m) ==
  IF unseen \subseteq {s}
    THEN /\ batch' = [batch EXCEPT ![s] = Append(pending, m)]
         /\ pending' = Append(pending, m)
         /\ unseen' = Sources
    ELSE /\ pending' = Append(pending, m)
         /\ unseen' = unseen \ {s}
         /\ UNCHANGED batch

\* processMessage: the message of the last source that was waited for takes
\* the buffer with it, and the barrier waits for all of them again.
ProcessMessage(s, m) ==
  IF unseen \subseteq {s}
    THEN /\ batch' = [batch EXCEPT ![s] = Append(pending, m)]
         /\ pending' = <<>>
         /\ unseen' = Sources
    ELSE /\ pending' = Append(pending, m)
         /\ unseen' = unseen \ {s}
         /\ UNCHANGED batch

\* SendMessage, up to the edge.
Send(s) ==
  /\ Sending(s)
  /\ sent[s] < MaxSends
  /\ sent' = [sent EXCEPT ![s] = @ + 1]
  /\ ProcessMessage(s, <<s, sent[s] + 1>>)
  /\ UNCHANGED <<nextStep, handled, step, saved, failures>>

\* The target is resolved and the batch mapped into its queue.
MapInto(s) ==
  /\ step = "running" /\ batch[s] # <<>>
  /\ nextStep' = nextStep \o batch[s]
  /\ batch' = [batch EXCEPT ![s] = <<>>]
  /\ UNCHANGED <<edgeVars, handled, sent, step, saved, failures>>

\* The target cannot be created: the send fails, and with it the handler and
\* the superstep, when the other handlers are through; the batch is gone.
MapFails(s) ==
  /\ batch[s] # <<>>
  /\ step = "running" /\ \A t \in Sources \ {s} : batch[t] = <<>>
  /\ failures < MaxFailures
  /\ failures' = failures + 1
  /\ batch' = [batch EXCEPT ![s] = <<>>]
  /\ step' = "failed"
  /\ UNCHANGED <<edgeVars, nextStep, handled, sent, saved>>

\* ExportState, with the rest of the run: the buffer is cloned.
Exported ==
  [pending |-> pending, unseen |-> unseen, nextStep |-> nextStep,
   handled |-> handled, sent |-> sent]

\* The superstep ends with a checkpoint.
Checkpoint ==
  /\ step = "running"
  /\ \A s \in Sources : batch[s] = <<>>
  /\ step' = "ended"
  /\ saved' = IF Len(saved) < MaxSaved THEN Append(saved, Exported) ELSE saved
  /\ UNCHANGED <<edgeVars, runVars, failures>>

\* Mutant: an imported barrier waits for all sources again.
ImportStateResets(c) ==
  /\ pending' = c.pending
  /\ unseen' = Sources

\* ImportState replaces the buffer by a clone of the checkpoint's.
ImportState(c) ==
  /\ pending' = c.pending
  /\ unseen' = c.unseen

\* Between supersteps, after a failed one or by a process that starts anew, the
\* run becomes what a checkpoint says.
Restore(c) ==
  /\ step # "running"
  /\ failures < MaxFailures
  /\ failures' = failures + 1
  /\ ImportState(c)
  /\ nextStep' = c.nextStep
  /\ handled' = c.handled
  /\ sent' = c.sent
  /\ step' = "ended"
  /\ UNCHANGED <<batch, saved>>

Next ==
  \/ Begin
  \/ \E s \in Sources : Send(s) \/ MapInto(s) \/ MapFails(s)
  \/ Checkpoint
  \/ \E k \in 1..Len(saved) : Restore(saved[k])

Spec == Init /\ [][Next]_vars

-----------------------------------------------------------------------------
(* Properties                                                              *)

From(messages) == {messages[k][1] : k \in DOMAIN messages}

Checkpoints == [pending : Seq(Messages), unseen : SUBSET Sources, nextStep : Seq(Messages),
                handled : Seq(Messages), sent : [Sources -> Nat]]

TypeOK ==
  /\ pending \in Seq(Messages)
  /\ unseen \in SUBSET Sources
  /\ batch \in [Sources -> Seq(Messages)]
  /\ nextStep \in Seq(Messages)
  /\ handled \in Seq(Messages)
  /\ sent \in [Sources -> Nat]
  /\ step \in {"running", "ended", "failed"}
  /\ saved \in Seq(Checkpoints)
  /\ failures \in Nat

\* The target is never handed a part of a round: a released batch has a message
\* of every source, and a buffer that has one of every source is not kept back,
\* whatever was buffered when the checkpoint that the run stands on was taken
\* (processMessage, ImportState).
RoundIsComplete ==
  /\ \A s \in Sources : batch[s] # <<>> => From(batch[s]) = Sources
  /\ From(pending) = Sources \ unseen
  /\ unseen # {}

\* Rounds reach the target's queue in the order they were released, although
\* the lock is let go before the batch is mapped: no second batch can be
\* released before the first one is in the queue. DeliveredInOrder rests on it, as
\* two batches under way would have no order.
OneRelease ==
  \A s, t \in Sources : batch[s] # <<>> /\ batch[t] # <<>> => s = t

Concat(seqs) ==
  LET waiting == {s \in Sources : seqs[s] # <<>>}
  IN IF waiting = {} THEN <<>> ELSE seqs[CHOOSE s \in waiting : TRUE]

\* The messages up to these counts, once, each source's in their order.
Complete(messages, counts) ==
  /\ Range(messages) = UNION {{s} \X (1..counts[s]) : s \in Sources}
  /\ \A i, j \in DOMAIN messages :
       i < j /\ messages[i][1] = messages[j][1] => messages[i][2] < messages[j][2]

\* Everything a source has sent is delivered once and in its order, or is on its
\* way, through rounds, concurrent sends, checkpoints and restores; only a batch
\* whose target could not be created is lost, and with it the superstep.
DeliveredInOrder ==
  step # "failed" => Complete(handled \o nextStep \o Concat(batch) \o pending, sent)
=============================================================================
