----------------------------- MODULE CheckpointLog -----------------------------
(***************************************************************************)
(* What a store of checkpoints promises its caller (the JSONStore behind a *)
(* manager): a log that outlives the process. A checkpoint is added to the *)
(* end or refused, as a whole; a stop in the middle decides the one under  *)
(* way either way; whoever opens the log again is shown what is in it.     *)
(* CheckpointStore implements this with an index file of lines, syncs and  *)
(* truncations.                                                            *)
(***************************************************************************)
EXTENDS Sequences, SequencesExt

CONSTANTS Checkpoints, \* checkpoint ids
          None         \* no checkpoint

VARIABLES log,      \* the checkpoints, in order, in the process or not
          open,     \* whether a process has the store
          index,    \* what that process is shown
          creating, \* the checkpoint a call is at work on
          refused,  \* checkpoints refused with an error
          spoiled   \* the promise was given up

vars == <<log, open, index, creating, refused, spoiled>>

Init ==
  /\ log = <<>> /\ index = <<>>
  /\ open = FALSE
  /\ creating = None
  /\ refused = {}
  /\ spoiled = FALSE

IsNew(c) == c \notin Range(log) \cup refused

Open ==
  /\ ~open /\ open'
  /\ index' = log
  /\ UNCHANGED <<log, creating, refused>>

Close ==
  /\ open /\ open' = FALSE /\ creating = None
  /\ index' = <<>>
  /\ UNCHANGED <<log, creating, refused>>

Begin(c) ==
  /\ open /\ creating = None /\ IsNew(c)
  /\ creating' = c
  /\ UNCHANGED <<log, open, index, refused>>

Commit ==
  /\ open /\ creating # None
  /\ log' = Append(log, creating) /\ index' = log'
  /\ creating' = None
  /\ UNCHANGED <<open, refused>>

\* At the end of a call, or at once.
Refuse(c) ==
  /\ open /\ creating \in {None, c} /\ IsNew(c)
  /\ refused' = refused \cup {c}
  /\ creating' = None
  /\ UNCHANGED <<log, open, index>>

\* The process stops; the call under way has happened or has not.
Stop ==
  /\ open /\ open' = FALSE
  /\ \/ log' = log
     \/ creating # None /\ log' = Append(log, creating)
  /\ index' = <<>> /\ creating' = None
  /\ UNCHANGED refused

\* It is kept until the store is spoiled; nothing is promised then.
Next ==
  \/ /\ ~spoiled'
     /\ \/ Open \/ Close \/ Commit \/ Stop
        \/ \E c \in Checkpoints : Begin(c) \/ Refuse(c)
  \/ spoiled'

Spec == Init /\ [][Next]_vars
=============================================================================
