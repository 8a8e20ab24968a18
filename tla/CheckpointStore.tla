---------------------------- MODULE CheckpointStore ----------------------------
(***************************************************************************)
(* The file system store of checkpoints (workflow/checkpoint/jsonstore.go):*)
(* a file for each checkpoint, and an index of JSON lines that is read     *)
(* once when the store is opened and appended to with every checkpoint.    *)
(* Every call to the file system is a step that can fail, and the process, *)
(* or the machine, can stop between any two of them. A store has one owner *)
(* process (a lock file) and one caller at a time, as its comment asks.    *)
(* Sessions only filter the index and are left out. A truncation is taken  *)
(* to reach the disk at once.                                              *)
(***************************************************************************)
EXTENDS Sequences, SequencesExt, FiniteSets, Integers

CONSTANTS Checkpoints, \* checkpoint ids
          None,        \* no checkpoint
          Faults,      \* calls that can fail: "write", "append" (nothing is
                       \* written), "short" (a part is), "sync", "truncate",
                       \* "remove"
          MaxFaults,   \* bound: failing calls
          MaxCrashes   \* bound: stops

ASSUME StoreAssumption ==
  /\ None \notin Checkpoints
  /\ Faults \subseteq {"write", "append", "short", "sync", "truncate", "remove"}
  /\ MaxFaults \in Nat /\ MaxCrashes \in Nat

VARIABLES
  files,    \* checkpoint -> its file: "absent", "whole" or "broken"
  hardened, \* checkpoints whose file the system has written to the disk
  lines,    \* index.jsonl: [id, form]
  synced,   \* how many of the lines are on the disk
  index,    \* the store's index, in memory
  pc,       \* where CreateCheckpoint is; "idle", "closed", "corrupted"
  current,  \* the checkpoint it creates
  below,    \* what the file holds below the offset of its line
  returned, \* history: checkpoints created, in order
  rejected, \* history: checkpoints refused with an error
  spoiled,  \* history: the machine stopped, or the process did with a line
            \* half written, or a truncation failed
  faults, crashes \* counters for the bounds

disk    == <<files, hardened, lines, synced>>
memory  == <<index, current, below>>
history == <<returned, rejected, spoiled>>
vars    == <<disk, memory, pc, history, faults, crashes>>

Indexed  == {index[k] : k \in 1..Len(index)}
Returned == {returned[k] : k \in 1..Len(returned)}
Used     == Indexed \cup Returned \cup rejected \cup {current}
              \cup {c \in Checkpoints : files[c] # "absent"}

\* A line has an id, and is "whole", "unended" (the newline is missing) or
\* "torn" (not JSON).
Line(c, form) == [id |-> c, form |-> form]
Lines         == [id : Checkpoints, form : {"whole", "unended", "torn"}]

\* Bytes written after a line without its newline become part of that line.
Write(c, form) ==
  IF lines # <<>> /\ Last(lines).form # "whole"
  THEN Append(Front(lines), Line(Last(lines).id, "torn"))
  ELSE Append(lines, Line(c, form))

\* What is read of lines: their ids.
Listed(ls) == [k \in 1..Len(ls) |-> ls[k].id]

TypeOK ==
  /\ files \in [Checkpoints -> {"absent", "whole", "broken"}]
  /\ hardened \in SUBSET Checkpoints
  /\ lines \in Seq(Lines)
  /\ synced \in 0..Len(lines)
  /\ index \in Seq(Checkpoints)
  /\ pc \in {"closed", "corrupted", "idle", "append", "sync", "return", "undo", "remove"}
  /\ current \in Checkpoints \cup {None}
  /\ below \in Seq(Lines)
  /\ returned \in Seq(Checkpoints)
  /\ rejected \in SUBSET Checkpoints
  /\ spoiled \in BOOLEAN

Init ==
  /\ files = [c \in Checkpoints |-> "absent"]
  /\ hardened = {}
  /\ lines = <<>> /\ synced = 0
  /\ index = <<>>
  /\ pc = "closed" /\ current = None /\ below = <<>>
  /\ returned = <<>> /\ rejected = {} /\ spoiled = FALSE
  /\ faults = 0 /\ crashes = 0

Fault(call) ==
  /\ call \in Faults /\ faults < MaxFaults
  /\ faults' = faults + 1

-----------------------------------------------------------------------------
(* Opening                                                                 *)

\* loadIndex: one line that does not parse refuses the whole store.
Open ==
  /\ pc = "closed"
  /\ IF \A k \in 1..Len(lines) : lines[k].form # "torn"
       THEN /\ index' = Listed(lines)
            /\ pc' = "idle"
       ELSE index' = index /\ pc' = "corrupted"
  /\ UNCHANGED <<disk, current, below, history, faults, crashes>>

Close ==
  /\ pc = "idle"
  /\ pc' = "closed"
  /\ index' = <<>>
  /\ UNCHANGED <<disk, current, below, history, faults, crashes>>

-----------------------------------------------------------------------------
(* CreateCheckpoint                                                        *)

WriteFile(c) ==
  /\ pc = "idle" /\ c \notin Used
  /\ current' = c
  /\ files' = [files EXCEPT ![c] = "whole"]
  /\ pc' = "append"
  /\ UNCHANGED <<hardened, lines, synced, index, below, history, faults, crashes>>

\* Mutant: the error is not looked at.
WriteFileUnchecked(c) ==
  /\ pc = "idle" /\ c \notin Used
  /\ Fault("write")
  /\ \E left \in {"absent", "broken"} : files' = [files EXCEPT ![c] = left]
  /\ current' = c
  /\ pc' = "append"
  /\ UNCHANGED <<hardened, lines, synced, index, below, history, crashes>>

\* An error, and whatever was written stays.
WriteFileFails(c) ==
  /\ pc = "idle" /\ c \notin Used
  /\ Fault("write")
  /\ \E left \in {"absent", "broken"} : files' = [files EXCEPT ![c] = left]
  /\ rejected' = rejected \cup {c}
  /\ UNCHANGED <<hardened, lines, synced, memory, pc, returned, spoiled, crashes>>

AppendLine ==
  /\ pc = "append"
  /\ below' = lines
  /\ lines' = Write(current, "whole")
  /\ pc' = "sync"
  /\ UNCHANGED <<files, hardened, synced, index, current, history, faults, crashes>>

AppendLineFails ==
  /\ pc = "append"
  /\ below' = lines
  /\ \/ Fault("append") /\ lines' = lines
     \/ Fault("short") /\ \E form \in {"unended", "torn"} : lines' = Write(current, form)
  /\ pc' = "undo"
  /\ UNCHANGED <<files, hardened, synced, index, current, history, crashes>>

Sync ==
  /\ pc = "sync"
  /\ synced' = Len(lines)
  /\ pc' = "return"
  /\ UNCHANGED <<files, hardened, lines, memory, history, faults, crashes>>

\* Mutant: the line stays where it is.
SyncFailsAndLeaves ==
  /\ pc = "sync"
  /\ Fault("sync")
  /\ pc' = "remove"
  /\ UNCHANGED <<disk, memory, history, crashes>>

SyncFails ==
  /\ pc = "sync"
  /\ Fault("sync")
  /\ pc' = "undo"
  /\ UNCHANGED <<disk, memory, history, crashes>>

\* Mutant: the newest first.
ReturnNewestFirst ==
  /\ pc = "return"
  /\ index' = <<current>> \o index
  /\ returned' = Append(returned, current)
  /\ pc' = "idle" /\ current' = None
  /\ UNCHANGED <<disk, below, rejected, spoiled, faults, crashes>>

Return ==
  /\ pc = "return"
  /\ index' = Append(index, current)
  /\ returned' = Append(returned, current)
  /\ pc' = "idle" /\ current' = None
  /\ UNCHANGED <<disk, below, rejected, spoiled, faults, crashes>>

\* Mutant: the whole index is truncated.
UndoEverything ==
  /\ pc = "undo"
  /\ lines' = <<>>
  /\ pc' = "remove"
  /\ UNCHANGED <<files, hardened, synced, memory, history, faults, crashes>>

\* Truncate the index to what it was; that this fails goes unnoticed.
Undo ==
  /\ pc = "undo"
  /\ \/ lines' = below /\ UNCHANGED <<faults, spoiled>>
     \/ Fault("truncate") /\ lines' = lines /\ spoiled' = TRUE
  /\ pc' = "remove"
  /\ UNCHANGED <<files, hardened, synced, memory, returned, rejected, crashes>>

\* Remove the file; that this fails goes unnoticed too.
RemoveFile ==
  /\ pc = "remove"
  /\ \/ files' = [files EXCEPT ![current] = "absent"] /\ faults' = faults
     \/ Fault("remove") /\ UNCHANGED files
  /\ rejected' = rejected \cup {current}
  /\ pc' = "idle" /\ current' = None
  /\ UNCHANGED <<hardened, lines, synced, index, below, returned, spoiled, crashes>>

-----------------------------------------------------------------------------
(* Stops                                                                   *)

\* The system writes a file to the disk in its own time.
Harden(c) ==
  /\ files[c] = "whole" /\ c \notin hardened
  /\ hardened' = hardened \cup {c}
  /\ UNCHANGED <<files, lines, synced, memory, pc, history, faults, crashes>>

Stopped ==
  /\ crashes < MaxCrashes
  /\ crashes' = crashes + 1
  /\ pc' = "closed"
  /\ index' = <<>> /\ current' = None /\ below' = <<>>

\* The process is killed; what it wrote is there.
Killed ==
  /\ pc \notin {"closed", "corrupted"}
  /\ Stopped
  /\ spoiled' = (spoiled \/ \E k \in 1..Len(lines) : lines[k].form # "whole")
  /\ UNCHANGED <<disk, returned, rejected, faults>>

\* The power fails: lines after the synced ones are gone, the first of them
\* perhaps in part, and files the system had not written are gone or broken.
PowerFails ==
  /\ Stopped
  /\ \E kept \in synced..Len(lines) :
       \/ lines' = SubSeq(lines, 1, kept)
       \/ /\ kept < Len(lines)
          /\ \E form \in {"unended", "torn"} :
              lines' = Append(SubSeq(lines, 1, kept), Line(lines[kept + 1].id, form))
  /\ synced' = Len(lines')
  /\ \E lost \in SUBSET {c \in Checkpoints \ hardened : files[c] # "absent"} :
       \E how \in {"absent", "broken"} :
         files' = [c \in Checkpoints |-> IF c \in lost THEN how ELSE files[c]]
  /\ hardened' = hardened \cup {c \in Checkpoints : files'[c] = "whole"}
  /\ spoiled' = TRUE
  /\ UNCHANGED <<returned, rejected, faults>>

-----------------------------------------------------------------------------

Next ==
  \/ Open \/ Close
  \/ \E c \in Checkpoints : WriteFile(c) \/ WriteFileFails(c) \/ Harden(c)
  \/ AppendLine \/ AppendLineFails \/ Sync \/ SyncFails \/ Return \/ Undo \/ RemoveFile
  \/ Killed \/ PowerFails

Spec == Init /\ [][Next]_vars

-----------------------------------------------------------------------------
(* Properties                                                              *)

Opened == pc \notin {"closed", "corrupted"}

\* A checkpoint that CreateCheckpoint returned can be retrieved, and the store
\* can be opened again.
Survives ==
  /\ Opened => \A c \in Returned : c \in Indexed /\ files[c] = "whole"
  /\ pc = "corrupted" => returned = <<>>

\* It is so whatever calls fail and whenever the process is killed, except with
\* a line half written and not truncated again.
CommittedSurvives == ~spoiled => Survives

\* A checkpoint the index lists can be read: it is in the index, in the file
\* and in memory, only while its own file is there.
IndexedIsReadable ==
  Opened /\ ~spoiled => \A c \in Indexed : files[c] = "whole"

\* A checkpoint that was refused with an error does not turn up later.
RefusedStaysOut == ~spoiled => Indexed \cap rejected = {}

\* Of ids, those in created are all of created, each once and in its order.
Ordered(ids, created) ==
  /\ Range(created) \subseteq Range(ids)
  /\ \A i, j \in DOMAIN ids, k, l \in DOMAIN created :
       ids[i] = created[k] /\ ids[j] = created[l] => (i < j <=> k < l)

\* The index has the checkpoints in the order in which they were created, so
\* that the latest is the last (LatestCheckpoint), and none is missing: it is
\* synced, so that this holds even after the machine stopped.
InOrder == Opened => Ordered(index, returned)

\* The checkpoints the file has, without the one whose line is in the making.
Settled == IF pc \in {"sync", "return", "undo"} THEN below ELSE lines

Promised == INSTANCE CheckpointLog WITH
  log <- Listed(Settled), open <- Opened, creating <- current, refused <- rejected

\* The store is a log a checkpoint is added to as a whole or not at all: however
\* the calls to the file system fail and wherever the process stops between them,
\* its callers cannot tell CreateCheckpoint from one step, and a store that is
\* opened again (loadIndex) shows the log as it was left.
IsALog == Promised!Spec
=============================================================================
