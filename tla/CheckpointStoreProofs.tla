------------------------- MODULE CheckpointStoreProofs -------------------------
(* Proofs about CheckpointStore, for any checkpoints, faults and stops.    *)
EXTENDS CheckpointStore, TLAPS

\* The line below which nothing was synced is not above what an undo goes back to.
SyncedBelow == pc \in {"sync", "undo"} => synced <= Len(below)

TInv == TypeOK /\ SyncedBelow /\ (pc \in {"append", "sync", "return", "undo", "remove"} => current \in Checkpoints)

\* A line is written at the end, or ends the one the newline of which is missing.
LEMMA WriteType ==
  ASSUME lines \in Seq(Lines), NEW c \in Checkpoints, NEW form \in {"whole", "unended", "torn"}
  PROVE  Write(c, form) \in Seq(Lines) /\ Len(Write(c, form)) >= Len(lines)
<1>1. CASE lines # <<>> /\ Last(lines).form # "whole"
  <2>1. Last(lines) \in Lines /\ Front(lines) \in Seq(Lines) /\ Len(Front(lines)) = Len(lines) - 1
        /\ Len(lines) \in Nat
    <3>1. Len(lines) \in Nat \ {0} /\ Last(lines) = lines[Len(lines)] /\ Front(lines) = SubSeq(lines, 1, Len(lines) - 1)
      BY <1>1 DEF Last, Front
    <3>2. lines[Len(lines)] \in Lines
      BY <3>1
    <3>3. SubSeq(lines, 1, Len(lines) - 1) \in Seq(Lines) /\ Len(SubSeq(lines, 1, Len(lines) - 1)) = Len(lines) - 1
      <4> DEFINE n == Len(lines) - 1
      <4>1. n \in 0 .. Len(lines)
        BY <3>1
      <4> HIDE DEF n
      <4>2. SubSeq(lines, 1, n) \in Seq(Lines) /\ Len(SubSeq(lines, 1, n)) = n
        BY <4>1
      <4> QED
        BY <4>2 DEF n
    <3> QED
      BY <3>1, <3>2, <3>3
  <2>2. Line(Last(lines).id, "torn") \in Lines
    BY <2>1 DEF Line, Lines
  <2>3. Write(c, form) = Append(Front(lines), Line(Last(lines).id, "torn"))
    BY <1>1 DEF Write
  <2> QED
    BY <2>1, <2>2, <2>3
<1>2. CASE ~(lines # <<>> /\ Last(lines).form # "whole")
  <2>1. Line(c, form) \in Lines
    BY DEF Line, Lines
  <2> QED
    BY <1>2, <2>1 DEF Write
<1> QED
  BY <1>1, <1>2

LEMMA TypeInit == Init => TInv
<1> SUFFICES ASSUME Init PROVE TInv
  OBVIOUS
<1>1. /\ files \in [Checkpoints -> {"absent", "whole", "broken"}] /\ hardened \in SUBSET Checkpoints
      /\ pc = "closed" /\ current = None /\ spoiled \in BOOLEAN /\ rejected \in SUBSET Checkpoints
  BY DEF Init
<1>2. lines \in Seq(Lines) /\ below \in Seq(Lines) /\ Len(lines) = 0 /\ synced = 0
  BY DEF Init
<1>3. index \in Seq(Checkpoints) /\ returned \in Seq(Checkpoints)
  BY DEF Init
<1> QED
  BY <1>1, <1>2, <1>3 DEF TInv, TypeOK, SyncedBelow

LEMMA OpenCloseType == TInv /\ (Open \/ Close) => TInv'
<1> SUFFICES ASSUME TInv, Open \/ Close PROVE TInv'
  OBVIOUS
<1>1. CASE Open
  <2>1. index' \in Seq(Checkpoints)
    <3>1. \A k \in 1 .. Len(lines) : lines[k].id \in Checkpoints
      <4>1. \A k \in 1 .. Len(lines) : lines[k] \in Lines
        BY DEF TInv, TypeOK
      <4> QED
        BY <4>1 DEF Lines
    <3>2. [k \in 1 .. Len(lines) |-> lines[k].id] \in Seq(Checkpoints)
      BY <3>1 DEF TInv, TypeOK
    <3> QED
      BY <1>1, <3>2 DEF Open, Listed, TInv, TypeOK
  <2> QED
    BY <1>1, <2>1 DEF Open, Listed, TInv, TypeOK, SyncedBelow, disk, history
<1>2. CASE Close
  BY <1>2 DEF Close, TInv, TypeOK, SyncedBelow, disk, history
<1> QED
  BY <1>1, <1>2

LEMMA CreateType ==
  ASSUME TInv,
         \/ \E c \in Checkpoints : WriteFile(c) \/ WriteFileFails(c) \/ Harden(c)
         \/ Sync \/ SyncFails \/ Return \/ Undo \/ RemoveFile
  PROVE  TInv'
<1>1. CASE \E c \in Checkpoints : WriteFile(c)
  BY <1>1 DEF WriteFile, TInv, TypeOK, SyncedBelow, history
<1>2. CASE \E c \in Checkpoints : WriteFileFails(c)
  BY <1>2 DEF WriteFileFails, TInv, TypeOK, SyncedBelow, memory
<1>3. CASE \E c \in Checkpoints : Harden(c)
  BY <1>3 DEF Harden, TInv, TypeOK, SyncedBelow, memory, history
<1>4. CASE Sync
  BY <1>4 DEF Sync, TInv, TypeOK, SyncedBelow, memory, history
<1>5. CASE SyncFails
  BY <1>5 DEF SyncFails, TInv, TypeOK, SyncedBelow, disk, memory, history
<1>6. CASE Return
  BY <1>6 DEF Return, TInv, TypeOK, SyncedBelow, disk
<1>7. CASE Undo
  <2>1. lines' \in {lines, below} /\ pc' = "remove" /\ spoiled' \in BOOLEAN
    BY <1>7 DEF Undo, TInv, TypeOK
  <2>2. lines' \in Seq(Lines) /\ synced' \in 0 .. Len(lines')
    BY <1>7, <2>1 DEF Undo, TInv, TypeOK, SyncedBelow
  <2> QED
    BY <1>7, <2>1, <2>2 DEF Undo, TInv, TypeOK, SyncedBelow, memory
<1>8. CASE RemoveFile
  BY <1>8 DEF RemoveFile, TInv, TypeOK, SyncedBelow
<1> QED
  BY <1>1, <1>2, <1>3, <1>4, <1>5, <1>6, <1>7, <1>8

LEMMA AppendType == TInv /\ (AppendLine \/ AppendLineFails) => TInv'
<1> SUFFICES ASSUME TInv, AppendLine \/ AppendLineFails PROVE TInv'
  OBVIOUS
<1>1. lines' \in Seq(Lines) /\ Len(lines') >= Len(lines)
  <2>1. lines \in Seq(Lines) /\ current \in Checkpoints
    BY DEF TInv, TypeOK, AppendLine, AppendLineFails
  <2>2. CASE AppendLine
    BY <2>1, <2>2, WriteType DEF AppendLine
  <2>3. CASE AppendLineFails
    BY <2>1, <2>3, WriteType DEF AppendLineFails
  <2> QED
    BY <2>2, <2>3
<1>2. below' = lines /\ pc' \in {"sync", "undo"} /\ UNCHANGED <<files, hardened, synced, index, current, history>>
  BY DEF AppendLine, AppendLineFails
<1>3. synced' \in 0 .. Len(lines') /\ synced' <= Len(below') /\ below' \in Seq(Lines)
  BY <1>1, <1>2 DEF TInv, TypeOK
<1>4. current' \in Checkpoints
  BY <1>2 DEF TInv, AppendLine, AppendLineFails
<1> QED
  BY <1>1, <1>2, <1>3, <1>4 DEF TInv, TypeOK, SyncedBelow, history

\* After a stop the lines that were synced are there.
LEMMA StopType == TInv /\ (Killed \/ PowerFails) => TInv'
<1> SUFFICES ASSUME TInv, Killed \/ PowerFails PROVE TInv'
  OBVIOUS
<1>1. pc' = "closed" /\ index' = <<>> /\ current' = None /\ below' = <<>>
  BY DEF Killed, PowerFails, Stopped
<1>2. CASE Killed
  BY <1>1, <1>2 DEF Killed, TInv, TypeOK, SyncedBelow, disk
<1>3. CASE PowerFails
  <2>1. PICK kept \in synced .. Len(lines) :
          \/ lines' = SubSeq(lines, 1, kept)
          \/ /\ kept < Len(lines)
             /\ \E form \in {"unended", "torn"} :
                  lines' = Append(SubSeq(lines, 1, kept), Line(lines[kept + 1].id, form))
    BY <1>3 DEF PowerFails
  <2>2. kept \in 0 .. Len(lines) /\ SubSeq(lines, 1, kept) \in Seq(Lines)
    BY <2>1 DEF TInv, TypeOK
  <2>3. lines' \in Seq(Lines)
    <3>1. CASE lines' = SubSeq(lines, 1, kept)
      BY <2>2, <3>1
    <3>2. CASE kept < Len(lines) /\ \E form \in {"unended", "torn"} :
                 lines' = Append(SubSeq(lines, 1, kept), Line(lines[kept + 1].id, form))
      <4>1. lines[kept + 1] \in Lines
        BY <2>2, <3>2 DEF TInv, TypeOK
      <4>2. \A form \in {"unended", "torn"} : Line(lines[kept + 1].id, form) \in Lines
        BY <4>1 DEF Line, Lines
      <4> QED
        BY <2>2, <3>2, <4>2
    <3> QED
      BY <2>1, <3>1, <3>2
  <2>4. files' \in [Checkpoints -> {"absent", "whole", "broken"}]
    BY <1>3 DEF PowerFails, TInv, TypeOK
  <2>5. hardened' \in SUBSET Checkpoints /\ synced' = Len(lines') /\ UNCHANGED <<returned, rejected>>
        /\ spoiled' = TRUE
    BY <1>3 DEF PowerFails, TInv, TypeOK
  <2> QED
    BY <1>1, <2>3, <2>4, <2>5 DEF TInv, TypeOK, SyncedBelow
<1> QED
  BY <1>2, <1>3

LEMMA TypeStep == TInv /\ [Next]_vars => TInv'
<1> SUFFICES ASSUME TInv, [Next]_vars PROVE TInv'
  OBVIOUS
<1>1. CASE UNCHANGED vars
  BY <1>1 DEF vars, disk, memory, history, TInv, TypeOK, SyncedBelow
<1> QED
  BY <1>1, OpenCloseType, CreateType, AppendType, StopType DEF Next

\* Every state of the store is of its type: in particular no stop leaves more lines
\* synced than there are.
THEOREM StoreTypes == Spec => []TypeOK
<1>1. TInv => TypeOK
  BY DEF TInv
<1> QED
  BY <1>1, TypeInit, TypeStep, PTL DEF Spec

-----------------------------------------------------------------------------
(* What a store that was not spoiled keeps.                                *)

Ids(ls)      == {ls[k].id : k \in 1 .. Len(ls)}
AllWhole(ls) == \A k \in 1 .. Len(ls) : ls[k].form = "whole"

\* A line in the making is the last of the file, if it is there at all.
InMaking ==
  /\ pc \in {"sync", "return"} => lines = Append(below, Line(current, "whole"))
  /\ pc = "undo" => \/ lines = below
                    \/ \E form \in {"whole", "unended", "torn"} : lines = Append(below, Line(current, form))

\* The index is what the file has; what it has can be read, was not refused, and what
\* is created is not in it yet.
SafeInv ==
  ~spoiled =>
    /\ pc # "corrupted"
    /\ AllWhole(Settled) /\ InMaking
    /\ Indexed = IF Opened THEN Ids(Settled) ELSE {}
    /\ Returned \subseteq Ids(Settled)
    /\ \A c \in Ids(Settled) : files[c] = "whole" /\ c \notin rejected
    /\ pc \in {"append", "sync", "return", "undo"} => files[current] = "whole" /\ current \notin rejected
    /\ pc \in {"append", "sync", "return", "undo", "remove"} => current \notin Indexed

\* One more line has one more checkpoint.
LEMMA OneMoreLine ==
  ASSUME NEW ls \in Seq(Lines), NEW c \in Checkpoints, NEW form \in {"whole", "unended", "torn"}
  PROVE  /\ Ids(Append(ls, Line(c, form))) = Ids(ls) \cup {c}
         /\ AllWhole(Append(ls, Line(c, form))) <=> (AllWhole(ls) /\ form = "whole")
<1> DEFINE l == Line(c, form)
           as == Append(ls, l)
<1>1. l \in Lines /\ l.id = c /\ l.form = form
  BY DEF Line, Lines
<1> HIDE DEF l
<1>2. /\ Len(ls) \in Nat /\ Len(as) = Len(ls) + 1 /\ as[Len(ls) + 1] = l
      /\ \A k \in 1 .. Len(ls) : as[k] = ls[k]
  BY <1>1
<1> HIDE DEF as
<1>3. Ids(as) = Ids(ls) \cup {c}
  <2>1. 1 .. Len(as) = 1 .. Len(ls) \cup {Len(ls) + 1}
    BY <1>2
  <2> QED
    <3>1. \A k \in 1 .. Len(ls) : as[k].id = ls[k].id
      BY <1>2
    <3>2. as[Len(ls) + 1].id = c
      BY <1>1, <1>2
    <3> QED
      BY <2>1, <3>1, <3>2 DEF Ids
<1>4. AllWhole(as) <=> (AllWhole(ls) /\ form = "whole")
  <2>1. 1 .. Len(as) = 1 .. Len(ls) \cup {Len(ls) + 1}
    BY <1>2
  <2>2. \A k \in 1 .. Len(ls) : as[k].form = ls[k].form
    BY <1>2
  <2>3. as[Len(ls) + 1].form = form
    BY <1>1, <1>2
  <2> QED
    BY <2>1, <2>2, <2>3 DEF AllWhole
<1> QED
  BY <1>3, <1>4 DEF as, l

\* One more checkpoint in the index, or among the created.
LEMMA OneMoreIndexed ==
  ASSUME NEW q \in Seq(Checkpoints), NEW c \in Checkpoints, NEW r, r = Append(q, c)
  PROVE  {r[k] : k \in 1 .. Len(r)} = {q[k] : k \in 1 .. Len(q)} \cup {c}
<1>1. /\ Len(q) \in Nat /\ Len(r) = Len(q) + 1 /\ r[Len(q) + 1] = c
      /\ \A k \in 1 .. Len(q) : r[k] = q[k]
  OBVIOUS
<1>2. 1 .. Len(r) = 1 .. Len(q) \cup {Len(q) + 1}
  BY <1>1
<1> QED
  BY <1>1, <1>2

LEMMA SafeInit == Init => SafeInv
<1> SUFFICES ASSUME Init PROVE SafeInv
  OBVIOUS
<1>1. lines = <<>> /\ pc = "closed" /\ returned = <<>> /\ Settled = <<>>
  BY DEF Init, Settled
<1>2. Ids(<<>>) = {} /\ Returned = {} /\ Indexed = {} /\ AllWhole(<<>>)
  BY <1>1 DEF Init, Ids, Returned, Indexed, AllWhole
<1> QED
  BY <1>1, <1>2 DEF SafeInv, InMaking, Opened

\* The index read is what the file has.
LEMMA OpenSafe == TInv /\ SafeInv /\ (Open \/ Close) => SafeInv'
<1> SUFFICES ASSUME TInv, SafeInv, Open \/ Close, ~spoiled PROVE SafeInv'
  BY DEF Open, Close, SafeInv, history
<1>1. UNCHANGED <<files, lines, current, below, returned, rejected, spoiled>>
  BY DEF Open, Close, disk, history
<1>2. pc \in {"closed", "idle"} /\ Settled = lines
  BY DEF Open, Close, Settled
<1>3. AllWhole(lines)
  BY <1>2 DEF SafeInv
<1>4. CASE Open
  <2>1. \A k \in 1 .. Len(lines) : lines[k].form # "torn"
    BY <1>3 DEF AllWhole
  <2>2. index' = [k \in 1 .. Len(lines) |-> lines[k].id] /\ pc' = "idle"
    BY <1>4, <2>1 DEF Open, Listed
  <2>3. Indexed' = Ids(lines)
    <3>1. Len(lines) \in Nat
      BY DEF TInv, TypeOK
    <3>2. Len(index') = Len(lines) /\ \A k \in 1 .. Len(lines) : index'[k] = lines[k].id
      BY <2>2, <3>1
    <3> QED
      BY <3>2 DEF Indexed, Ids
  <2>4. Settled' = lines
    BY <1>1, <2>2 DEF Settled
  <2> QED
    BY <1>1, <1>2, <2>2, <2>3, <2>4 DEF SafeInv, InMaking, Opened, Returned
<1>5. CASE Close
  <2>1. pc' = "closed" /\ Settled' = lines /\ Indexed' = {}
    BY <1>1, <1>5 DEF Close, Settled, Indexed
  <2> QED
    BY <1>1, <1>2, <2>1 DEF SafeInv, InMaking, Opened, Returned
<1> QED
  BY <1>4, <1>5

LEMMA FileSafe ==
  ASSUME TInv, SafeInv, NEW c \in Checkpoints, WriteFile(c) \/ WriteFileFails(c) \/ Harden(c)
  PROVE  SafeInv'
<1> SUFFICES ASSUME ~spoiled PROVE SafeInv'
  BY DEF WriteFile, WriteFileFails, Harden, SafeInv, history
<1>1. UNCHANGED <<lines, index, below, returned, spoiled>>
  BY DEF WriteFile, WriteFileFails, Harden, memory, history
<1>2. CASE Harden(c)
  BY <1>1, <1>2 DEF Harden, SafeInv, InMaking, Opened, Indexed, Returned, Settled, memory, history
<1>3. CASE WriteFile(c) \/ WriteFileFails(c)
  <2>1. pc = "idle" /\ c \notin Indexed /\ c \notin rejected
    BY <1>3 DEF WriteFile, WriteFileFails, Used
  <2>2. Indexed = Ids(lines) /\ Settled = lines
    BY <2>1 DEF SafeInv, Opened, Settled
  <2>3. \A d \in Checkpoints \ {c} : files'[d] = files[d]
    BY <1>3 DEF WriteFile, WriteFileFails, TInv, TypeOK
  <2>4. Ids(lines) \subseteq Checkpoints
    <3>1. \A k \in 1 .. Len(lines) : lines[k] \in Lines
      BY DEF TInv, TypeOK
    <3> QED
      BY <3>1 DEF Ids, Lines
  <2>5. \A d \in Ids(lines) : files'[d] = "whole"
    BY <2>1, <2>2, <2>3, <2>4 DEF SafeInv
  <2>6. Settled' = lines /\ Indexed' = Indexed /\ Returned' = Returned
    BY <1>1, <1>3, <2>1 DEF WriteFile, WriteFileFails, Settled, Indexed, Returned, memory
  <2>7. CASE WriteFile(c)
    <3>1. pc' = "append" /\ current' = c /\ files'[c] = "whole" /\ rejected' = rejected
      BY <2>7 DEF WriteFile, history, TInv, TypeOK
    <3> QED
      BY <1>1, <2>1, <2>2, <2>5, <2>6, <3>1 DEF SafeInv, InMaking, Opened
  <2>8. CASE WriteFileFails(c)
    <3>1. pc' = "idle" /\ rejected' = rejected \cup {c}
      BY <2>1, <2>8 DEF WriteFileFails, memory
    <3> QED
      BY <1>1, <2>1, <2>2, <2>5, <2>6, <3>1 DEF SafeInv, InMaking, Opened
  <2> QED
    BY <1>3, <2>7, <2>8
<1> QED
  BY <1>2, <1>3

\* Writing at the end of whole lines adds a line.
LEMMA WriteAppends ==
  ASSUME lines \in Seq(Lines), AllWhole(lines), NEW c, NEW form
  PROVE  Write(c, form) = Append(lines, Line(c, form))
<1>1. ~(lines # <<>> /\ Last(lines).form # "whole")
  BY DEF AllWhole, Last
<1> QED
  BY <1>1 DEF Write

LEMMA AppendSafe == TInv /\ SafeInv /\ (AppendLine \/ AppendLineFails) => SafeInv'
<1> SUFFICES ASSUME TInv, SafeInv, AppendLine \/ AppendLineFails, ~spoiled PROVE SafeInv'
  BY DEF AppendLine, AppendLineFails, SafeInv, history
<1>1. pc = "append" /\ below' = lines /\ UNCHANGED <<files, index, current, returned, rejected, spoiled>>
  BY DEF AppendLine, AppendLineFails, history
<1>2. Settled = lines /\ AllWhole(lines) /\ lines \in Seq(Lines)
  BY <1>1 DEF SafeInv, Settled, TInv, TypeOK
<1>3. Settled' = lines /\ pc' \in {"sync", "undo"}
  BY <1>1 DEF AppendLine, AppendLineFails, Settled
<1>4. InMaking'
  <2>1. CASE AppendLine
    BY <1>1, <1>2, <2>1, WriteAppends DEF AppendLine, InMaking
  <2>2. CASE AppendLineFails
    BY <1>1, <1>2, <2>2, WriteAppends DEF AppendLineFails, InMaking
  <2> QED
    BY <2>1, <2>2
<1> QED
  BY <1>1, <1>2, <1>3, <1>4 DEF SafeInv, Opened, Indexed, Returned

LEMMA SyncSafe == TInv /\ SafeInv /\ (Sync \/ SyncFails) => SafeInv'
<1> SUFFICES ASSUME TInv, SafeInv, Sync \/ SyncFails, ~spoiled PROVE SafeInv'
  BY DEF Sync, SyncFails, SafeInv, history
<1>1. pc = "sync" /\ pc' \in {"return", "undo"} /\ UNCHANGED <<files, lines, index, current, below, returned, rejected, spoiled>>
  BY DEF Sync, SyncFails, disk, memory, history
<1>2. Settled' = Settled /\ InMaking'
  BY <1>1 DEF SafeInv, Settled, InMaking
<1> QED
  BY <1>1, <1>2 DEF SafeInv, Opened, Indexed, Returned

LEMMA ReturnSafe == TInv /\ SafeInv /\ Return => SafeInv'
<1> SUFFICES ASSUME TInv, SafeInv, Return, ~spoiled PROVE SafeInv'
  BY DEF Return, SafeInv
<1>1. pc = "return" /\ pc' = "idle" /\ UNCHANGED <<files, lines, rejected, spoiled>>
  BY DEF Return, disk
<1>2. Settled = below /\ Settled' = lines /\ lines = Append(below, Line(current, "whole"))
  BY <1>1 DEF SafeInv, Settled, InMaking
<1>3. below \in Seq(Lines) /\ current \in Checkpoints
  BY <1>1 DEF TInv, TypeOK
<1>4. Ids(lines) = Ids(below) \cup {current} /\ AllWhole(lines)
  BY <1>2, <1>3, OneMoreLine DEF SafeInv
<1>5. Indexed' = Indexed \cup {current} /\ Returned' = Returned \cup {current}
  <2>1. index \in Seq(Checkpoints) /\ returned \in Seq(Checkpoints)
    BY DEF TInv, TypeOK
  <2>2. index' = Append(index, current) /\ returned' = Append(returned, current)
    BY DEF Return
  <2>3. {index'[k] : k \in 1 .. Len(index')} = {index[k] : k \in 1 .. Len(index)} \cup {current}
    BY <1>3, <2>1, <2>2, OneMoreIndexed
  <2>4. {returned'[k] : k \in 1 .. Len(returned')} = {returned[k] : k \in 1 .. Len(returned)} \cup {current}
    BY <1>3, <2>1, <2>2, OneMoreIndexed
  <2> QED
    BY <2>3, <2>4 DEF Indexed, Returned
<1> QED
  BY <1>1, <1>2, <1>4, <1>5 DEF SafeInv, InMaking, Opened

LEMMA UndoSafe == TInv /\ SafeInv /\ (Undo \/ RemoveFile) => SafeInv'
<1> SUFFICES ASSUME TInv, SafeInv, Undo \/ RemoveFile, ~spoiled' PROVE SafeInv'
  BY DEF SafeInv
<1>1. ~spoiled /\ UNCHANGED <<index, below, returned>>
  BY DEF Undo, RemoveFile, memory
<1>2. CASE Undo
  <2>1. pc = "undo" /\ pc' = "remove" /\ lines' = below /\ UNCHANGED <<files, current, rejected>>
    BY <1>1, <1>2 DEF Undo, memory
  <2>2. Settled' = Settled
    BY <2>1 DEF Settled
  <2> QED
    BY <1>1, <2>1, <2>2 DEF SafeInv, InMaking, Opened, Indexed, Returned
<1>3. CASE RemoveFile
  <2>1. pc = "remove" /\ pc' = "idle" /\ lines' = lines /\ rejected' = rejected \cup {current}
    BY <1>3 DEF RemoveFile
  <2>2. Settled = lines /\ Settled' = lines /\ current \notin Ids(lines)
    BY <1>1, <2>1 DEF Settled, SafeInv, Opened
  <2>3. Ids(lines) \subseteq Checkpoints
    <3>1. \A k \in 1 .. Len(lines) : lines[k] \in Lines
      BY DEF TInv, TypeOK
    <3> QED
      BY <3>1 DEF Ids, Lines
  <2>4. \A c \in Ids(lines) : files'[c] = files[c]
    BY <1>3, <2>2, <2>3 DEF RemoveFile, TInv, TypeOK
  <2> QED
    BY <1>1, <2>1, <2>2, <2>4 DEF SafeInv, InMaking, Opened, Indexed, Returned
<1> QED
  BY <1>2, <1>3

\* A process killed leaves whole lines, or the store is spoiled.
LEMMA StopSafe == TInv /\ SafeInv /\ (Killed \/ PowerFails) => SafeInv'
<1> SUFFICES ASSUME TInv, SafeInv, Killed, ~spoiled' PROVE SafeInv'
  BY DEF PowerFails, SafeInv
<1>1. ~spoiled /\ \A k \in 1 .. Len(lines) : lines[k].form = "whole"
  BY DEF Killed
<1>2. /\ AllWhole(lines) /\ pc' = "closed" /\ Settled' = lines' /\ Indexed' = {}
      /\ UNCHANGED <<files, lines, returned, rejected>>
  BY <1>1 DEF Killed, Stopped, Settled, AllWhole, Indexed, disk
<1>3. lines = Settled \/ (pc \in {"sync", "return", "undo"} /\ lines = Append(Settled, Line(current, "whole")))
  <2>1. CASE pc = "undo"
    <3>1. CASE lines = below
      BY <2>1, <3>1 DEF Settled
    <3>2. CASE \E form \in {"whole", "unended", "torn"} : lines = Append(below, Line(current, form))
      <4>1. below \in Seq(Lines) /\ current \in Checkpoints
        BY <2>1 DEF TInv, TypeOK
      <4> QED
        BY <1>2, <2>1, <3>2, <4>1, OneMoreLine DEF Settled
    <3> QED
      BY <1>1, <2>1, <3>1, <3>2 DEF SafeInv, InMaking
  <2>2. CASE pc \in {"sync", "return"}
    BY <1>1, <2>2 DEF SafeInv, InMaking, Settled
  <2>3. CASE pc \notin {"sync", "return", "undo"}
    BY <2>3 DEF Settled
  <2> QED
    BY <2>1, <2>2, <2>3
<1>4. \A c \in Ids(lines) : files[c] = "whole" /\ c \notin rejected
  <2>1. CASE lines = Settled
    BY <1>1, <2>1 DEF SafeInv
  <2>2. CASE pc \in {"sync", "return", "undo"} /\ lines = Append(Settled, Line(current, "whole"))
    <3>1. Settled \in Seq(Lines) /\ current \in Checkpoints
      BY <2>2 DEF Settled, TInv, TypeOK
    <3>2. Ids(lines) = Ids(Settled) \cup {current}
      BY <2>2, <3>1, OneMoreLine
    <3> QED
      BY <1>1, <2>2, <3>2 DEF SafeInv
  <2> QED
    BY <1>3, <2>1, <2>2
<1>5. Ids(Settled) \subseteq Ids(lines)
  <2>1. CASE pc \in {"sync", "return", "undo"} /\ lines = Append(Settled, Line(current, "whole"))
    <3>1. Settled \in Seq(Lines) /\ current \in Checkpoints
      BY <2>1 DEF Settled, TInv, TypeOK
    <3> QED
      BY <2>1, <3>1, OneMoreLine
  <2> QED
    BY <1>3, <2>1
<1> QED
  BY <1>1, <1>2, <1>4, <1>5 DEF SafeInv, InMaking, Opened, Returned

LEMMA SafeStep == TInv /\ SafeInv /\ [Next]_vars => SafeInv'
<1> SUFFICES ASSUME TInv, SafeInv, [Next]_vars PROVE SafeInv'
  OBVIOUS
<1>1. CASE UNCHANGED vars
  BY <1>1 DEF vars, disk, memory, history, SafeInv, InMaking, Settled, Opened, Indexed, Returned
<1> QED
  BY <1>1, OpenSafe, FileSafe, AppendSafe, SyncSafe, ReturnSafe, UndoSafe, StopSafe DEF Next

LEMMA SafeAlways == Spec => [](TInv /\ SafeInv)
<1>1. Init => TInv /\ SafeInv
  BY TypeInit, SafeInit
<1>2. TInv /\ SafeInv /\ [Next]_vars => (TInv /\ SafeInv)'
  BY TypeStep, SafeStep
<1> QED
  BY <1>1, <1>2, PTL DEF Spec

\* A checkpoint returned is indexed and can be read, and the store opens, whatever calls
\* fail and whenever the process is killed, but with a half written line.
THEOREM ReturnedIsKept == Spec => []CommittedSurvives
<1>1. TInv /\ SafeInv => CommittedSurvives
  BY DEF SafeInv, CommittedSurvives, Survives
<1> QED
  BY <1>1, SafeAlways, PTL

\* The index lists nothing that cannot be read.
THEOREM IndexIsReadable == Spec => []IndexedIsReadable
<1>1. TInv /\ SafeInv => IndexedIsReadable
  BY DEF SafeInv, IndexedIsReadable
<1> QED
  BY <1>1, SafeAlways, PTL

\* A checkpoint refused with an error never turns up in the index, opened anew or not.
THEOREM RefusedIsOut == Spec => []RefusedStaysOut
<1>1. TInv /\ SafeInv => RefusedStaysOut
  <2> SUFFICES ASSUME TInv, SafeInv, ~spoiled PROVE Indexed \cap rejected = {}
    BY DEF RefusedStaysOut
  <2>1. CASE Opened
    BY <2>1 DEF SafeInv
  <2>2. CASE ~Opened
    BY <2>2 DEF SafeInv
  <2> QED
    BY <2>1, <2>2
<1> QED
  BY <1>1, SafeAlways, PTL

-----------------------------------------------------------------------------
(* The order of what was created, in the file and in memory.               *)

\* The first n lines have what was created and, unless one of them is torn and the
\* store will never open again, the lines are in its order.
OnDisk(ls, n, created) ==
  (\A k \in 1 .. n : ls[k].form # "torn") =>
    /\ \A l \in 1 .. Len(created) : \E i \in 1 .. n : ls[i].id = created[l]
    /\ \A i, j \in 1 .. Len(ls), k, l \in 1 .. Len(created) :
         ls[i].id = created[k] /\ ls[j].id = created[l] => (i < j <=> k < l)

\* A line of c was written at the end, or has become part of the line before it.
Wrote(old, new, c) ==
  \/ \E form \in {"whole", "unended", "torn"} : new = Append(old, Line(c, form))
  \/ /\ Len(new) = Len(old) /\ old # <<>>
     /\ \A k \in 1 .. Len(old) : new[k].id = old[k].id /\ (k < Len(old) => new[k] = old[k])
     /\ new[Len(old)].form = "torn"

\* The store knows whose lines there are, and does not create one of them again.
Knows ==
  /\ pc \in {"idle", "append"} => Ids(lines) \subseteq Indexed \cup rejected
  /\ pc \in {"sync", "return", "undo"} => Ids(below) \subseteq Indexed \cup rejected
  /\ pc = "remove" => Ids(lines) \subseteq Indexed \cup rejected \cup {current}
  /\ pc \in {"append", "sync", "return", "undo", "remove"} =>
       current \notin Indexed \cup rejected \cup Returned

OrderInv ==
  /\ OnDisk(lines, synced, returned)
  /\ pc \in {"sync", "undo"} => OnDisk(below, synced, returned)
  /\ pc \in {"sync", "return"} => Wrote(below, lines, current)
  /\ pc = "undo" => lines = below \/ Wrote(below, lines, current)
  /\ pc = "return" => synced = Len(lines)
  /\ InOrder
  /\ Knows

\* The lines that the rule speaks of are known by their ids, and by whether they are torn.
LEMMA SameOnDisk ==
  ASSUME NEW old \in Seq(Lines), NEW new \in Seq(Lines), NEW created \in Seq(Checkpoints),
         NEW n \in 0 .. Len(old), Len(new) = Len(old),
         \A k \in 1 .. Len(old) : new[k].id = old[k].id,
         \A k \in 1 .. n : old[k].form = "torn" => new[k].form = "torn",
         OnDisk(old, n, created)
  PROVE  OnDisk(new, n, created)
<1> SUFFICES ASSUME \A k \in 1 .. n : new[k].form # "torn" PROVE OnDisk(new, n, created)
  BY DEF OnDisk
<1>1. \A k \in 1 .. n : old[k].form # "torn"
  OBVIOUS
<1>2. \A l \in 1 .. Len(created) : \E i \in 1 .. n : old[i].id = created[l]
  BY <1>1 DEF OnDisk
<1>3. \A i, j \in 1 .. Len(old), k, l \in 1 .. Len(created) :
         old[i].id = created[k] /\ old[j].id = created[l] => (i < j <=> k < l)
  BY <1>1 DEF OnDisk
<1>4. \A i \in 1 .. n : i \in 1 .. Len(old)
  OBVIOUS
<1> QED
  BY <1>2, <1>3, <1>4 DEF OnDisk

\* One more line, of a checkpoint that has not been created, changes nothing.
LEMMA LongerOnDisk ==
  ASSUME NEW old \in Seq(Lines), NEW line \in Lines, NEW new, new = Append(old, line),
         NEW created \in Seq(Checkpoints), NEW n \in 0 .. Len(old),
         \A l \in 1 .. Len(created) : created[l] # line.id,
         OnDisk(old, n, created)
  PROVE  OnDisk(new, n, created)
<1>1. /\ Len(old) \in Nat /\ Len(new) = Len(old) + 1 /\ new[Len(old) + 1] = line
      /\ \A k \in 1 .. Len(old) : new[k] = old[k]
  OBVIOUS
<1>2. \A k \in 1 .. n : new[k] = old[k]
  BY <1>1
<1> SUFFICES ASSUME \A k \in 1 .. n : new[k].form # "torn" PROVE OnDisk(new, n, created)
  BY DEF OnDisk
<1>3. \A k \in 1 .. n : old[k].form # "torn"
  BY <1>2
<1>4. \A l \in 1 .. Len(created) : \E i \in 1 .. n : new[i].id = created[l]
  BY <1>2, <1>3 DEF OnDisk
<1>5. ASSUME NEW i \in 1 .. Len(new), NEW j \in 1 .. Len(new), NEW k \in 1 .. Len(created), NEW l \in 1 .. Len(created),
             new[i].id = created[k], new[j].id = created[l]
      PROVE  i < j <=> k < l
  <2>1. i # Len(old) + 1 /\ j # Len(old) + 1
    BY <1>1, <1>5
  <2>2. i \in 1 .. Len(old) /\ j \in 1 .. Len(old)
    BY <1>1, <2>1
  <2>3. old[i].id = created[k] /\ old[j].id = created[l]
    BY <1>1, <1>5, <2>2
  <2> QED
    BY <1>3, <2>2, <2>3 DEF OnDisk
<1>6. \A i, j \in 1 .. Len(new), k, l \in 1 .. Len(created) :
         new[i].id = created[k] /\ new[j].id = created[l] => (i < j <=> k < l)
  BY <1>5
<1> QED
  BY <1>4, <1>6 DEF OnDisk

LEMMA WroteOnDisk ==
  ASSUME NEW old \in Seq(Lines), NEW new \in Seq(Lines), NEW c \in Checkpoints, NEW created \in Seq(Checkpoints),
         NEW n \in 0 .. Len(old), \A l \in 1 .. Len(created) : created[l] # c,
         Wrote(old, new, c), OnDisk(old, n, created)
  PROVE  OnDisk(new, n, created)
<1>1. CASE \E form \in {"whole", "unended", "torn"} : new = Append(old, Line(c, form))
  <2>1. PICK form \in {"whole", "unended", "torn"} : new = Append(old, Line(c, form))
    BY <1>1
  <2>2. Line(c, form) \in Lines /\ Line(c, form).id = c
    BY DEF Line, Lines
  <2> QED
    BY <2>1, <2>2, LongerOnDisk
<1>2. CASE /\ Len(new) = Len(old) /\ old # <<>>
           /\ \A k \in 1 .. Len(old) : new[k].id = old[k].id /\ (k < Len(old) => new[k] = old[k])
           /\ new[Len(old)].form = "torn"
  <2>1. \A k \in 1 .. n : old[k].form = "torn" => new[k].form = "torn"
    <3> TAKE k \in 1 .. n
    <3>1. k \in 1 .. Len(old)
      OBVIOUS
    <3>2. CASE k < Len(old)
      BY <1>2, <3>1, <3>2
    <3>3. CASE ~(k < Len(old))
      <4>1. k = Len(old)
        BY <3>1, <3>3
      <4> QED
        BY <1>2, <4>1
    <3> QED
      BY <3>2, <3>3
  <2> QED
    BY <1>2, <2>1, SameOnDisk
<1> QED
  BY <1>1, <1>2 DEF Wrote

\* What a write leaves in the file.
LEMMA WriteWrote ==
  ASSUME lines \in Seq(Lines), NEW c \in Checkpoints, NEW form \in {"whole", "unended", "torn"}
  PROVE  Wrote(lines, Write(c, form), c)
<1>1. CASE lines # <<>> /\ Last(lines).form # "whole"
  <2> DEFINE n == Len(lines)
             front == SubSeq(lines, 1, n - 1)
             line == Line(lines[n].id, "torn")
             new == Append(front, line)
  <2>1. n \in Nat \ {0} /\ Write(c, form) = new
    BY <1>1 DEF Write, Last, Front
  <2>2. line.id = lines[n].id /\ line.form = "torn"
    BY DEF Line
  <2> HIDE DEF line
  <2>3. Len(front) = n - 1 /\ \A k \in 1 .. n - 1 : front[k] = lines[k]
    <3> DEFINE m == n - 1
    <3>1. m \in 0 .. Len(lines)
      BY <2>1
    <3> HIDE DEF m
    <3>2. Len(SubSeq(lines, 1, m)) = m /\ \A k \in 1 .. m : SubSeq(lines, 1, m)[k] = lines[k]
      BY <3>1
    <3> QED
      BY <3>2 DEF m
  <2>4. front \in Seq(Lines)
    <3> DEFINE m == n - 1
    <3>1. m \in 0 .. Len(lines)
      BY <2>1
    <3> HIDE DEF m
    <3>2. SubSeq(lines, 1, m) \in Seq(Lines)
      BY <3>1
    <3> QED
      BY <3>2 DEF m
  <2> HIDE DEF front
  <2>5. Len(new) = n /\ new[n] = line /\ \A k \in 1 .. n - 1 : new[k] = lines[k]
    BY <2>1, <2>3, <2>4
  <2> HIDE DEF new
  <2>6. \A k \in 1 .. n : new[k].id = lines[k].id /\ (k < n => new[k] = lines[k])
    <3> TAKE k \in 1 .. n
    <3>1. CASE k = n
      BY <2>1, <2>2, <2>5, <3>1
    <3>2. CASE k # n
      <4>1. k \in 1 .. n - 1
        BY <2>1, <3>2
      <4> QED
        BY <2>5, <4>1
    <3> QED
      BY <3>1, <3>2
  <2> QED
    BY <1>1, <2>1, <2>2, <2>5, <2>6 DEF Wrote
<1>2. CASE ~(lines # <<>> /\ Last(lines).form # "whole")
  BY <1>2 DEF Write, Wrote
<1> QED
  BY <1>1, <1>2

\* A write adds no other id than its own.
LEMMA WroteIds ==
  ASSUME NEW old \in Seq(Lines), NEW new \in Seq(Lines), NEW c \in Checkpoints, Wrote(old, new, c)
  PROVE  Ids(new) \subseteq Ids(old) \cup {c}
<1>1. CASE \E form \in {"whole", "unended", "torn"} : new = Append(old, Line(c, form))
  BY <1>1, OneMoreLine
<1>2. CASE Len(new) = Len(old) /\ \A k \in 1 .. Len(old) : new[k].id = old[k].id
  BY <1>2 DEF Ids
<1> QED
  BY <1>1, <1>2 DEF Wrote

\* The last checkpoint created is the last in the index.
LEMMA OneMoreInOrder ==
  ASSUME NEW ids \in Seq(Checkpoints), NEW created \in Seq(Checkpoints), NEW c \in Checkpoints,
         NEW more, more = Append(ids, c), NEW older, older = Append(created, c),
         \A k \in 1 .. Len(ids) : ids[k] # c, \A k \in 1 .. Len(created) : created[k] # c,
         Ordered(ids, created)
  PROVE  Ordered(more, older)
<1> DEFINE m == Len(ids)  n == Len(created)
<1>1. /\ m \in Nat /\ Len(more) = m + 1 /\ more[m + 1] = c /\ DOMAIN more = 1 .. m + 1
      /\ \A k \in 1 .. m : more[k] = ids[k]
  OBVIOUS
<1>2. /\ n \in Nat /\ Len(older) = n + 1 /\ older[n + 1] = c /\ DOMAIN older = 1 .. n + 1
      /\ \A k \in 1 .. n : older[k] = created[k]
  OBVIOUS
<1>3. DOMAIN ids = 1 .. m /\ DOMAIN created = 1 .. n
  OBVIOUS
<1>4. \A k \in 1 .. m : ids[k] # c
  OBVIOUS
<1>5. \A k \in 1 .. n : created[k] # c
  OBVIOUS
<1> HIDE DEF m, n
<1>6. Range(older) \subseteq Range(more)
  <2>0. /\ Range(older) = {older[l] : l \in 1 .. n + 1}
        /\ Range(more) = {more[i] : i \in 1 .. m + 1}
    BY <1>1, <1>2, Zenon DEF Range
  <2> SUFFICES ASSUME NEW l \in 1 .. n + 1 PROVE \E i \in 1 .. m + 1 : more[i] = older[l]
    BY <2>0, Zenon
  <2>1. CASE l = n + 1
    BY <1>1, <1>2, <2>1
  <2>2. CASE l # n + 1
    <3>1. l \in 1 .. n
      BY <1>2, <2>2
    <3>2. PICK i \in 1 .. m : ids[i] = created[l]
      BY <1>3, <3>1 DEF Ordered, Range
    <3> QED
      BY <1>1, <1>2, <3>1, <3>2
  <2> QED
    BY <2>1, <2>2
<1>7. \A i \in 1 .. m + 1 : more[i] = IF i = m + 1 THEN c ELSE ids[i]
  BY <1>1
<1>8. \A k \in 1 .. n + 1 : older[k] = IF k = n + 1 THEN c ELSE created[k]
  BY <1>2
<1>9. \A i, j \in 1 .. m + 1, k, l \in 1 .. n + 1 : more[i] = older[k] /\ more[j] = older[l] => (i < j <=> k < l)
  <2> SUFFICES ASSUME NEW i \in 1 .. m + 1, NEW j \in 1 .. m + 1, NEW k \in 1 .. n + 1, NEW l \in 1 .. n + 1,
                      more[i] = older[k], more[j] = older[l]
               PROVE  i < j <=> k < l
    OBVIOUS
  <2>1. (i = m + 1 <=> k = n + 1) /\ (j = m + 1 <=> l = n + 1)
    <3>1. \A x \in 1 .. m + 1 : x # m + 1 => x \in 1 .. m
      BY <1>1
    <3>2. \A x \in 1 .. n + 1 : x # n + 1 => x \in 1 .. n
      BY <1>2
    <3> QED
      BY <1>4, <1>5, <1>7, <1>8, <3>1, <3>2
  <2>2. CASE i = m + 1 \/ j = m + 1
    BY <1>1, <1>2, <2>1, <2>2
  <2>3. CASE i # m + 1 /\ j # m + 1
    <3>1. (\A x \in 1 .. m + 1 : x # m + 1 => x \in 1 .. m) /\ (\A x \in 1 .. n + 1 : x # n + 1 => x \in 1 .. n)
      BY <1>1, <1>2
    <3>2. i \in 1 .. m /\ j \in 1 .. m /\ k \in 1 .. n /\ l \in 1 .. n
      BY <2>1, <2>3, <3>1
    <3>3. more[i] = ids[i] /\ more[j] = ids[j] /\ older[k] = created[k] /\ older[l] = created[l]
      BY <1>1, <1>2, <3>2
    <3>4. \A x, y \in 1 .. m, u, v \in 1 .. n : ids[x] = created[u] /\ ids[y] = created[v] => (x < y <=> u < v)
      BY <1>3 DEF Ordered
    <3> QED
      BY <3>2, <3>3, <3>4
  <2> QED
    BY <2>2, <2>3
<1> QED
  BY <1>1, <1>2, <1>6, <1>9 DEF Ordered

\* The same of the file, when the new line is synced.
LEMMA OneMoreOnDisk ==
  ASSUME NEW old \in Seq(Lines), NEW new \in Seq(Lines), NEW created \in Seq(Checkpoints), NEW c \in Checkpoints,
         NEW older, older = Append(created, c),
         c \notin Ids(old), \A k \in 1 .. Len(created) : created[k] # c,
         Wrote(old, new, c), OnDisk(new, Len(new), created)
  PROVE  OnDisk(new, Len(new), older)
<1> DEFINE m == Len(new)  n == Len(created)
<1> SUFFICES ASSUME \A k \in 1 .. m : new[k].form # "torn" PROVE OnDisk(new, m, older)
  BY DEF OnDisk
<1>1. PICK form \in {"whole", "unended", "torn"} : new = Append(old, Line(c, form))
  <2>1. CASE Len(new) = Len(old) /\ old # <<>> /\ new[Len(old)].form = "torn"
    BY <2>1
  <2> QED
    BY <2>1 DEF Wrote
<1>2. /\ m \in Nat \ {0} /\ new[m].id = c
      /\ \A k \in 1 .. m : k # m => new[k].id # c
  <2>1. Line(c, form) \in Lines /\ Line(c, form).id = c
    BY DEF Line, Lines
  <2>2. Len(old) \in Nat /\ m = Len(old) + 1 /\ new[m] = Line(c, form) /\ \A k \in 1 .. Len(old) : new[k] = old[k]
    BY <1>1, <2>1
  <2>3. \A k \in 1 .. Len(old) : old[k].id # c
    BY DEF Ids
  <2>4. \A k \in 1 .. m : k # m => k \in 1 .. Len(old)
    BY <2>2
  <2> QED
    BY <2>1, <2>2, <2>3, <2>4
<1>3. /\ n \in Nat /\ Len(older) = n + 1 /\ older[n + 1] = c
      /\ \A k \in 1 .. n : older[k] = created[k]
  OBVIOUS
<1>4. \A l \in 1 .. n : \E i \in 1 .. m : new[i].id = created[l]
  BY DEF OnDisk
<1>5. \A i, j \in 1 .. m, k, l \in 1 .. n : new[i].id = created[k] /\ new[j].id = created[l] => (i < j <=> k < l)
  BY DEF OnDisk
<1>6. \A k \in 1 .. n : created[k] # c
  OBVIOUS
<1> HIDE DEF m, n
<1>7. \A k \in 1 .. n + 1 : k # n + 1 => k \in 1 .. n
  BY <1>3
<1>8. \A l \in 1 .. n + 1 : \E i \in 1 .. m : new[i].id = older[l]
  <2> TAKE l \in 1 .. n + 1
  <2>1. CASE l = n + 1
    <3>1. m \in 1 .. m
      BY <1>2
    <3> QED
      BY <1>2, <1>3, <2>1, <3>1
  <2>2. CASE l # n + 1
    BY <1>3, <1>4, <1>7, <2>2
  <2> QED
    BY <2>1, <2>2
<1>9. \A i, j \in 1 .. m, k, l \in 1 .. n + 1 : new[i].id = older[k] /\ new[j].id = older[l] => (i < j <=> k < l)
  <2> SUFFICES ASSUME NEW i \in 1 .. m, NEW j \in 1 .. m, NEW k \in 1 .. n + 1, NEW l \in 1 .. n + 1,
                      new[i].id = older[k], new[j].id = older[l]
               PROVE  i < j <=> k < l
    OBVIOUS
  <2>1. (i = m <=> k = n + 1) /\ (j = m <=> l = n + 1)
    BY <1>2, <1>3, <1>6, <1>7
  <2>2. CASE i = m \/ j = m
    BY <1>2, <1>3, <2>1, <2>2
  <2>3. CASE i # m /\ j # m
    <3>1. k \in 1 .. n /\ l \in 1 .. n
      BY <1>7, <2>1, <2>3
    <3> QED
      BY <1>3, <1>5, <3>1
  <2> QED
    BY <2>2, <2>3
<1> QED
  BY <1>3, <1>8, <1>9 DEF OnDisk, m

LEMMA OrderInit == Init => OrderInv
<1> SUFFICES ASSUME Init PROVE OrderInv
  OBVIOUS
<1>1. lines = <<>> /\ synced = 0 /\ pc = "closed" /\ returned = <<>> /\ index = <<>>
  BY DEF Init
<1>2. OnDisk(lines, synced, returned)
  BY <1>1 DEF OnDisk
<1> QED
  BY <1>1, <1>2 DEF OrderInv, InOrder, Opened, Knows

\* The index read is what the file has, when no line of it is torn.
LEMMA OpenOrder == TInv /\ OrderInv /\ (Open \/ Close) => OrderInv'
<1> SUFFICES ASSUME TInv, OrderInv, Open \/ Close PROVE OrderInv'
  OBVIOUS
<1>1. UNCHANGED <<lines, synced, below, current, returned, rejected>>
  BY DEF Open, Close, disk, history
<1>2. OnDisk(lines, synced, returned)'
  BY <1>1 DEF OrderInv
<1>3. CASE pc' \in {"closed", "corrupted"}
  BY <1>1, <1>2, <1>3 DEF OrderInv, InOrder, Opened, Knows
<1>4. CASE pc' \notin {"closed", "corrupted"}
  <2>1. /\ \A k \in 1 .. Len(lines) : lines[k].form # "torn"
        /\ index' = [k \in 1 .. Len(lines) |-> lines[k].id] /\ pc' = "idle"
    BY <1>4 DEF Open, Listed, Close
  <2>2. Len(lines) \in Nat /\ synced \in 0 .. Len(lines) /\ Len(returned) \in Nat /\ DOMAIN returned = 1 .. Len(returned)
    BY DEF TInv, TypeOK
  <2>3. Len(index') = Len(lines) /\ DOMAIN index' = 1 .. Len(lines)
        /\ \A k \in 1 .. Len(lines) : index'[k] = lines[k].id
    BY <2>1, <2>2
  <2>4. \A k \in 1 .. synced : k \in 1 .. Len(lines) /\ lines[k].form # "torn"
    BY <2>1, <2>2
  <2>5. Range(returned) \subseteq Range(index')
    <3>1. \A l \in 1 .. Len(returned) : \E i \in 1 .. Len(lines) : lines[i].id = returned[l]
      BY <2>4 DEF OrderInv, OnDisk
    <3> QED
      BY <2>2, <2>3, <3>1 DEF Range
  <2>6. \A i, j \in 1 .. Len(lines), k, l \in 1 .. Len(returned) :
           index'[i] = returned[k] /\ index'[j] = returned[l] => (i < j <=> k < l)
    BY <2>3, <2>4 DEF OrderInv, OnDisk
  <2>7. Ordered(index, returned)'
    BY <1>1, <2>2, <2>3, <2>5, <2>6 DEF Ordered
  <2>8. Indexed' = Ids(lines)
    BY <2>3 DEF Indexed, Ids
  <2> QED
    BY <1>1, <1>2, <2>1, <2>7, <2>8 DEF OrderInv, InOrder, Knows
<1> QED
  BY <1>3, <1>4

LEMMA FileOrder ==
  ASSUME TInv, OrderInv, NEW c \in Checkpoints, WriteFile(c) \/ WriteFileFails(c) \/ Harden(c)
  PROVE  OrderInv'
<1>1. UNCHANGED <<lines, synced, index, below, returned>>
  BY DEF WriteFile, WriteFileFails, Harden, memory, history
<1>2. Indexed' = Indexed /\ Returned' = Returned /\ Ids(lines)' = Ids(lines) /\ Ids(below)' = Ids(below)
  BY <1>1 DEF Indexed, Returned
<1>3. OnDisk(lines, synced, returned)' /\ Ordered(index, returned)' = Ordered(index, returned)
  BY <1>1 DEF OrderInv
<1>4. CASE Harden(c)
  <2>1. UNCHANGED <<pc, current, rejected>>
    BY <1>4 DEF Harden, memory, history
  <2> QED
    BY <1>1, <1>2, <1>3, <2>1 DEF OrderInv, InOrder, Opened, Knows
<1>5. CASE WriteFile(c)
  <2>1. /\ pc = "idle" /\ pc' = "append" /\ current' = c /\ rejected' = rejected
        /\ c \notin Indexed \cup rejected \cup Returned
    BY <1>5 DEF WriteFile, history, Used
  <2>2. Ordered(index, returned)
    BY <2>1 DEF OrderInv, InOrder, Opened
  <2>3. Ids(lines) \subseteq Indexed \cup rejected
    BY <2>1 DEF OrderInv, Knows
  <2> QED
    BY <1>1, <1>2, <1>3, <2>1, <2>2, <2>3 DEF OrderInv, InOrder, Opened, Knows
<1>6. CASE WriteFileFails(c)
  <2>1. pc = "idle" /\ pc' = "idle" /\ rejected' = rejected \cup {c}
    BY <1>6 DEF WriteFileFails
  <2>2. Ordered(index, returned)
    BY <2>1 DEF OrderInv, InOrder, Opened
  <2>3. Ids(lines) \subseteq Indexed \cup rejected
    BY <2>1 DEF OrderInv, Knows
  <2> QED
    BY <1>1, <1>2, <1>3, <2>1, <2>2, <2>3 DEF OrderInv, InOrder, Opened, Knows
<1> QED
  BY <1>4, <1>5, <1>6

\* What is written in the index is the line of a checkpoint that has not been created.
LEMMA AppendOrder == TInv /\ OrderInv /\ (AppendLine \/ AppendLineFails) => OrderInv'
<1> SUFFICES ASSUME TInv, OrderInv, AppendLine \/ AppendLineFails PROVE OrderInv'
  OBVIOUS
<1>1. /\ pc = "append" /\ below' = lines /\ UNCHANGED <<synced, index, current, returned, rejected>>
      /\ pc' \in {"sync", "undo"}
  BY DEF AppendLine, AppendLineFails, history
<1>2. lines \in Seq(Lines) /\ current \in Checkpoints /\ synced \in 0 .. Len(lines) /\ returned \in Seq(Checkpoints)
  BY <1>1 DEF TInv, TypeOK
<1>3. TInv'
  BY AppendType
<1>4. (pc' = "undo" /\ lines' = lines) \/ Wrote(lines, lines', current)
  <2>1. CASE AppendLine
    BY <1>2, <2>1, WriteWrote DEF AppendLine
  <2>2. CASE AppendLineFails
    BY <1>2, <2>2, WriteWrote DEF AppendLineFails
  <2> QED
    BY <2>1, <2>2
<1>5. OnDisk(lines, synced, returned) /\ Ordered(index, returned)
  BY <1>1 DEF OrderInv, InOrder, Opened
<1>6. current \notin Indexed \cup rejected \cup Returned /\ Ids(lines) \subseteq Indexed \cup rejected
  BY <1>1 DEF OrderInv, Knows
<1>7. OnDisk(lines', synced, returned)
  <2>1. \A l \in 1 .. Len(returned) : returned[l] # current
    BY <1>6 DEF Returned
  <2>2. lines' \in Seq(Lines)
    BY <1>3 DEF TInv, TypeOK
  <2> QED
    BY <1>2, <1>4, <1>5, <2>1, <2>2, WroteOnDisk
<1>8. pc' = "sync" => Wrote(lines, lines', current)
  BY <1>4
<1> QED
  BY <1>1, <1>4, <1>5, <1>6, <1>7, <1>8 DEF OrderInv, InOrder, Opened, Knows, Indexed, Returned

\* What is synced is all there is.
LEMMA SyncOrder == TInv /\ OrderInv /\ (Sync \/ SyncFails) => OrderInv'
<1> SUFFICES ASSUME TInv, OrderInv, Sync \/ SyncFails PROVE OrderInv'
  OBVIOUS
<1>1. pc = "sync" /\ UNCHANGED <<lines, index, below, current, returned, rejected>>
  BY DEF Sync, SyncFails, disk, memory, history
<1>2. Indexed' = Indexed /\ Returned' = Returned
  BY <1>1 DEF Indexed, Returned
<1>3. OnDisk(lines, synced, returned) /\ Ordered(index, returned) /\ Wrote(below, lines, current)
  BY <1>1 DEF OrderInv, InOrder, Opened
<1>4. Knows /\ current \notin Indexed \cup rejected \cup Returned /\ Ids(below) \subseteq Indexed \cup rejected
  BY <1>1 DEF OrderInv, Knows
<1>5. CASE Sync
  <2>1. synced' = Len(lines) /\ pc' = "return"
    BY <1>5 DEF Sync
  <2>2. OnDisk(lines, Len(lines), returned)
    <3>1. synced \in 0 .. Len(lines)
      BY DEF TInv, TypeOK
    <3>2. Len(lines) \in Nat
      BY DEF TInv, TypeOK
    <3>3. \A k \in 1 .. synced : k \in 1 .. Len(lines)
      BY <3>1, <3>2
    <3> QED
      BY <1>3, <3>3 DEF OnDisk
  <2> QED
    BY <1>1, <1>2, <1>3, <1>4, <2>1, <2>2 DEF OrderInv, InOrder, Opened, Knows
<1>6. CASE SyncFails
  <2>1. synced' = synced /\ pc' = "undo"
    BY <1>6 DEF SyncFails, disk
  <2>2. OnDisk(below, synced, returned)
    BY <1>1 DEF OrderInv
  <2> QED
    BY <1>1, <1>2, <1>3, <1>4, <2>1, <2>2 DEF OrderInv, InOrder, Opened, Knows
<1> QED
  BY <1>5, <1>6

\* The checkpoint created has the last line, and the last place in the index.
LEMMA ReturnOrder == TInv /\ OrderInv /\ Return => OrderInv'
<1> SUFFICES ASSUME TInv, OrderInv, Return PROVE OrderInv'
  OBVIOUS
<1>1. /\ pc = "return" /\ pc' = "idle" /\ UNCHANGED <<lines, synced, rejected>>
      /\ index' = Append(index, current) /\ returned' = Append(returned, current)
  BY DEF Return, disk
<1>2. /\ lines \in Seq(Lines) /\ below \in Seq(Lines) /\ current \in Checkpoints /\ synced = Len(lines)
      /\ index \in Seq(Checkpoints) /\ returned \in Seq(Checkpoints)
  BY <1>1 DEF TInv, TypeOK, OrderInv
<1>3. OnDisk(lines, Len(lines), returned) /\ Ordered(index, returned) /\ Wrote(below, lines, current)
  BY <1>1, <1>2 DEF OrderInv, InOrder, Opened
<1>4. current \notin Indexed \cup rejected \cup Returned /\ Ids(below) \subseteq Indexed \cup rejected
  BY <1>1 DEF OrderInv, Knows
<1>5. (\A l \in 1 .. Len(returned) : returned[l] # current) /\ (\A l \in 1 .. Len(index) : index[l] # current)
  BY <1>4 DEF Returned, Indexed
<1>6. OnDisk(lines, Len(lines), returned')
  BY <1>1, <1>2, <1>3, <1>4, <1>5, OneMoreOnDisk
<1>7. Ordered(index', returned')
  BY <1>1, <1>2, <1>3, <1>5, OneMoreInOrder
<1>8. Ids(lines) \subseteq Indexed' \cup rejected
  <2>1. {index'[k] : k \in 1 .. Len(index')} = {index[k] : k \in 1 .. Len(index)} \cup {current}
    <3>1. index' = Append(index, current) /\ index \in Seq(Checkpoints) /\ current \in Checkpoints
      BY <1>1, <1>2
    <3> QED
      BY <3>1, OneMoreIndexed
  <2>2. Indexed' = Indexed \cup {current}
    BY <2>1 DEF Indexed
  <2> QED
    BY <1>2, <1>3, <1>4, <2>2, WroteIds
<1> QED
  BY <1>1, <1>2, <1>6, <1>7, <1>8 DEF OrderInv, InOrder, Opened, Knows

\* What is undone had been refused, and is refused after it.
LEMMA UndoOrder == TInv /\ OrderInv /\ (Undo \/ RemoveFile) => OrderInv'
<1> SUFFICES ASSUME TInv, OrderInv, Undo \/ RemoveFile PROVE OrderInv'
  OBVIOUS
<1>1. UNCHANGED <<synced, index, below, returned>>
  BY DEF Undo, RemoveFile, memory
<1>2. Indexed' = Indexed /\ Returned' = Returned
  BY <1>1 DEF Indexed, Returned
<1>3. Ordered(index, returned)
  BY DEF Undo, RemoveFile, OrderInv, InOrder, Opened
<1>4. CASE Undo
  <2>1. pc = "undo" /\ pc' = "remove" /\ lines' \in {lines, below} /\ UNCHANGED <<current, rejected>>
    BY <1>4 DEF Undo, memory
  <2>2. OnDisk(lines', synced, returned)
    BY <2>1 DEF OrderInv
  <2>3. Ids(lines') \subseteq Indexed \cup rejected \cup {current}
    <3>1. Ids(below) \subseteq Indexed \cup rejected /\ (lines = below \/ Wrote(below, lines, current))
      BY <2>1 DEF OrderInv, Knows
    <3>2. below \in Seq(Lines) /\ lines \in Seq(Lines) /\ current \in Checkpoints
      BY <2>1 DEF TInv, TypeOK
    <3>3. Ids(lines) \subseteq Ids(below) \cup {current}
      BY <3>1, <3>2, WroteIds
    <3> QED
      BY <2>1, <3>1, <3>3
  <2>4. current \notin Indexed \cup rejected \cup Returned
    BY <2>1 DEF OrderInv, Knows
  <2> QED
    BY <1>1, <1>2, <1>3, <2>1, <2>2, <2>3, <2>4 DEF OrderInv, InOrder, Opened, Knows
<1>5. CASE RemoveFile
  <2>1. pc = "remove" /\ pc' = "idle" /\ lines' = lines /\ rejected' = rejected \cup {current}
    BY <1>5 DEF RemoveFile
  <2>2. OnDisk(lines, synced, returned) /\ Ids(lines) \subseteq Indexed \cup rejected \cup {current}
    BY <2>1 DEF OrderInv, Knows
  <2> QED
    BY <1>1, <1>2, <1>3, <2>1, <2>2 DEF OrderInv, InOrder, Opened, Knows
<1> QED
  BY <1>4, <1>5

\* No stop takes a line that was synced: what a power failure leaves begins with them.
LEMMA StopOrder == TInv /\ OrderInv /\ (Killed \/ PowerFails) => OrderInv'
<1> SUFFICES ASSUME TInv, OrderInv, Killed \/ PowerFails PROVE OrderInv'
  OBVIOUS
<1>1. pc' = "closed" /\ returned' = returned
  BY DEF Killed, PowerFails, Stopped
<1>2. OnDisk(lines, synced, returned)
  BY DEF OrderInv
<1>3. OnDisk(lines', synced', returned)
  <2>1. CASE Killed
    BY <1>2, <2>1 DEF Killed, disk
  <2>2. CASE PowerFails
    <3>1. PICK kept \in synced .. Len(lines) :
            \/ lines' = SubSeq(lines, 1, kept)
            \/ /\ kept < Len(lines)
               /\ \E form \in {"unended", "torn"} :
                    lines' = Append(SubSeq(lines, 1, kept), Line(lines[kept + 1].id, form))
      BY <2>2 DEF PowerFails
    <3>2. lines \in Seq(Lines) /\ synced \in 0 .. Len(lines) /\ synced' = Len(lines')
      BY <2>2 DEF TInv, TypeOK, PowerFails
    <3>3. kept \in 0 .. Len(lines) /\ synced <= kept /\ kept \in Nat /\ Len(lines) \in Nat
      BY <3>1, <3>2
    <3> DEFINE first == SubSeq(lines, 1, kept)
    <3>4. first \in Seq(Lines) /\ Len(first) = kept /\ \A k \in 1 .. kept : first[k] = lines[k]
      BY <3>2, <3>3
    <3> HIDE DEF first
    <3>5. /\ Len(lines') \in Nat /\ kept <= Len(lines') /\ Len(lines') <= Len(lines)
          /\ \A k \in 1 .. kept : lines'[k] = lines[k]
          /\ \A k \in 1 .. Len(lines') : lines'[k].id = lines[k].id
      <4>1. CASE lines' = first
        BY <3>3, <3>4, <4>1
      <4>2. CASE kept < Len(lines) /\ \E form \in {"unended", "torn"} : lines' = Append(first, Line(lines[kept + 1].id, form))
        <5>1. PICK form \in {"unended", "torn"} : lines' = Append(first, Line(lines[kept + 1].id, form))
          BY <4>2
        <5> DEFINE line == Line(lines[kept + 1].id, form)
        <5>2. line.id = lines[kept + 1].id
          BY DEF Line
        <5> HIDE DEF line
        <5>3. Len(lines') = kept + 1 /\ lines'[kept + 1] = line /\ \A k \in 1 .. kept : lines'[k] = first[k]
          BY <3>3, <3>4, <5>1 DEF line
        <5>4. \A k \in 1 .. kept + 1 : k # kept + 1 => k \in 1 .. kept
          BY <3>3
        <5>5. \A k \in 1 .. kept + 1 : lines'[k].id = lines[k].id
          BY <3>4, <5>2, <5>3, <5>4
        <5> QED
          BY <3>3, <3>4, <4>2, <5>3, <5>5
      <4> QED
        BY <3>1, <4>1, <4>2 DEF first
    <3>6. \A k \in 1 .. synced : k \in 1 .. kept /\ k \in 1 .. Len(lines')
      BY <3>2, <3>3, <3>5
    <3> SUFFICES ASSUME \A k \in 1 .. Len(lines') : lines'[k].form # "torn" PROVE OnDisk(lines', Len(lines'), returned)
      BY <3>2 DEF OnDisk
    <3>7. \A k \in 1 .. synced : lines[k].form # "torn"
      BY <3>5, <3>6
    <3>8. \A l \in 1 .. Len(returned) : \E i \in 1 .. Len(lines') : lines'[i].id = returned[l]
      BY <1>2, <3>5, <3>6, <3>7 DEF OnDisk
    <3>9. \A i \in 1 .. Len(lines') : i \in 1 .. Len(lines)
      BY <3>3, <3>5
    <3>10. \A i, j \in 1 .. Len(lines'), k, l \in 1 .. Len(returned) :
             lines'[i].id = returned[k] /\ lines'[j].id = returned[l] => (i < j <=> k < l)
      BY <1>2, <3>5, <3>7, <3>9 DEF OnDisk
    <3> QED
      BY <3>8, <3>10 DEF OnDisk
  <2> QED
    BY <2>1, <2>2
<1> QED
  BY <1>1, <1>3 DEF OrderInv, InOrder, Opened, Knows

LEMMA OrderStep == TInv /\ OrderInv /\ [Next]_vars => OrderInv'
<1> SUFFICES ASSUME TInv, OrderInv, [Next]_vars PROVE OrderInv'
  OBVIOUS
<1>1. CASE UNCHANGED vars
  BY <1>1 DEF vars, disk, memory, history, OrderInv, InOrder, Opened, Knows, Indexed, Returned
<1> QED
  BY <1>1, OpenOrder, FileOrder, AppendOrder, SyncOrder, ReturnOrder, UndoOrder, StopOrder DEF Next

LEMMA OrderAlways == Spec => [](TInv /\ OrderInv)
<1>1. Init => TInv /\ OrderInv
  BY TypeInit, OrderInit
<1>2. TInv /\ OrderInv /\ [Next]_vars => (TInv /\ OrderInv)'
  BY TypeStep, OrderStep
<1> QED
  BY <1>1, <1>2, PTL DEF Spec

\* Whatever calls fail, and after any stop, of the power too, a store that opens has all the
\* checkpoints it created, in the order in which it created them.
THEOREM LatestIsLast == Spec => []InOrder
<1>1. TInv /\ OrderInv => InOrder
  BY DEF OrderInv
<1> QED
  BY <1>1, OrderAlways, PTL

-----------------------------------------------------------------------------
(* The store is a log.                                                     *)

\* What is read of lines is of checkpoints, has the ids of all of them, and one more
\* with one more line.
LEMMA ListedLines ==
  ASSUME NEW ls \in Seq(Lines)
  PROVE  /\ Listed(ls) \in Seq(Checkpoints) /\ Range(Listed(ls)) = Ids(ls)
         /\ \A c \in Checkpoints, form \in {"whole", "unended", "torn"} :
              Listed(Append(ls, Line(c, form))) = Append(Listed(ls), c)
<1> DEFINE L == Listed(ls)
<1>1. Len(ls) \in Nat /\ DOMAIN ls = 1 .. Len(ls) /\ \A k \in 1 .. Len(ls) : ls[k].id \in Checkpoints
  <2>1. \A k \in 1 .. Len(ls) : ls[k] \in Lines
    OBVIOUS
  <2> QED
    BY <2>1 DEF Lines
<1>2. L \in [1 .. Len(ls) -> Checkpoints] /\ \A k \in 1 .. Len(ls) : L[k] = ls[k].id
  BY <1>1 DEF Listed
<1> HIDE DEF L
<1>3. L \in Seq(Checkpoints) /\ Len(L) = Len(ls) /\ DOMAIN L = 1 .. Len(ls)
  BY <1>1, <1>2
<1>4. Range(L) = Ids(ls)
  BY <1>2, <1>3 DEF Range, Ids
<1>5. ASSUME NEW c \in Checkpoints, NEW form \in {"whole", "unended", "torn"}
      PROVE  Listed(Append(ls, Line(c, form))) = Append(L, c)
  <2> DEFINE more == Append(ls, Line(c, form))
             M == Listed(more)
  <2>1. /\ more \in Seq(Lines) /\ Len(more) = Len(ls) + 1
        /\ \A k \in 1 .. Len(ls) : more[k] = ls[k]
        /\ more[Len(ls) + 1].id = c
    BY <1>1 DEF Line, Lines
  <2> HIDE DEF more
  <2>2. M = [k \in 1 .. Len(ls) + 1 |-> more[k].id]
    BY <2>1 DEF Listed
  <2>3. DOMAIN Append(L, c) = 1 .. Len(ls) + 1 /\ Append(L, c)[Len(ls) + 1] = c
        /\ \A k \in 1 .. Len(ls) : Append(L, c)[k] = L[k]
    BY <1>3
  <2>4. Append(L, c) = [k \in 1 .. Len(ls) + 1 |-> Append(L, c)[k]]
    <3> DEFINE A == Append(L, c)
    <3>1. A \in Seq(Checkpoints) /\ Len(A) = Len(ls) + 1
      BY <1>3
    <3> HIDE DEF A
    <3>2. A \in [1 .. Len(ls) + 1 -> Checkpoints]
      BY <3>1
    <3> QED
      BY <3>2 DEF A
  <2>5. \A k \in 1 .. Len(ls) + 1 : Append(L, c)[k] = more[k].id
    <3>1. \A k \in 1 .. Len(ls) + 1 : k \in 1 .. Len(ls) \/ k = Len(ls) + 1
      BY <1>1
    <3> QED
      BY <1>2, <2>1, <2>3, <3>1
  <2> QED
    BY <2>2, <2>4, <2>5 DEF more, M
<1> QED
  BY <1>3, <1>4, <1>5 DEF L

\* What a process is shown is the log, and only a call under way has a checkpoint.
LogInv ==
  ~spoiled => /\ index = IF Opened THEN Listed(Settled) ELSE <<>>
              /\ pc \in {"closed", "idle"} => current = None

LEMMA LogInit == Init => LogInv /\ Promised!Init
<1> SUFFICES ASSUME Init PROVE LogInv /\ Promised!Init
  OBVIOUS
<1>1. Listed(<<>>) = <<>>
  BY DEF Listed
<1> QED
  BY <1>1 DEF Init, LogInv, Opened, Settled, Promised!Init

\* The steps that are one step of the log or none, while the promise is kept.
Kept == (Promised!Next \/ UNCHANGED Promised!vars) /\ LogInv'

LEMMA OpenLog ==
  ASSUME TInv, SafeInv, LogInv, ~spoiled', Open \/ Close
  PROVE  Kept
<1>1. ~spoiled /\ UNCHANGED <<disk, current, below, returned, rejected>>
  BY DEF Open, Close, history
<1>2. Settled = lines /\ Settled' = lines
  BY <1>1 DEF Open, Close, Settled, disk
<1>3. CASE Open
  <2>1. AllWhole(lines)
    BY <1>1, <1>2 DEF SafeInv
  <2>2. pc = "closed" /\ pc' = "idle" /\ index' = Listed(lines)
    BY <1>3, <2>1 DEF Open, AllWhole
  <2>3. Promised!Open
    BY <1>1, <1>2, <2>2 DEF Promised!Open, Opened
  <2> QED
    BY <1>1, <1>2, <2>2, <2>3 DEF Kept, LogInv, Opened, Promised!Next
<1>4. CASE Close
  <2>1. pc = "idle" /\ pc' = "closed" /\ index' = <<>>
    BY <1>4 DEF Close
  <2>2. Promised!Close
    BY <1>1, <1>2, <2>1 DEF Promised!Close, Opened, LogInv
  <2> QED
    BY <1>1, <1>2, <2>1, <2>2 DEF Kept, LogInv, Opened, Promised!Next
<1> QED
  BY <1>3, <1>4

LEMMA FileLog ==
  ASSUME TInv, SafeInv, LogInv, ~spoiled', NEW c \in Checkpoints, WriteFile(c) \/ WriteFileFails(c)
  PROVE  Kept
<1>1. /\ ~spoiled /\ pc = "idle" /\ c \notin Used /\ current = None
      /\ UNCHANGED <<lines, index, below, spoiled>>
  BY DEF WriteFile, WriteFileFails, history, memory, LogInv
<1>2. pc' \in {"idle", "append"} /\ Settled = lines /\ Settled' = lines
  BY <1>1 DEF WriteFile, WriteFileFails, Settled
<1>3. c \notin Range(Listed(lines)) /\ c \notin rejected
  BY <1>1, <1>2, ListedLines DEF SafeInv, Opened, Used, TInv, TypeOK
<1>4. CASE WriteFile(c)
  <2>1. Promised!Begin(c)
    BY <1>1, <1>2, <1>3, <1>4 DEF WriteFile, history, Promised!Begin, Promised!IsNew, Promised!Range, Range, Opened
  <2> QED
    BY <1>1, <1>2, <1>4, <2>1 DEF WriteFile, Kept, LogInv, Opened, Promised!Next
<1>5. CASE WriteFileFails(c)
  <2>1. Promised!Refuse(c)
    BY <1>1, <1>2, <1>3, <1>5 DEF WriteFileFails, memory, Promised!Refuse, Promised!IsNew, Promised!Range, Range, Opened
  <2> QED
    BY <1>1, <1>2, <1>5, <2>1 DEF WriteFileFails, memory, Kept, LogInv, Opened, Promised!Next
<1> QED
  BY <1>4, <1>5

\* Until it returns, what a call does to the file is no step of the log.
LEMMA LineLog ==
  ASSUME TInv, SafeInv, LogInv, ~spoiled',
         AppendLine \/ AppendLineFails \/ Sync \/ SyncFails \/ Undo \/ \E c \in Checkpoints : Harden(c)
  PROVE  Kept
<1>1. ~spoiled /\ UNCHANGED <<index, current, rejected, spoiled>>
  BY DEF AppendLine, AppendLineFails, Sync, SyncFails, Undo, Harden, history, memory
<1>2. Settled' = Settled
  BY <1>1 DEF AppendLine, AppendLineFails, Sync, SyncFails, Undo, Harden, Settled, disk, memory
<1>3. Opened' = Opened /\ (pc' \in {"closed", "idle"} => pc' = pc)
  BY DEF AppendLine, AppendLineFails, Sync, SyncFails, Undo, Harden, Opened
<1> QED
  BY <1>1, <1>2, <1>3 DEF Kept, LogInv, Promised!vars

LEMMA ReturnLog ==
  ASSUME TInv, SafeInv, LogInv, ~spoiled', Return
  PROVE  Kept
<1>1. ~spoiled /\ pc = "return" /\ pc' = "idle" /\ UNCHANGED <<lines, rejected, spoiled>>
  BY DEF Return, disk
<1>2. Settled = below /\ Settled' = lines /\ lines = Append(below, Line(current, "whole"))
  BY <1>1 DEF SafeInv, Settled, InMaking
<1>3. Listed(Settled)' = Append(Listed(Settled), current) /\ current \in Checkpoints
  BY <1>1, <1>2, ListedLines DEF TInv, TypeOK
<1>4. index' = Listed(Settled)' /\ current' = None
  BY <1>1, <1>3 DEF Return, LogInv, Opened
<1>5. Promised!Commit
  BY <1>1, <1>3, <1>4, StoreAssumption DEF Promised!Commit, Opened
<1> QED
  BY <1>1, <1>4, <1>5 DEF Kept, LogInv, Opened, Promised!Next

LEMMA RemoveLog ==
  ASSUME TInv, SafeInv, Knows, LogInv, ~spoiled', RemoveFile
  PROVE  Kept
<1>1. /\ ~spoiled /\ pc = "remove" /\ pc' = "idle" /\ current' = None
      /\ rejected' = rejected \cup {current} /\ UNCHANGED <<lines, index, spoiled>>
  BY DEF RemoveFile
<1>2. Settled = lines /\ Settled' = lines /\ current \in Checkpoints
  BY <1>1 DEF Settled, TInv
<1>3. current \notin Range(Listed(lines))
  BY <1>1, <1>2, ListedLines DEF SafeInv, Opened, TInv, TypeOK
<1>4. current \notin rejected
  BY <1>1 DEF Knows
<1>5. Promised!Refuse(current)
  BY <1>1, <1>2, <1>3, <1>4 DEF Promised!Refuse, Promised!IsNew, Promised!Range, Range, Opened
<1> QED
  BY <1>1, <1>2, <1>5 DEF Kept, LogInv, Opened, Promised!Next

\* A process that is killed leaves the log with the line in the making, or without.
LEMMA StopLog ==
  ASSUME TInv, SafeInv, LogInv, ~spoiled', Killed \/ PowerFails
  PROVE  Kept
<1>1. /\ ~spoiled /\ AllWhole(lines) /\ Opened
      /\ pc' = "closed" /\ index' = <<>> /\ current' = None /\ UNCHANGED <<lines, rejected>>
  <2>1. Killed
    BY DEF PowerFails
  <2>2. ~spoiled /\ ~ \E k \in 1 .. Len(lines) : lines[k].form # "whole"
    BY <2>1 DEF Killed
  <2> QED
    BY <2>1, <2>2 DEF Killed, Stopped, AllWhole, Opened, disk
<1>2. Settled' = lines
  BY <1>1 DEF Settled
<1>3. \/ lines = Settled
      \/ current \in Checkpoints /\ Listed(lines) = Append(Listed(Settled), current)
  <2>1. CASE pc \in {"sync", "return", "undo"}
    <3>1. below \in Seq(Lines) /\ Settled = below /\ current \in Checkpoints
      BY <2>1 DEF TInv, TypeOK, Settled
    <3>2. \/ lines = below
          \/ \E form \in {"whole", "unended", "torn"} : lines = Append(below, Line(current, form))
      BY <1>1, <2>1 DEF SafeInv, InMaking
    <3> QED
      BY <3>1, <3>2, ListedLines
  <2>2. CASE pc \notin {"sync", "return", "undo"}
    BY <2>2 DEF Settled
  <2> QED
    BY <2>1, <2>2
<1>4. Promised!Stop
  BY <1>1, <1>2, <1>3, StoreAssumption DEF Promised!Stop, Opened
<1> QED
  BY <1>1, <1>4 DEF Kept, LogInv, Opened, Promised!Next

LEMMA LogStep ==
  TInv /\ SafeInv /\ Knows /\ LogInv /\ [Next]_vars => LogInv' /\ [Promised!Next]_(Promised!vars)
<1> SUFFICES ASSUME TInv, SafeInv, Knows, LogInv, [Next]_vars
             PROVE  LogInv' /\ [Promised!Next]_(Promised!vars)
  OBVIOUS
<1>1. CASE spoiled'
  BY <1>1 DEF LogInv, Promised!Next
<1>2. CASE ~spoiled' /\ Next
  BY <1>2, OpenLog, FileLog, LineLog, ReturnLog, RemoveLog, StopLog DEF Next, Kept
<1>3. CASE UNCHANGED vars
  BY <1>3 DEF vars, disk, memory, history, LogInv, Opened, Settled, Listed, Promised!vars
<1> QED
  BY <1>1, <1>2, <1>3

\* The store implements CheckpointLog: creating a checkpoint is one step to its
\* callers or none, wherever a call to the file system fails or the process stops
\* (CreateCheckpoint, appendIndexEntry), and loadIndex reads the log as it was left.
THEOREM StoreIsALog == Spec => IsALog
<1>1. Init => LogInv /\ Promised!Init
  BY LogInit
<1>2. TInv /\ SafeInv /\ Knows /\ LogInv /\ [Next]_vars => LogInv' /\ [Promised!Next]_(Promised!vars)
  BY LogStep
<1>3. OrderInv => Knows
  BY DEF OrderInv
<1> QED
  BY <1>1, <1>2, <1>3, SafeAlways, OrderAlways, PTL DEF Spec, IsALog, Promised!Spec

=============================================================================
