------------------------------ MODULE Conversation ------------------------------
(***************************************************************************)
(* What a group chat promises whoever drives it: a conversation in turns.  *)
(* The caller speaks and hands over to the host, who lets one participant  *)
(* at a time have the turn, never the same twice running, until it ends    *)
(* the chat and tells the caller all that was said in it. A restore takes  *)
(* the conversation back to where it was saved. Supersteps, tokens, what   *)
(* is buffered where and who waits for an answer do not show. GroupChat    *)
(* implements this for a caller who drives the run himself.                *)
(***************************************************************************)
EXTENDS Sequences, Integers

CONSTANTS Participants, \* who takes turns
          Host,         \* who hands them out
          None          \* no participant: the caller

VARIABLES turn,  \* whose turn it is: the caller's (None), the host's, or a participant's
          talk,  \* what was said since the last transcript
          last,  \* who had the turn last in this chat
          told,  \* the transcripts the caller was given
          past,  \* the conversation as it was saved
          unruly \* fixed: nothing is promised

vars == <<turn, talk, last, told, past, unruly>>

Now == [turn |-> turn, talk |-> talk, last |-> last, told |-> told]

Init ==
  /\ turn = None /\ talk = <<>> /\ last = None /\ told = <<>>
  /\ past = Now

\* A message of a is added to what was said.
Says(a) ==
  /\ Len(talk') = Len(talk) + 1
  /\ talk' = Append(talk, talk'[Len(talk')])
  /\ talk'[Len(talk')].by = a

CallerSpeaks ==
  /\ turn = None /\ Says(None)
  /\ UNCHANGED <<turn, last, told, past>>

HandOver ==
  /\ turn = None /\ turn' = Host
  /\ UNCHANGED <<talk, last, told, past>>

\* The host lets p speak, who has not just spoken.
Pass(p) ==
  /\ turn = Host /\ p # last
  /\ turn' = p /\ last' = p
  /\ UNCHANGED <<talk, told, past>>

\* Who has the turn speaks, and keeps it (to wait for an answer) or gives it back.
Speak(p) ==
  /\ turn = p /\ Says(p)
  /\ turn' \in {p, Host}
  /\ UNCHANGED <<last, told, past>>

\* The chat ends; at times the caller is told of an empty one after it.
Finish ==
  /\ turn = Host /\ turn' = None
  /\ \/ told' = Append(told, talk)
     \/ told' = Append(Append(told, talk), <<>>)
  /\ talk' = <<>> /\ last' = None
  /\ UNCHANGED past

Save ==
  /\ past' = Now
  /\ UNCHANGED <<turn, talk, last, told>>

GoBack ==
  /\ turn' = past.turn /\ talk' = past.talk /\ last' = past.last /\ told' = past.told
  /\ UNCHANGED past

Next ==
  /\ unruly' = unruly
  /\ \/ unruly
     \/ CallerSpeaks \/ HandOver \/ Finish \/ Save \/ GoBack
     \/ \E p \in Participants : Pass(p) \/ Speak(p)

Spec == Init /\ [][Next]_vars
=============================================================================
