------------------------------ MODULE GroupChat ------------------------------
(***************************************************************************)
(* A group chat of hosted agents (workflow/agentworkflow/groupchat.go and  *)
(* hosting.go over message/messageworkflow and internal/contentexthandler):*)
(* a host broadcasts what is said and passes one turn token around, the    *)
(* participants collect what they hear, run their agent when they get the  *)
(* token, and hold it while their agent waits for answers of the caller.   *)
(* The workflow runs in supersteps with a checkpoint after each (Runner).  *)
(* Two callers drive it: a program that uses the run itself, or the same   *)
(* workflow wrapped as an agent (workflow.go, session.go), whose session   *)
(* opens the run anew for each of its turns.                               *)
(***************************************************************************)
EXTENDS Sequences, SequencesExt, FiniteSets, Integers

CONSTANTS N,        \* participants, 0 .. N - 1 in the order they were given
          Host,     \* the host executor, and the start of the workflow
          None,     \* no speaker, no owner; the author of the caller's messages
          MaxRequests, \* approval requests and function calls agents make
          Setups       \* what a behaviour starts with: [hosted, roundRobin, turns],
                       \* and bounds: [inputs, requests, restarts], see setup

ASSUME GroupChatAssumption ==
  /\ N \in Nat \ {0}
  /\ Host \notin Nat /\ None \notin Nat /\ Host # None
  /\ MaxRequests \in Nat
  /\ Setups \subseteq [hosted : BOOLEAN, roundRobin : BOOLEAN, turns : Nat,
                       inputs : Nat, requests : 0 .. MaxRequests, restarts : Nat]

Participants == 0 .. N - 1
Nodes        == Participants \cup {Host}
Requests     == 1 .. MaxRequests   \* their ids, in the order they are made

VARIABLES
  setup,       \* fixed: whether the workflow is wrapped as an agent and the manager
               \* goes round, its maximumIterationCount (turns); bounds on messages of
               \* the caller, requests of agents, and restores, crashes and aborted runs
  buf,         \* node -> MessageState, the messages accumulated for its turn
  history,     \* the host's transcript of this chat
  speaker,     \* currentSpeakerExecutorID, or None
  iterations,  \* iterationCount
  cursor,      \* nextIndex of the round-robin manager
  open,        \* participant -> requests its handlers have pending
  held,        \* participant -> turnEmitEvents is set: it holds the token
  heard,       \* participant -> the chat messages its agent was given, in its session
  deliveries,  \* what the caller has sent in: [to, item]
  inbox,       \* node -> items of the next superstep
  step,        \* node -> items of this superstep it has still to handle
  running,     \* a superstep is under way
  owner,       \* request -> the participant it is pending for in the run, or None
  raised,      \* how many requests agents have made
  saved,       \* the checkpoint a restart goes back to
  session,     \* the wrapping agent's session: [open, pending]
  said,        \* history: all messages, in the order they were sent to the host
  aired,       \* history: messages the host has broadcast
  yielded,     \* history: the transcripts the workflow has put out
  inputs, restarts  \* counters for the bounds

hostVars == <<history, speaker, iterations, cursor, aired, yielded>>
partVars == <<open, held, heard, raised>>
vars == <<setup, buf, hostVars, partVars, deliveries, inbox, step, running, owner, saved, session,
          said, inputs, restarts>>

\* Whether the workflow is wrapped as an agent, and whether the manager goes round.
hosted     == setup.hosted
roundRobin == setup.roundRobin

\* What participant a says.
Message(a) == [by |-> a, n |-> Len(said) + 1]

\* What executors are sent: messages to accumulate, the TurnToken, a response.
Items(messages) == [kind |-> "messages", body |-> messages, req |-> None]
Token           == [kind |-> "token", body |-> <<>>, req |-> None]
Response(r)     == [kind |-> "response", body |-> <<>>, req |-> r]
\* Queues with nothing in them.
Empty == [x \in Nodes |-> <<>>]

\* What a checkpoint holds: the queued messages and open requests of the run and
\* the state of the executors; the history variables stand for what they produced.
Snapshot ==
  [buf |-> buf, history |-> history, speaker |-> speaker, iterations |-> iterations,
   cursor |-> cursor, open |-> open, held |-> held, heard |-> heard, inbox |-> inbox,
   owner |-> owner, said |-> said, aired |-> aired, yielded |-> yielded]

Init ==
  /\ setup \in Setups
  /\ buf = Empty /\ inbox = Empty /\ step = Empty
  /\ history = <<>> /\ speaker = None /\ iterations = 0 /\ cursor = 0
  /\ open = [p \in Participants |-> {}]
  /\ held = [p \in Participants |-> FALSE]
  /\ heard = [p \in Participants |-> <<>>]
  /\ deliveries = <<>> /\ running = FALSE
  /\ owner = [r \in Requests |-> None] /\ raised = 0
  /\ said = <<>> /\ aired = <<>> /\ yielded = <<>>
  /\ saved = Snapshot
  /\ session = [open |-> FALSE, pending |-> {}]
  /\ inputs = 0 /\ restarts = 0

-----------------------------------------------------------------------------
(* The run                                                                 *)

\* What the caller has sent is drained into the next step; what comes after the
\* drain waits for the next one.
Deliver ==
  /\ ~running /\ deliveries # <<>>
  /\ LET d == Head(deliveries)
         r == d.item.req
         o == IF r = None THEN d.to ELSE owner[r]
     IN /\ o # None
        /\ inbox' = [inbox EXCEPT ![o] = Append(@, d.item)]
        /\ owner' = IF r = None THEN owner ELSE [owner EXCEPT ![r] = None]
        /\ said' = said \o d.item.body
  /\ deliveries' = Tail(deliveries)
  /\ UNCHANGED <<setup, buf, hostVars, partVars, step, running, saved, session, inputs, restarts>>

\* What is queued is taken for a superstep.
BeginStep ==
  /\ ~running /\ inbox # Empty
  /\ running' = TRUE
  /\ step' = inbox
  /\ inbox' = Empty
  /\ UNCHANGED <<setup, buf, hostVars, partVars, deliveries, owner, saved, session, said, inputs, restarts>>

\* The superstep is over and its checkpoint committed. A session resumes from the
\* last one it saw; another caller may go back to this one or an earlier one.
EndStep ==
  /\ running /\ step = Empty
  /\ running' = FALSE
  /\ \/ saved' = Snapshot
     \/ ~hosted /\ saved' = saved
  /\ UNCHANGED <<setup, buf, hostVars, partVars, deliveries, inbox, step, owner, session, said,
                 inputs, restarts>>

\* Executor x handles the next item of its kind.
Handles(x, kind) ==
  /\ running /\ step[x] # <<>> /\ Head(step[x]).kind = kind
  /\ step' = [step EXCEPT ![x] = Tail(@)]

\* Chat messages wait in the receiver's buffer for its turn.
Accumulate(x) ==
  /\ Handles(x, "messages")
  /\ buf' = [buf EXCEPT ![x] = @ \o Head(step[x]).body]
  /\ UNCHANGED <<setup, hostVars, partVars, deliveries, inbox, running, owner, saved, session, said,
                 inputs, restarts>>

-----------------------------------------------------------------------------
(* The host                                                                *)

\* The transcript is put out and the host forgets the chat, manager included.
Complete(outputs) ==
  /\ yielded' = yielded \o outputs
  /\ history' = <<>> /\ speaker' = None /\ iterations' = 0 /\ cursor' = 0

\* Mutant: the next speaker is left out, who has heard nothing of it.
AudienceWithoutNext(next) == Participants \ {next}

\* broadcast: everyone but who spoke last, selected before the next speaker is.
Audience(next) == Participants \ {speaker}

\* What the host sends in its turn: the new messages, and the token.
Broadcast(new, next) ==
  inbox' = [x \in Nodes |->
              inbox[x] \o (IF new # <<>> /\ x \in Audience(next) THEN <<Items(new)>> ELSE <<>>)
                       \o (IF x = next THEN <<Token>> ELSE <<>>)]

\* SelectNextAgent of the manager; None also for an agent that takes no part.
Selected(next) == IF roundRobin THEN next = cursor ELSE next \in Participants \cup {None}

\* Mutant: the host does not know who has just spoken.
MayTurnAgain(next) == next # None

\* dispatchNextAgent: somebody is selected who takes part and has not just spoken.
MayTurn(next) == next \notin {None, speaker}

\* Mutant: who completes the chat forgets what was said in the last turn.
TranscriptWithoutLast == history

\* handleTurn takes what has accumulated over into the transcript first.
Transcript == history \o buf[Host]

\* What every outcome of the host's turn leaves: its buffer is taken.
HostRest == /\ buf' = [buf EXCEPT ![Host] = <<>>]
            /\ UNCHANGED <<setup, partVars, deliveries, running, owner, saved, session, said, inputs, restarts>>

\* handleTurn, when ShouldTerminate says so, as it must at the limit: what was
\* said last is in the transcript and nobody hears it.
Terminate ==
  /\ Handles(Host, "token")
  /\ Complete(<<Transcript>>)
  /\ UNCHANGED <<inbox, aired>>
  /\ HostRest

\* handleTurn with dispatchNextAgent: the selected participant gets the token.
Dispatch(next) ==
  /\ Handles(Host, "token")
  /\ iterations < setup.turns
  /\ Selected(next) /\ MayTurn(next)
  /\ history' = Transcript
  /\ aired' = aired \o buf[Host]
  /\ Broadcast(buf[Host], next)
  /\ speaker' = next
  /\ iterations' = iterations + 1
  /\ cursor' = IF roundRobin THEN (next + 1) % N ELSE cursor
  /\ UNCHANGED yielded
  /\ HostRest

\* Nobody is selected, or who has just spoken: then dispatchNextAgent completes
\* the chat, and handleTurn completes it again with an empty transcript.
Decline(next) ==
  /\ Handles(Host, "token")
  /\ iterations < setup.turns
  /\ Selected(next) /\ ~MayTurn(next)
  /\ aired' = aired \o buf[Host]
  /\ Broadcast(buf[Host], None)
  /\ Complete(<<Transcript>> \o (IF next = None THEN <<>> ELSE << <<>> >>))
  /\ HostRest

-----------------------------------------------------------------------------
(* The participants                                                        *)

\* Mutant: the token is passed on in the turn it came, or never.
ReleasesAtOnce(p, waits, answers) == waits = {} /\ answers = {}

\* releasePendingTurnIfReady: no request of the participant is pending.
Releases(p, waits, answers) == waits = {}

\* Mutant: a participant keeps the token it has passed on.
KeptAlways(holds, release) == holds

\* turnEmitEvents after the run: cleared when the token is passed on.
Kept(holds, release) == holds /\ ~release

\* runAgentAndDispatch: the agent is given what has accumulated; its requests are
\* tracked and posted, its message is sent to the host, and the token when it holds
\* one (holds) and waits for nothing.
RunAgent(p, answers, holds) ==
  \E last \in raised .. setup.requests :
    LET asks    == raised + 1 .. last
        waits   == (open[p] \ answers) \cup asks
        release == holds /\ Releases(p, waits, answers)
    IN /\ open' = [open EXCEPT ![p] = waits]
       /\ raised' = last
       /\ owner' = [r \in Requests |-> IF r \in asks THEN p ELSE owner[r]]
       /\ session' = [session EXCEPT !.pending = IF hosted THEN @ \cup asks ELSE @]
       /\ heard' = [heard EXCEPT ![p] = @ \o buf[p]]
       /\ buf' = [buf EXCEPT ![p] = <<>>]
       /\ said' = Append(said, Message(p))
       /\ held' = [held EXCEPT ![p] = Kept(holds, release)]
       /\ inbox' = [inbox EXCEPT ![Host] =
                      @ \o <<Items(<<Message(p)>>)>> \o (IF release THEN <<Token>> ELSE <<>>)]
       /\ UNCHANGED <<setup, hostVars, deliveries, running, saved, inputs, restarts>>

\* handleTurnToken.
TakeTurn(p) ==
  /\ Handles(p, "token")
  /\ RunAgent(p, {}, TRUE)

\* handleApprovalResponse and handleFunctionResult: an expected answer.
TakeAnswer(p) ==
  /\ Handles(p, "response")
  /\ Head(step[p]).req \in open[p]
  /\ RunAgent(p, {Head(step[p]).req}, held[p])

-----------------------------------------------------------------------------
(* A caller of the run itself                                              *)

\* What is queued anywhere, and the run with nothing to do.
InFlight == (UNION {Range(inbox[x]) \cup Range(step[x]) : x \in Nodes})
              \cup {d.item : d \in Range(deliveries)}
Idle     == ~running /\ InFlight = {}
ChatOver == Idle /\ history = <<>> /\ \A p \in Participants : ~held[p]

\* The caller sends to the start executor; his messages are numbered.
ToHost(item) == [to |-> Host, item |-> item]
Input        == ToHost(Items(<<[by |-> None, n |-> inputs + 1]>>))

\* A chat is started with a message and a token when none is under way.
Ask ==
  /\ ~hosted /\ ChatOver
  /\ inputs < setup.inputs
  /\ inputs' = inputs + 1
  /\ deliveries' = <<Input, ToHost(Token)>>
  /\ UNCHANGED <<setup, buf, hostVars, partVars, inbox, step, running, owner, saved, session, said, restarts>>

\* Each request is answered once, at any time.
Answer(r) ==
  /\ ~hosted
  /\ owner[r] # None /\ Response(r) \notin InFlight
  /\ deliveries' = Append(deliveries, ToHost(Response(r)))
  /\ UNCHANGED <<setup, buf, hostVars, partVars, inbox, step, running, owner, saved, session, said, inputs, restarts>>

\* Mutant: the token a participant holds is not in its checkpoint.
RestoredTokenLost == [p \in Participants |-> FALSE]

RestoredToken == saved.held

\* Mutant: the cursor of the manager is not in the host's checkpoint.
RestoredCursorLost == 0

RestoredCursor == saved.cursor

\* RestoreCheckpoint: everything as in the checkpoint; what was sent in since and
\* the rest of a superstep are gone.
Rewind ==
  /\ buf' = saved.buf /\ history' = saved.history /\ speaker' = saved.speaker
  /\ iterations' = saved.iterations /\ cursor' = RestoredCursor
  /\ open' = saved.open /\ held' = RestoredToken /\ heard' = saved.heard
  /\ inbox' = saved.inbox /\ owner' = saved.owner
  /\ said' = saved.said /\ aired' = saved.aired /\ yielded' = saved.yielded
  /\ step' = Empty /\ deliveries' = <<>> /\ running' = FALSE
  /\ restarts < setup.restarts /\ restarts' = restarts + 1
  /\ UNCHANGED <<setup, raised, saved, inputs>>

\* The run is restored, between supersteps or after one was cut short by the
\* failure of an agent or the end of the process.
Restore ==
  /\ ~hosted
  /\ Rewind
  /\ UNCHANGED session

-----------------------------------------------------------------------------
(* The workflow as an agent                                                *)

\* runFn: the session's run is opened anew or resumed; answers to requests the
\* session knows become responses, the rest is sent as messages. The token goes to
\* the start executor unless that one gets an answer, which the host never does;
\* a turn may bring nothing else (the bound on inputs counts those too).
AgentTurn(new, answers) ==
  /\ hosted /\ ~session.open
  /\ Range(answers) \subseteq session.pending
  /\ new \/ answers = <<>> => inputs < setup.inputs
  /\ inputs' = IF new \/ answers = <<>> THEN inputs + 1 ELSE inputs
  /\ deliveries' = (IF new THEN <<Input>> ELSE <<>>)
                     \o [i \in DOMAIN answers |-> ToHost(Response(answers[i]))]
                     \o <<ToHost(Token)>>
  /\ session' = [open |-> TRUE, pending |-> session.pending \ Range(answers)]
  /\ UNCHANGED <<setup, buf, hostVars, partVars, inbox, step, running, owner, saved, said, restarts>>

\* The run has halted and is closed; its last checkpoint is the present state.
CloseRun ==
  /\ hosted /\ session.open /\ Idle
  /\ session' = [session EXCEPT !.open = FALSE]
  /\ UNCHANGED <<setup, buf, hostVars, partVars, deliveries, inbox, step, running, owner, saved, said,
                 inputs, restarts>>

\* An executor fails, the run rejects an answer, or the consumer stops: the run is
\* closed, and the next turn resumes from the last checkpoint the session saw.
AbortRun ==
  /\ hosted /\ session.open
  /\ Rewind
  /\ session' = [session EXCEPT !.open = FALSE]

-----------------------------------------------------------------------------
Step ==
  \/ Deliver
  \/ BeginStep
  \/ EndStep
  \/ \E x \in Nodes : Accumulate(x)
  \/ Terminate
  \/ \E next \in Participants : Dispatch(next)
  \/ \E next \in Participants \cup {None} : Decline(next)
  \/ \E p \in Participants : TakeTurn(p) \/ TakeAnswer(p)

Next ==
  \/ Step
  \/ Ask
  \/ \E r \in Requests : Answer(r)
  \/ Restore
  \/ \E new \in BOOLEAN, answers \in SetToAllKPermutations(Requests) : AgentTurn(new, answers)
  \/ CloseRun
  \/ AbortRun

Spec == Init /\ [][Next]_vars

\* The run goes on while it has work, and the caller answers what he is asked.
FairSpec ==
  /\ Spec
  /\ WF_vars(Step)
  /\ WF_vars(\E r \in Requests : Answer(r))

-----------------------------------------------------------------------------
(* Properties                                                              *)

Messages    == [by : Participants \cup {None}, n : Nat]
ItemTypes   == [kind : {"messages"}, body : Seq(Messages), req : {None}]
                 \cup {Token} \cup {Response(r) : r \in Requests}
Queues      == [Nodes -> Seq(ItemTypes)]
Checkpoints ==
  [buf : [Nodes -> Seq(Messages)], history : Seq(Messages), speaker : Participants \cup {None},
   iterations : Nat, cursor : Participants, open : [Participants -> SUBSET Requests],
   held : [Participants -> BOOLEAN], heard : [Participants -> Seq(Messages)], inbox : Queues,
   owner : [Requests -> Participants \cup {None}], said : Seq(Messages), aired : Seq(Messages),
   yielded : Seq(Seq(Messages))]

\* Types of the state, which is a checkpoint and what is not in one.
TypeOK ==
  /\ setup \in Setups
  /\ Snapshot \in Checkpoints /\ saved \in Checkpoints
  /\ deliveries \in Seq([to : {Host}, item : ItemTypes]) /\ step \in Queues
  /\ running \in BOOLEAN /\ raised \in 0 .. MaxRequests
  /\ session \in [open : BOOLEAN, pending : SUBSET Requests]
  /\ inputs \in Nat /\ restarts \in Nat

\* Where in the queues of the nodes tokens are.
TokensAt(queue) ==
  UNION {{<<x, i>> : i \in {j \in DOMAIN queue[x] : queue[x][j] = Token}} : x \in Nodes}

\* Where the turn is: with the caller, on its way, or with a participant.
Turns ==
  {<<"caller", i>> : i \in {j \in DOMAIN deliveries : deliveries[j].item = Token}}
  \cup ({"inbox"} \X TokensAt(inbox)) \cup ({"step"} \X TokensAt(step))
  \cup {<<"held", p>> : p \in {q \in Participants : held[q]}}

\* There is one turn at a time, and whoever has it or is to have it is the speaker
\* the host has chosen: nobody else's agent is let on before the token is back.
OneTurn ==
  ~hosted =>
    /\ \A t, u \in Turns : t = u
    /\ \A p \in Participants : held[p] => speaker = p

\* The messages in a queue of items, and those of s that are not p's own.
MessagesOf(queue) == FlattenSeq([i \in 1 .. Len(queue) |-> queue[i].body])
NotBy(p, s) == FlattenSeq([i \in 1 .. Len(s) |-> IF s[i].by = p THEN <<>> ELSE <<s[i]>>])

\* Every participant hears what the others and the caller said, each message once,
\* in the order of the chat, over supersteps, chats and restores.
HeardInOrder ==
  ~hosted =>
    \A p \in Participants :
      heard[p] \o buf[p] \o MessagesOf(step[p]) \o MessagesOf(inbox[p]) = NotBy(p, aired)

\* A transcript leaves nothing out and repeats nothing: what was put out, what the
\* host has and what is on its way to it is what was said, in that order.
TranscriptIsWhole ==
  FlattenSeq(yielded) \o history \o buf[Host] \o MessagesOf(step[Host]) \o MessagesOf(inbox[Host]) = said

\* Answers on their way to p.
ResponsesTo(p) ==
  {item.req : item \in {i \in Range(inbox[p]) \cup Range(step[p]) : i.kind = "response"}}

\* A chat that stands still waits for an answer: somebody holds the token, and what
\* he waits for can be answered, as the run and the executors agree on it.
WaitsOnlyForAnswers ==
  /\ Idle /\ history # <<>> => \E p \in Participants : held[p] /\ open[p] # {}
  /\ \A p \in Participants : open[p] = {r \in Requests : owner[r] = p} \cup ResponsesTo(p)

\* A round-robin manager goes round, from the first participant in every chat, also
\* after a restore: the host's count, its speaker and the manager's cursor, which are
\* kept in three places and checkpointed under three keys, agree.
TurnsGoRound ==
  roundRobin =>
    /\ cursor = iterations % N
    /\ iterations > 0 => speaker = (iterations - 1) % N

\* A chat whose requests are answered comes to its end.
ChatEnds == []<>(hosted \/ ChatOver)

\* The token is "held until all outstanding requests are resolved" (hosting.go): as
\* long as a participant holds it no other takes a turn.
TurnIsHeld == \A p, q \in Participants : held[p] /\ Token \in Range(step[q]) => p = q

\* Whose turn it is, by where the token is in the run.
TurnAt(ib, st, hd) ==
  LET at(x) == Token \in Range(ib[x]) \cup Range(st[x])
      has   == {p \in Participants : hd[p] \/ at(p)}
  IN IF at(Host) THEN Host ELSE IF has # {} THEN CHOOSE p \in has : TRUE ELSE None

\* What was said since the last transcript: what the host has or has not got yet.
Spoken(h, b, ib, st) == h \o b[Host] \o MessagesOf(st[Host]) \o MessagesOf(ib[Host])

Promised == INSTANCE Conversation WITH
  turn <- TurnAt(inbox, step, held),
  talk <- Spoken(history, buf, inbox, step),
  last <- speaker,
  told <- yielded,
  past <- [turn |-> TurnAt(saved.inbox, Empty, saved.held),
           talk |-> Spoken(saved.history, saved.buf, saved.inbox, Empty),
           last |-> saved.speaker, told |-> saved.yielded],
  unruly <- hosted

\* To a caller who drives the run himself a chat is one conversation in turns, with
\* whole transcripts, however its executors interleave in the supersteps; to a
\* restore it is what it was at the checkpoint.
IsAConversation == Promised!Spec
=============================================================================
