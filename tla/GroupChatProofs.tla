---------------------------- MODULE GroupChatProofs ----------------------------
(* Proofs about GroupChat, for any participants, turns, requests and callers. *)
EXTENDS GroupChat, TLAPS, FiniteSetTheorems, WellFoundedInduction, SequenceTheorems

\* What the constants are.
LEMMA Names ==
  /\ Participants \subseteq Nat /\ Participants \subseteq Nodes /\ Host \in Nodes
  /\ Host \notin Participants /\ None \notin Participants /\ None # Host
  /\ Requests \subseteq Nat /\ None \notin Requests
  /\ 0 \in Participants
  BY GroupChatAssumption DEF Participants, Nodes, Requests

LEMMA ItemsTyped ==
  /\ Token \in ItemTypes
  /\ \A m \in Seq(Messages) : Items(m) \in ItemTypes
  /\ \A r \in Requests : Response(r) \in ItemTypes
  /\ Empty \in Queues
<1>1. Token \in ItemTypes
  BY DEF ItemTypes
<1>2. ASSUME NEW m \in Seq(Messages) PROVE Items(m) \in ItemTypes
  BY <1>2 DEF ItemTypes, Items
<1>3. ASSUME NEW r \in Requests PROVE Response(r) \in ItemTypes
  BY <1>3 DEF ItemTypes
<1>4. Empty \in Queues
  BY DEF Empty, Queues
<1> QED
  BY <1>1, <1>2, <1>3, <1>4

\* The state of the executors and queues, one by one.
Fields ==
  /\ buf \in [Nodes -> Seq(Messages)] /\ history \in Seq(Messages)
  /\ speaker \in Participants \cup {None} /\ iterations \in Nat /\ cursor \in Participants
  /\ open \in [Participants -> SUBSET Requests] /\ held \in [Participants -> BOOLEAN]
  /\ heard \in [Participants -> Seq(Messages)] /\ inbox \in Queues
  /\ owner \in [Requests -> Participants \cup {None}]
  /\ said \in Seq(Messages) /\ aired \in Seq(Messages) /\ yielded \in Seq(Seq(Messages))

LEMMA SnapshotFields == Snapshot \in Checkpoints <=> Fields
  BY DEF Snapshot, Checkpoints, Fields

LEMMA SnapshotFieldsNext == Snapshot' \in Checkpoints <=> Fields'
  BY DEF Snapshot, Checkpoints, Fields

LEMMA TypeInit == Init => TypeOK
<1> SUFFICES ASSUME Init PROVE TypeOK
  OBVIOUS
<1>1. Fields
  BY Names, ItemsTyped, GroupChatAssumption DEF Init, Fields, Empty
<1>2. deliveries \in Seq([to : {Host}, item : ItemTypes]) /\ step \in Queues
  BY ItemsTyped DEF Init
<1>3. Snapshot \in Checkpoints /\ saved \in Checkpoints
  <2>1. saved = Snapshot
    BY DEF Init
  <2> QED
    BY <1>1, <2>1, SnapshotFields
<1>4. session \in [open : BOOLEAN, pending : SUBSET Requests]
  BY DEF Init
<1>5. raised \in 0 .. MaxRequests
  BY GroupChatAssumption DEF Init
<1>6. setup \in Setups /\ running \in BOOLEAN /\ inputs \in Nat /\ restarts \in Nat
  BY DEF Init
<1> QED
  BY <1>2, <1>3, <1>4, <1>5, <1>6 DEF TypeOK

\* What an executor handles is an item, and the rest of its queue a queue.
LEMMA HandledItem ==
  ASSUME TypeOK, NEW x \in Nodes, NEW kind, Handles(x, kind)
  PROVE  /\ step' \in Queues
         /\ Head(step[x]) \in ItemTypes
         /\ step' = [step EXCEPT ![x] = Tail(step[x])]
<1>1. step \in [Nodes -> Seq(ItemTypes)] /\ step[x] # <<>>
  BY DEF TypeOK, Handles, Queues
<1>2. step[x] \in Seq(ItemTypes)
  BY <1>1
<1>3. Head(step[x]) \in ItemTypes /\ Tail(step[x]) \in Seq(ItemTypes)
  BY <1>1, <1>2
<1> QED
  BY <1>1, <1>3 DEF Handles, Queues

\* An item's messages, and its request.
LEMMA ItemParts ==
  ASSUME NEW i \in ItemTypes
  PROVE  /\ i.body \in Seq(Messages)
         /\ i.req \in Requests \cup {None}
         /\ i.kind = "token" => i = Token
         /\ i.kind = "response" => i.req \in Requests
         /\ i.req # None => i.kind = "response"
<1>1. CASE i \in [kind : {"messages"}, body : Seq(Messages), req : {None}]
  BY <1>1
<1>2. CASE i = Token
  BY <1>2, Names DEF Token
<1>3. CASE \E r \in Requests : i = Response(r)
  BY <1>3, Names DEF Response
<1> QED
  BY <1>1, <1>2, <1>3 DEF ItemTypes

\* The rest of the state.
Others ==
  /\ setup \in Setups /\ saved \in Checkpoints
  /\ deliveries \in Seq([to : {Host}, item : ItemTypes]) /\ step \in Queues
  /\ running \in BOOLEAN /\ raised \in 0 .. MaxRequests
  /\ session \in [open : BOOLEAN, pending : SUBSET Requests]
  /\ inputs \in Nat /\ restarts \in Nat

LEMMA TypeParts == TypeOK <=> Fields /\ Others
  BY SnapshotFields DEF TypeOK, Others

LEMMA TypePartsNext == TypeOK' <=> Fields' /\ Others'
  BY SnapshotFieldsNext DEF TypeOK, Others

LEMMA DeliverType == TypeOK /\ Deliver => TypeOK'
<1> SUFFICES ASSUME TypeOK, Deliver PROVE Fields' /\ Others'
  BY TypePartsNext
<1> DEFINE d == Head(deliveries)
           r == d.item.req
           o == IF r = None THEN d.to ELSE owner[r]
<1>1. Fields /\ Others
  BY TypeParts
<1>2. d \in [to : {Host}, item : ItemTypes] /\ Tail(deliveries) \in Seq([to : {Host}, item : ItemTypes])
  <2> DEFINE Sent == [to : {Host}, item : ItemTypes]
  <2>1. deliveries \in Seq(Sent) /\ deliveries # <<>>
    BY <1>1 DEF Others, Deliver
  <2> HIDE DEF Sent
  <2>2. Head(deliveries) \in Sent /\ Tail(deliveries) \in Seq(Sent)
    BY <2>1
  <2> QED
    BY <2>2 DEF Sent
<1>3. d.item \in ItemTypes /\ d.item.body \in Seq(Messages) /\ r \in Requests \cup {None}
  BY <1>2, ItemParts
<1>4. o \in Nodes
  BY <1>1, <1>2, <1>3, Names DEF Deliver, Fields
<1>5. inbox' \in Queues
  <2>1. inbox \in [Nodes -> Seq(ItemTypes)] /\ inbox' = [inbox EXCEPT ![o] = Append(inbox[o], d.item)]
    BY <1>1 DEF Fields, Queues, Deliver
  <2>2. Append(inbox[o], d.item) \in Seq(ItemTypes)
    BY <2>1, <1>3, <1>4
  <2> QED
    BY <2>1, <2>2 DEF Queues
<1>6. owner' \in [Requests -> Participants \cup {None}]
  BY <1>1, <1>3 DEF Fields, Deliver
<1>7. said' \in Seq(Messages)
  BY <1>1, <1>3 DEF Fields, Deliver
<1> QED
  BY <1>1, <1>2, <1>5, <1>6, <1>7 DEF Deliver, Fields, Others, hostVars, partVars

LEMMA StepTypes == TypeOK /\ (BeginStep \/ EndStep) => TypeOK'
<1> SUFFICES ASSUME TypeOK, BeginStep \/ EndStep PROVE Fields' /\ Others'
  BY TypePartsNext
<1>1. Fields /\ Others
  BY TypeParts
<1>2. CASE BeginStep
  BY <1>1, <1>2, ItemsTyped DEF BeginStep, Fields, Others, hostVars, partVars
<1>3. CASE EndStep
  <2>1. saved' \in Checkpoints
    BY <1>3, <1>1, SnapshotFields DEF EndStep, Others
  <2> QED
    BY <1>1, <1>3, <2>1 DEF EndStep, Fields, Others, hostVars, partVars
<1> QED
  BY <1>2, <1>3

LEMMA AccumulateType == ASSUME TypeOK, NEW x \in Nodes, Accumulate(x) PROVE TypeOK'
<1>1. Fields /\ Others
  BY TypeParts
<1>2. step' \in Queues /\ Head(step[x]) \in ItemTypes
  BY HandledItem DEF Accumulate
<1>3. Head(step[x]).body \in Seq(Messages)
  BY <1>2, ItemParts
<1>4. buf' \in [Nodes -> Seq(Messages)]
  <2>1. buf[x] \o Head(step[x]).body \in Seq(Messages)
    BY <1>1, <1>3 DEF Fields
  <2> QED
    BY <1>1, <2>1 DEF Fields, Accumulate
<1> QED
  BY <1>1, <1>2, <1>4, TypePartsNext DEF Accumulate, Fields, Others, hostVars, partVars

\* The host's outcomes: what it puts out and what it sends are of their types.
LEMMA CompleteType ==
  ASSUME Fields, NEW out \in Seq(Seq(Messages)), Complete(out)
  PROVE  /\ yielded' \in Seq(Seq(Messages)) /\ history' \in Seq(Messages)
         /\ speaker' \in Participants \cup {None} /\ iterations' \in Nat /\ cursor' \in Participants
  BY Names DEF Fields, Complete

LEMMA BroadcastType ==
  ASSUME Fields, NEW new \in Seq(Messages), NEW next, Broadcast(new, next)
  PROVE  inbox' \in Queues
<1> DEFINE A(x) == IF new # <<>> /\ x \in Audience(next) THEN <<Items(new)>> ELSE <<>>
           B(x) == IF x = next THEN <<Token>> ELSE <<>>
<1>1. ASSUME NEW x \in Nodes PROVE inbox[x] \o A(x) \o B(x) \in Seq(ItemTypes)
  <2>1. inbox[x] \in Seq(ItemTypes)
    BY <1>1 DEF Fields, Queues
  <2>2. A(x) \in Seq(ItemTypes)
    BY ItemsTyped
  <2>3. B(x) \in Seq(ItemTypes)
    BY ItemsTyped
  <2> QED
    BY <2>1, <2>2, <2>3
<1>2. inbox' = [x \in Nodes |-> inbox[x] \o A(x) \o B(x)]
  BY DEF Broadcast
<1> HIDE DEF A, B
<1> QED
  BY <1>1, <1>2 DEF Queues

LEMMA TranscriptType == Fields => Transcript \in Seq(Messages) /\ buf[Host] \in Seq(Messages)
  BY Names DEF Fields, Transcript

LEMMA CursorType == ASSUME NEW i \in Nat PROVE (i + 1) % N \in Participants
  BY GroupChatAssumption DEF Participants

\* A buffer is emptied.
LEMMA BufferTaken ==
  ASSUME NEW S, NEW f \in [Nodes -> Seq(S)], NEW x
  PROVE  [f EXCEPT ![x] = <<>>] \in [Nodes -> Seq(S)]
<1> DEFINE nothing == <<>>
<1>1. nothing \in Seq(S)
  OBVIOUS
<1> HIDE DEF nothing
<1>2. [f EXCEPT ![x] = nothing] \in [Nodes -> Seq(S)]
  BY <1>1
<1> QED
  BY <1>2 DEF nothing

LEMMA HostRestType ==
  ASSUME TypeOK, HostRest, Handles(Host, "token"),
         inbox' \in Queues, history' \in Seq(Messages), speaker' \in Participants \cup {None},
         iterations' \in Nat, cursor' \in Participants, aired' \in Seq(Messages),
         yielded' \in Seq(Seq(Messages))
  PROVE  TypeOK'
<1>1. Fields /\ Others /\ step' \in Queues
  BY TypeParts, HandledItem, Names
<1>2. buf' \in [Nodes -> Seq(Messages)]
  <2>1. buf' = [buf EXCEPT ![Host] = <<>>]
    BY DEF HostRest
  <2>2. buf \in [Nodes -> Seq(Messages)]
    BY <1>1 DEF Fields
  <2> QED
    BY <2>1, <2>2, BufferTaken
<1>3. UNCHANGED <<setup, open, held, heard, raised, deliveries, running, owner, saved, session, said,
                  inputs, restarts>>
  BY DEF HostRest, partVars
<1>4. Fields'
  BY <1>1, <1>2, <1>3 DEF Fields
<1>5. Others'
  BY <1>1, <1>3 DEF Others
<1> QED
  BY <1>4, <1>5, TypePartsNext

LEMMA TerminateType == TypeOK /\ Terminate => TypeOK'
<1> SUFFICES ASSUME TypeOK, Terminate PROVE TypeOK'
  OBVIOUS
<1>1. Fields /\ Transcript \in Seq(Messages)
  BY TypeParts, TranscriptType
<1>2. inbox' \in Queues /\ aired' \in Seq(Messages)
  BY <1>1 DEF Fields, Terminate
<1>3. <<Transcript>> \in Seq(Seq(Messages))
  BY <1>1
<1> QED
  BY <1>1, <1>2, <1>3, CompleteType, HostRestType DEF Terminate

LEMMA DispatchType == ASSUME TypeOK, NEW next \in Participants, Dispatch(next) PROVE TypeOK'
<1>1. Fields /\ Transcript \in Seq(Messages) /\ buf[Host] \in Seq(Messages)
  BY TypeParts, TranscriptType
<1>2. inbox' \in Queues
  BY <1>1, BroadcastType DEF Dispatch
<1>3. aired' \in Seq(Messages) /\ yielded' \in Seq(Seq(Messages)) /\ history' \in Seq(Messages)
  BY <1>1 DEF Fields, Dispatch
<1>4. speaker' \in Participants \cup {None} /\ iterations' \in Nat
  BY <1>1 DEF Fields, Dispatch
<1>5. cursor' \in Participants
  BY <1>1, CursorType, Names DEF Fields, Dispatch
<1> QED
  BY <1>2, <1>3, <1>4, <1>5, HostRestType DEF Dispatch

LEMMA DeclineType == ASSUME TypeOK, NEW next, Decline(next) PROVE TypeOK'
<1>1. Fields /\ Transcript \in Seq(Messages) /\ buf[Host] \in Seq(Messages)
  BY TypeParts, TranscriptType
<1>2. inbox' \in Queues
  BY <1>1, BroadcastType DEF Decline
<1>3. aired' \in Seq(Messages)
  BY <1>1 DEF Fields, Decline
<1> DEFINE out == <<Transcript>> \o (IF next = None THEN <<>> ELSE << <<>> >>)
<1>4. out \in Seq(Seq(Messages))
  <2>1. << <<>> >> \in Seq(Seq(Messages)) /\ <<>> \in Seq(Seq(Messages))
    OBVIOUS
  <2>2. <<Transcript>> \in Seq(Seq(Messages))
    BY <1>1
  <2> QED
    BY <2>1, <2>2
<1>5. Complete(out)
  BY DEF Decline
<1> HIDE DEF out
<1> QED
  BY <1>1, <1>2, <1>3, <1>4, <1>5, CompleteType, HostRestType DEF Decline

\* The participants' runs: requests stay below the bound, and what they send are items.
LEMMA RunAgentType ==
  ASSUME TypeOK, NEW p \in Participants, NEW answers, NEW holds \in BOOLEAN,
         RunAgent(p, answers, holds), step' \in Queues
  PROVE  TypeOK'
<1>1. Fields /\ Others
  BY TypeParts
<1>2. setup.requests \in 0 .. MaxRequests
  BY <1>1, GroupChatAssumption DEF Others
<1>3. PICK last \in raised .. setup.requests :
        LET asks    == raised + 1 .. last
            waits   == (open[p] \ answers) \cup asks
            release == holds /\ Releases(p, waits, answers)
        IN /\ open' = [open EXCEPT ![p] = waits]
           /\ raised' = last
           /\ owner' = [r \in Requests |-> IF r \in asks THEN p ELSE owner[r]]
           /\ session' = [session EXCEPT !.pending = IF hosted THEN @ \cup asks ELSE @]
           /\ heard' = [heard EXCEPT ![p] = @ \o buf[p]]
           /\ buf' = [buf EXCEPT ![p] = <<>>]
           /\ said' = Append(said, Message(p))
           /\ held' = [held EXCEPT ![p] = Kept(holds, release)]
           /\ inbox' = [inbox EXCEPT ![Host] =
                          @ \o <<Items(<<Message(p)>>)>> \o (IF release THEN <<Token>> ELSE <<>>)]
           /\ UNCHANGED <<setup, hostVars, deliveries, running, saved, inputs, restarts>>
  BY DEF RunAgent
<1> DEFINE asks    == raised + 1 .. last
           waits   == (open[p] \ answers) \cup asks
           release == holds /\ Releases(p, waits, answers)
<1>4. asks \subseteq Requests /\ last \in 0 .. MaxRequests
  BY <1>1, <1>2, GroupChatAssumption DEF Others, Requests
<1>5. open' \in [Participants -> SUBSET Requests]
  <2>1. waits \subseteq Requests
    BY <1>1, <1>4 DEF Fields
  <2> QED
    BY <1>1, <1>3, <2>1 DEF Fields
<1>6. owner' \in [Requests -> Participants \cup {None}]
  BY <1>1, <1>3 DEF Fields
<1>7. session' \in [open : BOOLEAN, pending : SUBSET Requests]
  <2>1. session \in [open : BOOLEAN, pending : SUBSET Requests]
    BY <1>1 DEF Others
  <2>2. (IF hosted THEN session.pending \cup asks ELSE session.pending) \in SUBSET Requests
    BY <2>1, <1>4
  <2> HIDE DEF asks
  <2> QED
    BY <1>3, <2>1, <2>2 DEF asks
<1>8. buf[p] \in Seq(Messages) /\ buf' \in [Nodes -> Seq(Messages)]
  BY <1>1, <1>3, BufferTaken, Names DEF Fields
<1>9. heard' \in [Participants -> Seq(Messages)]
  <2>1. heard[p] \o buf[p] \in Seq(Messages)
    BY <1>1, <1>8 DEF Fields
  <2> QED
    BY <1>1, <1>3, <2>1 DEF Fields
<1>10. Message(p) \in Messages /\ said' \in Seq(Messages)
  <2>1. said \in Seq(Messages)
    BY <1>1 DEF Fields
  <2>2. Message(p) \in Messages
    BY <2>1 DEF Message, Messages
  <2> QED
    BY <1>3, <2>1, <2>2
<1>11. held' \in [Participants -> BOOLEAN]
  <2>1. Kept(holds, release) \in BOOLEAN
    BY DEF Kept, Releases
  <2> QED
    BY <1>1, <1>3, <2>1 DEF Fields
<1>12. inbox' \in Queues
  <2> DEFINE back == IF release THEN <<Token>> ELSE <<>>
             news == <<Items(<<Message(p)>>)>>
  <2>1. inbox[Host] \in Seq(ItemTypes) /\ inbox \in [Nodes -> Seq(ItemTypes)]
    BY <1>1, Names DEF Fields, Queues
  <2>2. news \in Seq(ItemTypes)
    <3>1. <<Message(p)>> \in Seq(Messages)
      BY <1>10
    <3>2. Items(<<Message(p)>>) \in ItemTypes
      BY <3>1, ItemsTyped
    <3> QED
      BY <3>2
  <2>3. back \in Seq(ItemTypes)
    BY ItemsTyped
  <2>4. inbox' = [inbox EXCEPT ![Host] = inbox[Host] \o news \o back]
    BY <1>3
  <2> HIDE DEF back, news
  <2>5. inbox[Host] \o news \o back \in Seq(ItemTypes)
    BY <2>1, <2>2, <2>3
  <2> QED
    BY <2>1, <2>4, <2>5 DEF Queues
<1>13. Fields'
  BY <1>1, <1>3, <1>5, <1>6, <1>8, <1>9, <1>10, <1>11, <1>12 DEF Fields, hostVars
<1>14. Others'
  BY <1>1, <1>3, <1>4, <1>7 DEF Others
<1> QED
  BY <1>13, <1>14, TypePartsNext

LEMMA TakeType == ASSUME TypeOK, NEW p \in Participants, TakeTurn(p) \/ TakeAnswer(p) PROVE TypeOK'
<1>1. p \in Nodes /\ held[p] \in BOOLEAN
  BY TypeParts, Names DEF Fields
<1>2. CASE TakeTurn(p)
  <2>1. step' \in Queues
    BY <1>1, <1>2, HandledItem DEF TakeTurn
  <2> QED
    BY <1>2, <2>1, RunAgentType DEF TakeTurn
<1>3. CASE TakeAnswer(p)
  <2>1. step' \in Queues
    BY <1>1, <1>3, HandledItem DEF TakeAnswer
  <2> QED
    BY <1>1, <1>3, <2>1, RunAgentType DEF TakeAnswer
<1> QED
  BY <1>2, <1>3

\* What the caller sends.
Sent == [to : {Host}, item : ItemTypes]

LEMMA SentTypes ==
  ASSUME Others
  PROVE  ToHost(Token) \in Sent /\ Input \in Sent /\ \A r \in Requests : ToHost(Response(r)) \in Sent
<1> DEFINE m == [by |-> None, n |-> inputs + 1]
<1>1. <<m>> \in Seq(Messages)
  BY DEF Others, Messages
<1> HIDE DEF m
<1>2. Items(<<m>>) \in ItemTypes
  BY <1>1, ItemsTyped
<1>3. \A i \in ItemTypes : ToHost(i) \in Sent
  BY DEF ToHost, Sent
<1> QED
  BY <1>2, <1>3, ItemsTyped DEF Input, m

LEMMA AnswersAre ==
  ASSUME NEW answers \in SetToAllKPermutations(Requests)
  PROVE  answers \in Seq(Requests)
<1>1. IsFiniteSet(Requests)
  BY FS_Interval, GroupChatAssumption DEF Requests
<1>2. PICK s \in SUBSET Requests : answers \in SetToSeqs(s)
  BY DEF SetToAllKPermutations
<1>3. Cardinality(s) \in Nat
  BY <1>1, FS_Subset, FS_CardinalityType
<1>4. answers \in [1 .. Cardinality(s) -> s]
  BY <1>2 DEF SetToSeqs
<1> QED
  BY <1>3, <1>4

LEMMA CallerType == TypeOK /\ (Ask \/ \E r \in Requests : Answer(r)) => TypeOK'
<1> SUFFICES ASSUME TypeOK, Ask \/ \E r \in Requests : Answer(r) PROVE TypeOK'
  OBVIOUS
<1>1. Fields /\ Others /\ deliveries \in Seq(Sent)
  BY TypeParts DEF Others, Sent
<1>2. CASE Ask
  <2>1. deliveries' \in Seq(Sent)
    BY <1>1, <1>2, SentTypes DEF Ask
  <2>2. Fields' /\ Others'
    BY <1>1, <1>2, <2>1 DEF Ask, Fields, Others, hostVars, partVars, Sent
  <2> QED
    BY <2>2, TypePartsNext
<1>3. CASE \E r \in Requests : Answer(r)
  <2>1. PICK r \in Requests : Answer(r)
    BY <1>3
  <2>2. deliveries' \in Seq(Sent)
    <3>1. ToHost(Response(r)) \in Sent
      BY <1>1, SentTypes
    <3>2. deliveries' = Append(deliveries, ToHost(Response(r)))
      BY <2>1 DEF Answer
    <3> QED
      BY <1>1, <3>1, <3>2
  <2>3. Fields' /\ Others'
    BY <1>1, <2>1, <2>2 DEF Answer, Fields, Others, hostVars, partVars, Sent
  <2> QED
    BY <2>3, TypePartsNext
<1> QED
  BY <1>2, <1>3

LEMMA AgentTurnType ==
  ASSUME TypeOK, NEW new \in BOOLEAN, NEW answers \in SetToAllKPermutations(Requests),
         AgentTurn(new, answers)
  PROVE  TypeOK'
<1>1. Fields /\ Others /\ answers \in Seq(Requests)
  BY TypeParts, AnswersAre
<1>2. deliveries' \in Seq(Sent)
  <2> DEFINE first == IF new THEN <<Input>> ELSE <<>>
             mid   == [i \in DOMAIN answers |-> ToHost(Response(answers[i]))]
             final == <<ToHost(Token)>>
  <2>1. first \in Seq(Sent) /\ final \in Seq(Sent)
    BY <1>1, SentTypes
  <2>2. mid \in Seq(Sent)
    <3>1. \A i \in 1 .. Len(answers) : ToHost(Response(answers[i])) \in Sent
      BY <1>1, SentTypes
    <3>2. DOMAIN answers = 1 .. Len(answers) /\ Len(answers) \in Nat
      BY <1>1
    <3> QED
      BY <3>1, <3>2
  <2>3. deliveries' = first \o mid \o final
    BY DEF AgentTurn
  <2> HIDE DEF first, mid, final
  <2> QED
    BY <2>1, <2>2, <2>3
<1>3. session' \in [open : BOOLEAN, pending : SUBSET Requests]
  BY <1>1 DEF AgentTurn, Others
<1>4. inputs' \in Nat
  BY <1>1 DEF AgentTurn, Others
<1>5. Fields'
  BY <1>1 DEF AgentTurn, Fields, hostVars, partVars
<1>6. Others'
  BY <1>1, <1>2, <1>3, <1>4 DEF AgentTurn, Others, hostVars, partVars, Sent
<1> QED
  BY <1>5, <1>6, TypePartsNext

LEMMA RewindType ==
  ASSUME TypeOK, Rewind, session' \in [open : BOOLEAN, pending : SUBSET Requests] PROVE TypeOK'
<1>1. Fields /\ Others
  BY TypeParts
<1>2. Fields'
  BY <1>1 DEF Others, Checkpoints, Rewind, RestoredToken, RestoredCursor, Fields
<1>3. deliveries' \in Seq(Sent)
  BY DEF Rewind
<1>4. Others'
  <2>1. step' \in Queues /\ running' \in BOOLEAN
    BY ItemsTyped DEF Rewind
  <2>2. restarts' \in Nat /\ inputs' \in Nat /\ raised' \in 0 .. MaxRequests
    BY <1>1 DEF Rewind, Others
  <2>3. setup' \in Setups /\ saved' \in Checkpoints
    BY <1>1 DEF Rewind, Others
  <2> QED
    BY <1>3, <2>1, <2>2, <2>3 DEF Others, Sent
<1> QED
  BY <1>2, <1>4, TypePartsNext

LEMMA SessionType == TypeOK /\ (Restore \/ CloseRun \/ AbortRun) => TypeOK'
<1> SUFFICES ASSUME TypeOK, Restore \/ CloseRun \/ AbortRun PROVE TypeOK'
  OBVIOUS
<1>1. Fields /\ Others
  BY TypeParts
<1>2. CASE Restore
  BY <1>1, <1>2, RewindType DEF Restore, Others
<1>3. CASE AbortRun
  BY <1>1, <1>3, RewindType DEF AbortRun, Others
<1>4. CASE CloseRun
  BY <1>1, <1>4, TypePartsNext DEF CloseRun, Fields, Others, hostVars, partVars
<1> QED
  BY <1>2, <1>3, <1>4

LEMMA TypeStep == TypeOK /\ [Next]_vars => TypeOK'
<1> SUFFICES ASSUME TypeOK, [Next]_vars PROVE TypeOK'
  OBVIOUS
<1>1. CASE Step
  BY <1>1, DeliverType, StepTypes, AccumulateType, TerminateType, DispatchType, DeclineType, TakeType
     DEF Step
<1>2. CASE \E new \in BOOLEAN, answers \in SetToAllKPermutations(Requests) : AgentTurn(new, answers)
  BY <1>2, AgentTurnType
<1>3. CASE UNCHANGED vars
  BY <1>3, TypeParts, TypePartsNext DEF vars, hostVars, partVars, Fields, Others
<1> QED
  BY <1>1, <1>2, <1>3, CallerType, SessionType DEF Next

\* Every state is of its type, in every chat of any participants, turns and requests;
\* what a checkpoint holds is always a state the executors can take back.
THEOREM TypeCorrect == Spec => []TypeOK
<1> QED
  BY TypeInit, TypeStep, PTL DEF Spec

-----------------------------------------------------------------------------
(* Where in a queue the token is.                                          *)

Has(q, e)    == \E i \in DOMAIN q : q[i] = e
Single(q, e) == \A i, j \in DOMAIN q : q[i] = e /\ q[j] = e => i = j

LEMMA HasNothing == ASSUME NEW e PROVE ~Has(<<>>, e) /\ Single(<<>>, e)
  BY DEF Has, Single

LEMMA HasOne == ASSUME NEW e, NEW d PROVE Single(<<d>>, e) /\ (Has(<<d>>, e) <=> d = e)
  BY DEF Has, Single

LEMMA HasAppend ==
  ASSUME NEW S, NEW q \in Seq(S), NEW d \in S, NEW e
  PROVE  /\ Has(Append(q, d), e) <=> (Has(q, e) \/ d = e)
         /\ (Single(q, e) /\ ~(Has(q, e) /\ d = e)) => Single(Append(q, d), e)
<1> DEFINE r == Append(q, d)
<1>1. /\ DOMAIN q = 1 .. Len(q) /\ Len(q) \in Nat
      /\ DOMAIN r = 1 .. Len(q) + 1
      /\ \A i \in 1 .. Len(q) : r[i] = q[i]
      /\ r[Len(q) + 1] = d
  OBVIOUS
<1> HIDE DEF r
<1>2. Has(r, e) <=> (Has(q, e) \/ d = e)
  BY <1>1 DEF Has
<1>3. ASSUME Single(q, e), ~(Has(q, e) /\ d = e) PROVE Single(r, e)
  BY <1>1, <1>3 DEF Has, Single
<1> QED
  BY <1>2, <1>3 DEF r

LEMMA HasConcat ==
  ASSUME NEW S, NEW q \in Seq(S), NEW r \in Seq(S), NEW e
  PROVE  /\ Has(q \o r, e) <=> (Has(q, e) \/ Has(r, e))
         /\ (Single(q, e) /\ Single(r, e) /\ ~(Has(q, e) /\ Has(r, e))) => Single(q \o r, e)
<1> DEFINE c == q \o r
<1>1. /\ DOMAIN q = 1 .. Len(q) /\ Len(q) \in Nat
      /\ DOMAIN r = 1 .. Len(r) /\ Len(r) \in Nat
      /\ DOMAIN c = 1 .. Len(q) + Len(r)
      /\ \A i \in 1 .. Len(q) + Len(r) : c[i] = IF i <= Len(q) THEN q[i] ELSE r[i - Len(q)]
  OBVIOUS
<1> HIDE DEF c
<1>2. Has(c, e) => (Has(q, e) \/ Has(r, e))
  <2> SUFFICES ASSUME NEW i \in DOMAIN c, c[i] = e PROVE Has(q, e) \/ Has(r, e)
    BY DEF Has
  <2>1. CASE i <= Len(q)
    BY <1>1, <2>1 DEF Has
  <2>2. CASE i > Len(q)
    <3>1. i - Len(q) \in DOMAIN r /\ r[i - Len(q)] = e
      BY <1>1, <2>2
    <3> QED
      BY <3>1 DEF Has
  <2> QED
    BY <1>1, <2>1, <2>2
<1>3. Has(q, e) => Has(c, e)
  BY <1>1 DEF Has
<1>4. Has(r, e) => Has(c, e)
  <2> SUFFICES ASSUME NEW i \in DOMAIN r, r[i] = e PROVE Has(c, e)
    BY DEF Has
  <2>1. i + Len(q) \in DOMAIN c /\ c[i + Len(q)] = e
    BY <1>1
  <2> QED
    BY <2>1 DEF Has
<1>5. ASSUME Single(q, e), Single(r, e), ~(Has(q, e) /\ Has(r, e)) PROVE Single(c, e)
  <2> SUFFICES ASSUME NEW i \in DOMAIN c, NEW j \in DOMAIN c, c[i] = e, c[j] = e PROVE i = j
    BY DEF Single
  <2>1. \A k \in DOMAIN c : (c[k] = e /\ k > Len(q)) => (k - Len(q) \in DOMAIN r /\ r[k - Len(q)] = e)
    BY <1>1
  <2>2. \A k \in DOMAIN c : (c[k] = e /\ k <= Len(q)) => (k \in DOMAIN q /\ q[k] = e)
    BY <1>1
  <2>3. CASE i <= Len(q) /\ j <= Len(q)
    BY <1>5, <2>2, <2>3 DEF Single
  <2>4. CASE i > Len(q) /\ j > Len(q)
    <3>1. i - Len(q) = j - Len(q)
      BY <1>5, <2>1, <2>4 DEF Single
    <3> QED
      BY <1>1, <3>1
  <2>5. CASE (i <= Len(q) /\ j > Len(q)) \/ (i > Len(q) /\ j <= Len(q))
    BY <1>5, <2>1, <2>2, <2>5 DEF Has
  <2> QED
    BY <1>1, <2>3, <2>4, <2>5
<1> QED
  BY <1>2, <1>3, <1>4, <1>5 DEF c

LEMMA HasTail ==
  ASSUME NEW S, NEW q \in Seq(S), q # <<>>, NEW e
  PROVE  /\ Has(Tail(q), e) => Has(q, e)
         /\ Head(q) = e => Has(q, e)
         /\ Single(q, e) => Single(Tail(q), e)
         /\ (Single(q, e) /\ Head(q) = e) => ~Has(Tail(q), e)
<1> DEFINE r == Tail(q)
<1>1. /\ DOMAIN q = 1 .. Len(q) /\ Len(q) \in Nat \ {0} /\ Head(q) = q[1]
      /\ DOMAIN r = 1 .. Len(q) - 1
      /\ \A i \in 1 .. Len(q) - 1 : r[i] = q[i + 1] /\ i + 1 \in DOMAIN q
  OBVIOUS
<1> HIDE DEF r
<1>2. Has(r, e) => Has(q, e)
  BY <1>1 DEF Has
<1>3. Head(q) = e => Has(q, e)
  BY <1>1 DEF Has
<1>4. ASSUME Single(q, e) PROVE Single(r, e)
  <2> SUFFICES ASSUME NEW i \in DOMAIN r, NEW j \in DOMAIN r, r[i] = e, r[j] = e PROVE i = j
    BY DEF Single
  <2>1. i + 1 = j + 1
    BY <1>1, <1>4 DEF Single
  <2> QED
    BY <1>1, <2>1
<1>5. ASSUME Single(q, e), Head(q) = e, Has(r, e) PROVE FALSE
  <2>1. PICK i \in DOMAIN r : r[i] = e
    BY <1>5 DEF Has
  <2>2. i + 1 = 1
    BY <1>1, <1>5, <2>1 DEF Single
  <2> QED
    BY <1>1, <2>1, <2>2
<1> QED
  BY <1>2, <1>3, <1>4, <1>5 DEF r

-----------------------------------------------------------------------------
(* One turn: the token is in one place, once, or a participant holds it.   *)

Places == {"caller", "inbox", "step", "held"} \X Nodes

\* Whether the turn is at a place, in queues and a state of the participants.
At(t, sent, ib, st, hd) ==
  \/ t = <<"caller", Host>> /\ Has(sent, ToHost(Token))
  \/ \E x \in Nodes : t = <<"inbox", x>> /\ Has(ib[x], Token)
  \/ \E x \in Nodes : t = <<"step", x>> /\ Has(st[x], Token)
  \/ \E p \in Participants : t = <<"held", p>> /\ hd[p]

Once(sent, ib, st) ==
  Single(sent, ToHost(Token)) /\ \A x \in Nodes : Single(ib[x], Token) /\ Single(st[x], Token)

\* The places where a participant has the turn.
Of(p) == {<<"inbox", p>>, <<"step", p>>, <<"held", p>>}

One(sent, ib, st, hd, spk) ==
  /\ \A t, u \in Places : At(t, sent, ib, st, hd) /\ At(u, sent, ib, st, hd) => t = u
  /\ Once(sent, ib, st)
  /\ \A p \in Participants : \A t \in Of(p) : At(t, sent, ib, st, hd) => spk = p

TurnInv ==
  ~hosted => /\ One(deliveries, inbox, step, held, speaker)
             /\ One(<<>>, saved.inbox, Empty, saved.held, saved.speaker)

\* The turn is nowhere it was not.
LEMMA Fewer ==
  ASSUME NEW s1, NEW i1, NEW t1, NEW h1, NEW s2, NEW i2, NEW t2, NEW h2, NEW k,
         One(s1, i1, t1, h1, k), Once(s2, i2, t2),
         \A t \in Places : At(t, s2, i2, t2, h2) => At(t, s1, i1, t1, h1)
  PROVE  One(s2, i2, t2, h2, k)
<1>1. \A p \in Participants : Of(p) \subseteq Places
  BY Names DEF Of, Places
<1> QED
  BY <1>1 DEF One

\* The turn is in one place, with whom the host has chosen or with the host.
LEMMA Alone ==
  ASSUME NEW s2, NEW i2, NEW t2, NEW h2, NEW k, NEW place \in Places, Once(s2, i2, t2),
         \A t \in Places : At(t, s2, i2, t2, h2) => t = place,
         \A p \in Participants : place \in Of(p) => k = p
  PROVE  One(s2, i2, t2, h2, k)
<1>1. \A p \in Participants : Of(p) \subseteq Places
  BY Names DEF Of, Places
<1> QED
  BY <1>1 DEF One

\* The places are different, and the turn is in each as its part of the state says.
LEMMA AtEach ==
  ASSUME NEW sent, NEW ib, NEW st, NEW hd
  PROVE  /\ At(<<"caller", Host>>, sent, ib, st, hd) <=> Has(sent, ToHost(Token))
         /\ \A x \in Nodes : At(<<"inbox", x>>, sent, ib, st, hd) <=> Has(ib[x], Token)
         /\ \A x \in Nodes : At(<<"step", x>>, sent, ib, st, hd) <=> Has(st[x], Token)
         /\ \A p \in Participants : At(<<"held", p>>, sent, ib, st, hd) <=> hd[p] = TRUE
  BY DEF At

\* Nowhere is the turn in empty queues, nor held by nobody.
LEMMA AtEmpty == Once(<<>>, Empty, Empty) /\ \A x \in Nodes : ~Has(Empty[x], Token)
  BY HasNothing DEF Once, Empty

\* The state has at most one turn, and who has it is the speaker: what OneTurn says.
LEMMA OneMeans == TypeOK /\ TurnInv => OneTurn
<1> SUFFICES ASSUME TypeOK, One(deliveries, inbox, step, held, speaker)
             PROVE  /\ \A t, u \in Turns : t = u
                    /\ \A p \in Participants : held[p] => speaker = p
  BY DEF TurnInv, OneTurn
<1> DEFINE here(t) == At(t, deliveries, inbox, step, held)
<1>1. ASSUME NEW p \in Participants, held[p] PROVE speaker = p
  <2>1. here(<<"held", p>>)
    BY <1>1 DEF At
  <2> QED
    BY <2>1 DEF One, Of
<1>2. deliveries \in Seq(Sent)
  BY TypeParts DEF Others, Sent
<1>3. \A i \in DOMAIN deliveries : deliveries[i].item = Token => deliveries[i] = ToHost(Token)
  <2>1. \A d \in Sent : d.item = Token => d = ToHost(Token)
    BY DEF Sent, ToHost
  <2>2. \A i \in DOMAIN deliveries : deliveries[i] \in Sent
    BY <1>2
  <2> QED
    BY <2>1, <2>2
<1> DEFINE place(t) == IF t[1] \in {"inbox", "step"} THEN <<t[1], t[2][1]>>
                       ELSE IF t[1] = "caller" THEN <<"caller", Host>> ELSE t
<1>4. ASSUME NEW t \in Turns PROVE here(place(t)) /\ place(t) \in Places
  <2>1. CASE \E i \in DOMAIN deliveries : t = <<"caller", i>> /\ deliveries[i].item = Token
    <3>1. place(t) = <<"caller", Host>>
      BY <2>1
    <3>2. Has(deliveries, ToHost(Token))
      BY <2>1, <1>3 DEF Has
    <3> QED
      BY <3>1, <3>2, Names DEF At, Places
  <2>2. CASE \E x \in Nodes : \E j \in DOMAIN inbox[x] : t = <<"inbox", <<x, j>>>> /\ inbox[x][j] = Token
    <3>1. PICK x \in Nodes : \E j \in DOMAIN inbox[x] : t = <<"inbox", <<x, j>>>> /\ inbox[x][j] = Token
      BY <2>2
    <3>2. place(t) = <<"inbox", x>> /\ Has(inbox[x], Token)
      BY <3>1 DEF Has
    <3> QED
      BY <3>2 DEF At, Places
  <2>3. CASE \E x \in Nodes : \E j \in DOMAIN step[x] : t = <<"step", <<x, j>>>> /\ step[x][j] = Token
    <3>1. PICK x \in Nodes : \E j \in DOMAIN step[x] : t = <<"step", <<x, j>>>> /\ step[x][j] = Token
      BY <2>3
    <3>2. place(t) = <<"step", x>> /\ Has(step[x], Token)
      BY <3>1 DEF Has
    <3> QED
      BY <3>2 DEF At, Places
  <2>4. CASE \E p \in Participants : t = <<"held", p>> /\ held[p]
    <3>1. place(t) = t
      BY <2>4
    <3> QED
      BY <2>4, <3>1, Names DEF At, Places
  <2> QED
    BY <2>1, <2>2, <2>3, <2>4 DEF Turns, TokensAt
<1>5. ASSUME NEW t \in Turns, NEW u \in Turns PROVE t = u
  <2>1. place(t) = place(u)
    BY <1>4, <1>5 DEF One
  <2>2. CASE \E i \in DOMAIN deliveries : t = <<"caller", i>> /\ deliveries[i].item = Token
    <3>1. \E j \in DOMAIN deliveries : u = <<"caller", j>> /\ deliveries[j].item = Token
      BY <2>1, <2>2 DEF Turns, TokensAt
    <3> QED
      BY <2>2, <3>1, <1>3 DEF One, Once, Single
  <2>3. CASE \E x \in Nodes : \E j \in DOMAIN inbox[x] : t = <<"inbox", <<x, j>>>> /\ inbox[x][j] = Token
    <3>1. PICK x \in Nodes : \E j \in DOMAIN inbox[x] : t = <<"inbox", <<x, j>>>> /\ inbox[x][j] = Token
      BY <2>3
    <3>2. \E k \in DOMAIN inbox[x] : u = <<"inbox", <<x, k>>>> /\ inbox[x][k] = Token
      BY <2>1, <3>1 DEF Turns, TokensAt
    <3> QED
      BY <3>1, <3>2 DEF One, Once, Single
  <2>4. CASE \E x \in Nodes : \E j \in DOMAIN step[x] : t = <<"step", <<x, j>>>> /\ step[x][j] = Token
    <3>1. PICK x \in Nodes : \E j \in DOMAIN step[x] : t = <<"step", <<x, j>>>> /\ step[x][j] = Token
      BY <2>4
    <3>2. \E k \in DOMAIN step[x] : u = <<"step", <<x, k>>>> /\ step[x][k] = Token
      BY <2>1, <3>1 DEF Turns, TokensAt
    <3> QED
      BY <3>1, <3>2 DEF One, Once, Single
  <2>5. CASE \E p \in Participants : t = <<"held", p>> /\ held[p]
    BY <2>1, <2>5 DEF Turns, TokensAt
  <2> QED
    BY <2>2, <2>3, <2>4, <2>5 DEF Turns, TokensAt
<1> QED
  BY <1>1, <1>5

\* The two parts of TurnInv: the state, and the checkpoint a restart goes back to.
NowOne   == One(deliveries, inbox, step, held, speaker)
SavedOne == One(<<>>, saved.inbox, Empty, saved.held, saved.speaker)

\* Handling an item leaves no new token in a step, and takes the one it handles.
LEMMA HandledTurn ==
  ASSUME TypeOK, NEW x \in Nodes, NEW kind, Handles(x, kind), \A y \in Nodes : Single(step[y], Token)
  PROVE  /\ \A y \in Nodes : Has(step'[y], Token) => Has(step[y], Token)
         /\ \A y \in Nodes : Single(step'[y], Token)
         /\ kind = "token" => Has(step[x], Token) /\ ~Has(step'[x], Token)
<1>1. step \in [Nodes -> Seq(ItemTypes)] /\ step[x] # <<>>
  BY DEF TypeOK, Handles, Queues
<1>2. step[x] \in Seq(ItemTypes) /\ step'[x] = Tail(step[x]) /\ \A y \in Nodes \ {x} : step'[y] = step[y]
  BY <1>1, HandledItem
<1>3. kind = "token" => Head(step[x]) = Token
  BY HandledItem, ItemParts DEF Handles
<1>4. /\ Has(Tail(step[x]), Token) => Has(step[x], Token)
      /\ Head(step[x]) = Token => Has(step[x], Token)
      /\ Single(Tail(step[x]), Token)
      /\ Head(step[x]) = Token => ~Has(Tail(step[x]), Token)
  BY <1>1, <1>2, HasTail
<1> QED
  BY <1>2, <1>3, <1>4

\* Who handles the token has the only one, and is the speaker if he takes part.
LEMMA TokenHandled ==
  ASSUME TypeOK, NowOne, NEW x \in Nodes, Handles(x, "token")
  PROVE  /\ \A y \in Nodes : ~Has(inbox[y], Token) /\ ~Has(step'[y], Token) /\ Single(step'[y], Token)
         /\ ~Has(deliveries, ToHost(Token)) /\ \A p \in Participants : ~held[p]
         /\ x \in Participants => speaker = x
<1> DEFINE here(t) == At(t, deliveries, inbox, step, held)
<1>1. \A y \in Nodes : Single(step[y], Token)
  BY DEF NowOne, One, Once
<1>2. here(<<"step", x>>)
  BY <1>1, HandledTurn, AtEach
<1>3. \A t \in Places : here(t) => t = <<"step", x>>
  <2>1. <<"step", x>> \in Places
    BY DEF Places
  <2> QED
    BY <1>2, <2>1 DEF NowOne, One
<1>4. \A y \in Nodes : ~Has(inbox[y], Token)
  <2> SUFFICES ASSUME NEW y \in Nodes, Has(inbox[y], Token) PROVE FALSE
    OBVIOUS
  <2>1. <<"inbox", y>> \in Places /\ here(<<"inbox", y>>)
    BY AtEach DEF Places
  <2> QED
    BY <1>3, <2>1
<1>5. \A y \in Nodes : ~Has(step'[y], Token)
  <2> SUFFICES ASSUME NEW y \in Nodes, Has(step'[y], Token) PROVE FALSE
    OBVIOUS
  <2>1. Has(step[y], Token) /\ y # x
    BY <1>1, HandledTurn
  <2>2. <<"step", y>> \in Places /\ here(<<"step", y>>)
    BY <2>1, AtEach DEF Places
  <2>3. <<"step", y>> = <<"step", x>>
    BY <1>3, <2>2
  <2> QED
    BY <2>1, <2>3
<1>6. ~Has(deliveries, ToHost(Token))
  <2> SUFFICES ASSUME Has(deliveries, ToHost(Token)) PROVE FALSE
    OBVIOUS
  <2>1. <<"caller", Host>> \in Places /\ here(<<"caller", Host>>)
    BY AtEach, Names DEF Places
  <2> QED
    BY <1>3, <2>1
<1>7. \A p \in Participants : ~held[p]
  <2> SUFFICES ASSUME NEW p \in Participants, held[p] PROVE FALSE
    OBVIOUS
  <2>1. <<"held", p>> \in Places /\ here(<<"held", p>>)
    BY Names DEF Places, At
  <2> QED
    BY <1>3, <2>1
<1>8. x \in Participants => speaker = x
  BY <1>2 DEF NowOne, One, Of
<1> QED
  BY <1>1, <1>4, <1>5, <1>6, <1>7, <1>8, HandledTurn

\* After the host's turn or at the end of a chat nobody has the turn.
LEMMA NoneLeft ==
  ASSUME NEW sent, NEW ib, NEW st, NEW hd, NEW k, ~Has(sent, ToHost(Token)), Once(sent, ib, st),
         \A x \in Nodes : ~Has(ib[x], Token) /\ ~Has(st[x], Token),
         \A p \in Participants : ~hd[p]
  PROVE  One(sent, ib, st, hd, k)
<1>1. \A t \in Places : ~At(t, sent, ib, st, hd)
  BY DEF At
<1>2. \A p \in Participants : Of(p) \subseteq Places
  BY Names DEF Of, Places
<1> QED
  BY <1>1, <1>2 DEF One

LEMMA TurnInit == Init => TurnInv
<1> SUFFICES ASSUME Init PROVE NowOne /\ SavedOne
  BY DEF TurnInv, NowOne, SavedOne
<1>1. /\ deliveries = <<>> /\ inbox = Empty /\ step = Empty
      /\ held = [p \in Participants |-> FALSE] /\ saved.inbox = inbox /\ saved.held = held
  BY DEF Init, Snapshot
<1>2. \A k : One(<<>>, Empty, Empty, [p \in Participants |-> FALSE], k)
  BY NoneLeft, AtEmpty, HasNothing
<1> QED
  BY <1>1, <1>2 DEF NowOne, SavedOne

\* A token the caller has sent goes to the host.
LEMMA DeliverTurn == TypeOK /\ NowOne /\ Deliver => NowOne'
<1> SUFFICES ASSUME TypeOK, NowOne, Deliver PROVE NowOne'
  OBVIOUS
<1> DEFINE d == Head(deliveries)
           o == IF d.item.req = None THEN d.to ELSE owner[d.item.req]
<1>1. deliveries \in Seq(Sent) /\ deliveries # <<>> /\ Fields
  BY TypeParts DEF Others, Sent, Deliver
<1>2. d \in Sent /\ deliveries' = Tail(deliveries)
  BY <1>1 DEF Deliver
<1>3. d.item \in ItemTypes /\ d.to = Host
  BY <1>2 DEF Sent
<1>4. o \in Nodes
  BY <1>1, <1>3, ItemParts, Names DEF Fields, Deliver
<1>5. inbox' = [inbox EXCEPT ![o] = Append(inbox[o], d.item)] /\ inbox \in [Nodes -> Seq(ItemTypes)]
  BY <1>1 DEF Deliver, Fields, Queues
<1>6. /\ Has(inbox'[o], Token) <=> (Has(inbox[o], Token) \/ d.item = Token)
      /\ (Single(inbox[o], Token) /\ ~(Has(inbox[o], Token) /\ d.item = Token)) => Single(inbox'[o], Token)
      /\ \A y \in Nodes \ {o} : inbox'[y] = inbox[y]
  <2>1. inbox[o] \in Seq(ItemTypes) /\ inbox'[o] = Append(inbox[o], d.item)
    BY <1>4, <1>5
  <2> HIDE DEF d, o
  <2> QED
    BY <2>1, <1>3, <1>4, <1>5, HasAppend
<1>7. /\ Has(Tail(deliveries), ToHost(Token)) => Has(deliveries, ToHost(Token))
      /\ Single(Tail(deliveries), ToHost(Token))
      /\ d = ToHost(Token) => Has(deliveries, ToHost(Token)) /\ ~Has(Tail(deliveries), ToHost(Token))
  BY <1>1, HasTail DEF NowOne, One, Once
<1>8. UNCHANGED <<step, held, speaker>>
  BY DEF Deliver, hostVars, partVars
<1>9. CASE d.item = Token
  <2>1. o = Host /\ d = ToHost(Token)
    <3>1. Token.req = None
      BY DEF Token
    <3>2. \A e \in Sent : (e.item = Token /\ e.to = Host) => e = ToHost(Token)
      BY DEF Sent, ToHost
    <3> QED
      BY <1>2, <1>3, <1>9, <3>1, <3>2
  <2>2. \A t \in Places : At(t, deliveries, inbox, step, held) => t = <<"caller", Host>>
    <3>1. At(<<"caller", Host>>, deliveries, inbox, step, held) /\ <<"caller", Host>> \in Places
      BY <2>1, <1>7, AtEach, Names DEF Places
    <3> QED
      BY <3>1 DEF NowOne, One
  <2>3. ~Has(inbox[Host], Token)
    <3>1. <<"inbox", Host>> \in Places
      BY Names DEF Places
    <3> QED
      BY <2>2, <3>1, AtEach, Names
  <2>4. Once(deliveries', inbox', step')
    BY <1>2, <1>6, <1>7, <1>8, <2>1, <2>3 DEF NowOne, One, Once
  <2>5. ASSUME NEW t \in Places, At(t, deliveries', inbox', step', held') PROVE t = <<"inbox", Host>>
    <3>1. ~Has(deliveries', ToHost(Token))
      BY <1>2, <1>7, <2>1
    <3>2. ASSUME NEW x \in Nodes, t = <<"inbox", x>>, Has(inbox'[x], Token) PROVE x = Host
      <4> SUFFICES ASSUME x # Host PROVE FALSE
        OBVIOUS
      <4>1. At(<<"inbox", x>>, deliveries, inbox, step, held)
        BY <1>6, <2>1, <3>2, AtEach
      <4> QED
        BY <4>1, <2>2, <3>2
    <3>3. ASSUME NEW x \in Nodes, t = <<"step", x>>, Has(step'[x], Token) PROVE FALSE
      <4>1. At(<<"step", x>>, deliveries, inbox, step, held)
        BY <1>8, <3>3, AtEach
      <4> QED
        BY <4>1, <2>2, <3>3
    <3>4. ASSUME NEW p \in Participants, t = <<"held", p>>, held'[p] PROVE FALSE
      <4>1. At(<<"held", p>>, deliveries, inbox, step, held)
        BY <1>8, <3>4 DEF At
      <4> QED
        BY <4>1, <2>2, <3>4
    <3> QED
      BY <2>5, <3>1, <3>2, <3>3, <3>4 DEF At
  <2>6. <<"inbox", Host>> \in Places /\ \A p \in Participants : <<"inbox", Host>> \notin Of(p)
    BY Names DEF Places, Of
  <2> HIDE DEF d, o
  <2> QED
    BY <2>4, <2>5, <2>6, Alone DEF NowOne
<1>10. CASE d.item # Token
  <2>1. Once(deliveries', inbox', step')
    BY <1>2, <1>6, <1>7, <1>8, <1>10, <1>4 DEF NowOne, One, Once
  <2>2. \A t \in Places : At(t, deliveries', inbox', step', held') => At(t, deliveries, inbox, step, held)
    BY <1>2, <1>6, <1>7, <1>8, <1>10 DEF At
  <2> HIDE DEF d, o
  <2> QED
    BY <2>1, <2>2, <1>8, Fewer DEF NowOne
<1> QED
  BY <1>9, <1>10

\* A step takes the queues over, and what is in a checkpoint has at most one turn.
LEMMA BeginTurn == TypeOK /\ NowOne /\ BeginStep => NowOne'
<1> SUFFICES ASSUME TypeOK, NowOne, BeginStep PROVE NowOne'
  OBVIOUS
<1>1. step' = inbox /\ inbox' = Empty /\ UNCHANGED <<deliveries, held, speaker>>
  BY DEF BeginStep, hostVars, partVars
<1> DEFINE here(t) == At(t, deliveries, inbox, step, held)
<1>2. Once(deliveries', inbox', step')
  BY <1>1, AtEmpty DEF NowOne, One, Once
<1> DEFINE there(t) == At(t, deliveries', inbox', step', held')
           back(t)  == IF t[1] = "step" THEN <<"inbox", t[2]>> ELSE t
<1>3. ASSUME NEW t \in Places, there(t) PROVE here(back(t)) /\ back(t) \in Places /\ t[1] # "inbox"
  <2>1. CASE t = <<"caller", Host>> /\ Has(deliveries', ToHost(Token))
    BY <1>1, <2>1 DEF At
  <2>2. CASE \E x \in Nodes : t = <<"inbox", x>> /\ Has(inbox'[x], Token)
    BY <1>1, <2>2, AtEmpty
  <2>3. CASE \E x \in Nodes : t = <<"step", x>> /\ Has(step'[x], Token)
    BY <1>1, <2>3 DEF At, Places
  <2>4. CASE \E p \in Participants : t = <<"held", p>> /\ held'[p]
    BY <1>1, <1>3, <2>4 DEF At
  <2> QED
    BY <1>3, <2>1, <2>2, <2>3, <2>4 DEF At
<1>4. ASSUME NEW t \in Places, NEW u \in Places, there(t), there(u) PROVE t = u
  <2>1. back(t) = back(u)
    BY <1>3, <1>4 DEF NowOne, One
  <2>2. t = <<t[1], t[2]>> /\ u = <<u[1], u[2]>>
    BY DEF Places
  <2>3. t[1] # "inbox" /\ u[1] # "inbox"
    BY <1>3, <1>4
  <2> QED
    BY <2>1, <2>2, <2>3
<1>5. ASSUME NEW p \in Participants, NEW t \in Of(p), there(t) PROVE speaker' = p
  <2>1. t \in Places /\ back(t) \in Of(p)
    BY <1>5, Names DEF Of, Places
  <2> QED
    BY <1>1, <1>3, <1>5, <2>1 DEF NowOne, One
<1> QED
  BY <1>2, <1>4, <1>5 DEF NowOne, One

LEMMA EndTurn == TypeOK /\ NowOne /\ SavedOne /\ EndStep => NowOne' /\ SavedOne'
<1> SUFFICES ASSUME TypeOK, NowOne, SavedOne, EndStep PROVE NowOne' /\ SavedOne'
  OBVIOUS
<1>1. UNCHANGED <<deliveries, inbox, step, held, speaker>>
  BY DEF EndStep, hostVars, partVars
<1>2. NowOne'
  BY <1>1 DEF NowOne
<1>3. CASE saved' = saved
  BY <1>2, <1>3 DEF SavedOne
<1>4. CASE saved' = Snapshot
  <2>1. saved'.inbox = inbox /\ saved'.held = held /\ saved'.speaker = speaker
    BY <1>4 DEF Snapshot
  <2>2. Once(<<>>, inbox, Empty)
    BY AtEmpty, HasNothing DEF NowOne, One, Once
  <2>3. \A t \in Places : At(t, <<>>, inbox, Empty, held) => At(t, deliveries, inbox, step, held)
    BY AtEmpty, HasNothing DEF At
  <2>4. One(<<>>, inbox, Empty, held, speaker)
    BY <2>2, <2>3, Fewer DEF NowOne
  <2> QED
    BY <1>2, <2>1, <2>4 DEF SavedOne
<1> QED
  BY <1>3, <1>4 DEF EndStep

LEMMA AccumulateTurn == ASSUME TypeOK, NowOne, NEW x \in Nodes, Accumulate(x) PROVE NowOne'
<1>1. UNCHANGED <<deliveries, inbox, held, speaker>> /\ Handles(x, "messages")
  BY DEF Accumulate, hostVars, partVars
<1>2. \A y \in Nodes : (Has(step'[y], Token) => Has(step[y], Token)) /\ Single(step'[y], Token)
  BY <1>1, HandledTurn DEF NowOne, One, Once
<1>3. Once(deliveries', inbox', step')
  BY <1>1, <1>2 DEF NowOne, One, Once
<1>4. \A t \in Places : At(t, deliveries', inbox', step', held') => At(t, deliveries, inbox, step, held)
  BY <1>1, <1>2 DEF At
<1> QED
  BY <1>1, <1>3, <1>4, Fewer DEF NowOne

\* A broadcast sends the token to the next speaker, once, and to nobody else.
LEMMA BroadcastTurn ==
  ASSUME Fields, NEW new \in Seq(Messages), NEW next, Broadcast(new, next),
         \A y \in Nodes : Single(inbox[y], Token) /\ ~Has(inbox[y], Token)
  PROVE  \A x \in Nodes : Single(inbox'[x], Token) /\ (Has(inbox'[x], Token) => x = next)
<1> SUFFICES ASSUME NEW x \in Nodes PROVE Single(inbox'[x], Token) /\ (Has(inbox'[x], Token) => x = next)
  OBVIOUS
<1> DEFINE news == IF new # <<>> /\ x \in Audience(next) THEN <<Items(new)>> ELSE <<>>
           turn == IF x = next THEN <<Token>> ELSE <<>>
<1>1. inbox'[x] = inbox[x] \o news \o turn /\ inbox[x] \in Seq(ItemTypes)
  BY DEF Broadcast, Fields, Queues
<1>2. Items(new) # Token /\ Items(new) \in ItemTypes /\ Token \in ItemTypes
  BY ItemsTyped DEF Items, Token
<1>3. news \in Seq(ItemTypes) /\ turn \in Seq(ItemTypes)
  BY <1>2
<1>4. ~Has(news, Token) /\ Single(news, Token)
  BY <1>2, HasNothing, HasOne
<1>5. Single(turn, Token) /\ (Has(turn, Token) => x = next)
  BY HasNothing, HasOne
<1> HIDE DEF news, turn
<1>6. inbox[x] \o news \in Seq(ItemTypes)
  BY <1>1, <1>3
<1>7. ~Has(inbox[x] \o news, Token) /\ Single(inbox[x] \o news, Token)
  BY <1>1, <1>3, <1>4, HasConcat
<1>8. /\ Has(inbox[x] \o news \o turn, Token) <=> (Has(inbox[x] \o news, Token) \/ Has(turn, Token))
      /\ Single(inbox[x] \o news \o turn, Token)
  BY <1>3, <1>5, <1>6, <1>7, HasConcat
<1> QED
  BY <1>1, <1>5, <1>7, <1>8

\* The host's turn takes the token; it goes to whom he has chosen, or to nobody.
LEMMA HostTurn ==
  ASSUME TypeOK, NowOne, Handles(Host, "token"), UNCHANGED <<deliveries, held>>,
         NEW next \in Participants \cup {None}, next \in Participants => speaker' = next,
         \A x \in Nodes : Single(inbox'[x], Token) /\ (Has(inbox'[x], Token) => x = next)
  PROVE  NowOne'
<1>1. /\ \A y \in Nodes : ~Has(inbox[y], Token) /\ ~Has(step'[y], Token) /\ Single(step'[y], Token)
      /\ ~Has(deliveries, ToHost(Token)) /\ \A p \in Participants : ~held[p]
  BY TokenHandled, Names
<1>2. Once(deliveries', inbox', step')
  BY <1>1 DEF NowOne, One, Once
<1>3. CASE next = None
  <2>1. \A x \in Nodes : x # None
    BY GroupChatAssumption, Names DEF Nodes
  <2>2. \A x \in Nodes : ~Has(inbox'[x], Token)
    BY <1>3, <2>1
  <2> QED
    BY <1>1, <1>2, <2>2, NoneLeft DEF NowOne
<1>4. CASE next \in Participants
  <2>1. <<"inbox", next>> \in Places
    BY <1>4, Names DEF Places
  <2>2. \A t \in Places : At(t, deliveries', inbox', step', held') => t = <<"inbox", next>>
    BY <1>1 DEF At
  <2>3. \A p \in Participants : <<"inbox", next>> \in Of(p) => speaker' = p
    BY <1>4 DEF Of
  <2> QED
    BY <1>2, <2>1, <2>2, <2>3, Alone DEF NowOne
<1> QED
  BY <1>3, <1>4

LEMMA ManagerTurn ==
  ASSUME TypeOK, NowOne,
         Terminate \/ (\E next \in Participants : Dispatch(next))
           \/ (\E next \in Participants \cup {None} : Decline(next))
  PROVE  NowOne'
<1>1. Fields /\ buf[Host] \in Seq(Messages)
  BY TypeParts, TranscriptType
<1>2. Handles(Host, "token") /\ UNCHANGED <<deliveries, held>>
  BY DEF Terminate, Dispatch, Decline, HostRest, partVars
<1>3. \A y \in Nodes : Single(inbox[y], Token) /\ ~Has(inbox[y], Token)
  BY <1>2, TokenHandled, Names DEF NowOne, One, Once
<1>4. CASE Terminate
  <2>1. inbox' = inbox
    BY <1>4 DEF Terminate
  <2>2. \A x \in Nodes : Single(inbox'[x], Token) /\ (Has(inbox'[x], Token) => x = None)
    BY <1>3, <2>1
  <2> QED
    BY <1>2, <2>2, HostTurn, Names
<1>5. CASE \E next \in Participants : Dispatch(next)
  <2>1. PICK next \in Participants : Dispatch(next)
    BY <1>5
  <2>2. Broadcast(buf[Host], next) /\ speaker' = next
    BY <2>1 DEF Dispatch
  <2>3. \A x \in Nodes : Single(inbox'[x], Token) /\ (Has(inbox'[x], Token) => x = next)
    BY <1>1, <1>3, <2>2, BroadcastTurn
  <2> QED
    BY <1>2, <2>2, <2>3, HostTurn
<1>6. CASE \E next \in Participants \cup {None} : Decline(next)
  <2>1. Broadcast(buf[Host], None)
    BY <1>6 DEF Decline
  <2>2. \A x \in Nodes : Single(inbox'[x], Token) /\ (Has(inbox'[x], Token) => x = None)
    BY <1>1, <1>3, <2>1, BroadcastTurn
  <2> QED
    BY <1>2, <2>2, HostTurn, Names
<1> QED
  BY <1>4, <1>5, <1>6

\* An agent's run passes the token on or has its participant hold it, if he had it.
LEMMA RunAgentEffect ==
  ASSUME TypeOK, NEW p \in Participants, NEW answers, NEW holds \in BOOLEAN, RunAgent(p, answers, holds)
  PROVE  \E release \in BOOLEAN :
           /\ release => holds
           /\ held'[p] = (holds /\ ~release) /\ \A q \in Participants \ {p} : held'[q] = held[q]
           /\ \A x \in Nodes \ {Host} : inbox'[x] = inbox[x]
           /\ inbox'[Host] = inbox[Host] \o <<Items(<<Message(p)>>)>> \o (IF release THEN <<Token>> ELSE <<>>)
           /\ UNCHANGED <<deliveries, speaker>>
<1>1. held \in [Participants -> BOOLEAN] /\ inbox \in [Nodes -> Seq(ItemTypes)]
  BY TypeParts DEF Fields, Queues
<1>2. PICK last \in raised .. setup.requests :
        LET waits   == (open[p] \ answers) \cup (raised + 1 .. last)
            release == holds /\ Releases(p, waits, answers)
        IN /\ held' = [held EXCEPT ![p] = Kept(holds, release)]
           /\ inbox' = [inbox EXCEPT ![Host] =
                          @ \o <<Items(<<Message(p)>>)>> \o (IF release THEN <<Token>> ELSE <<>>)]
           /\ UNCHANGED <<deliveries, speaker>>
  BY DEF RunAgent, hostVars
<1> DEFINE release == holds /\ Releases(p, (open[p] \ answers) \cup (raised + 1 .. last), answers)
<1>3. /\ held' = [held EXCEPT ![p] = Kept(holds, release)]
      /\ inbox' = [inbox EXCEPT ![Host] =
                     inbox[Host] \o <<Items(<<Message(p)>>)>> \o (IF release THEN <<Token>> ELSE <<>>)]
      /\ UNCHANGED <<deliveries, speaker>>
  BY <1>2
<1>4. release \in BOOLEAN /\ (release => holds)
  BY DEF Releases
<1> HIDE DEF release
<1>5. Kept(holds, release) = (holds /\ ~release)
  BY DEF Kept
<1> QED
  BY <1>1, <1>3, <1>4, <1>5, Names

\* Whether anybody but p has the turn, once p has handled what he was sent.
OnlyWith(p) ==
  /\ \A y \in Nodes : ~Has(inbox[y], Token) /\ ~Has(step'[y], Token)
  /\ ~Has(deliveries, ToHost(Token)) /\ \A q \in Participants \ {p} : ~held[q]
  /\ speaker = p

LEMMA RunAgentTurn ==
  ASSUME TypeOK, NowOne, NEW p \in Participants, NEW answers, NEW holds \in BOOLEAN,
         RunAgent(p, answers, holds),
         \A y \in Nodes : Single(step'[y], Token) /\ (Has(step'[y], Token) => Has(step[y], Token)),
         holds => OnlyWith(p), ~holds => ~held[p]
  PROVE  NowOne'
<1>1. PICK release \in BOOLEAN :
        /\ release => holds
        /\ held'[p] = (holds /\ ~release) /\ \A q \in Participants \ {p} : held'[q] = held[q]
        /\ \A x \in Nodes \ {Host} : inbox'[x] = inbox[x]
        /\ inbox'[Host] = inbox[Host] \o <<Items(<<Message(p)>>)>> \o (IF release THEN <<Token>> ELSE <<>>)
        /\ UNCHANGED <<deliveries, speaker>>
  BY RunAgentEffect
<1>2. /\ Single(inbox'[Host], Token) \/ (release /\ Has(inbox[Host], Token))
      /\ Has(inbox'[Host], Token) <=> (Has(inbox[Host], Token) \/ release)
  <2> DEFINE news == <<Items(<<Message(p)>>)>>
             back == IF release THEN <<Token>> ELSE <<>>
  <2>1. inbox[Host] \in Seq(ItemTypes) /\ Single(inbox[Host], Token)
    BY TypeParts, Names DEF Fields, Queues, NowOne, One, Once
  <2>2. news \in Seq(ItemTypes) /\ back \in Seq(ItemTypes)
    <3>1. <<Message(p)>> \in Seq(Messages)
      BY TypeParts DEF Fields, Message, Messages
    <3>2. Items(<<Message(p)>>) \in ItemTypes /\ Token \in ItemTypes
      BY <3>1, ItemsTyped
    <3> QED
      BY <3>2
  <2>3. ~Has(news, Token) /\ Single(news, Token)
    <3>1. Items(<<Message(p)>>) # Token
      BY DEF Items, Token
    <3> QED
      BY <3>1, HasOne
  <2>4. Single(back, Token) /\ (Has(back, Token) <=> release)
    BY HasNothing, HasOne
  <2>5. inbox'[Host] = inbox[Host] \o news \o back
    BY <1>1
  <2> HIDE DEF news, back
  <2>6. inbox[Host] \o news \in Seq(ItemTypes)
    BY <2>1, <2>2
  <2>7. Single(inbox[Host] \o news, Token) /\ (Has(inbox[Host] \o news, Token) <=> Has(inbox[Host], Token))
    BY <2>1, <2>2, <2>3, HasConcat
  <2> DEFINE all == inbox[Host] \o news \o back
  <2>8. /\ Has(all, Token) <=> (Has(inbox[Host] \o news, Token) \/ Has(back, Token))
        /\ ~(Has(inbox[Host] \o news, Token) /\ Has(back, Token)) => Single(all, Token)
    BY <2>2, <2>4, <2>6, <2>7, HasConcat
  <2>9. inbox'[Host] = all
    BY <2>5
  <2> HIDE DEF all
  <2> QED
    BY <2>4, <2>7, <2>8, <2>9
<1>3. Once(deliveries', inbox', step')
  <2>1. ~(release /\ Has(inbox[Host], Token))
    BY <1>1, Names DEF OnlyWith
  <2>2. \A x \in Nodes : Single(inbox'[x], Token)
    BY <1>1, <1>2, <2>1 DEF NowOne, One, Once
  <2> QED
    BY <1>1, <2>2 DEF NowOne, One, Once
<1>4. CASE ~holds
  <2>1. ~release /\ \A q \in Participants : held'[q] => held[q]
    BY <1>1, <1>4
  <2>2. \A t \in Places : At(t, deliveries', inbox', step', held') => At(t, deliveries, inbox, step, held)
    BY <1>1, <1>2, <2>1 DEF At
  <2> QED
    BY <1>1, <1>3, <2>2, Fewer DEF NowOne
<1>5. CASE holds
  <2> DEFINE place == IF release THEN <<"inbox", Host>> ELSE <<"held", p>>
  <2>1. place \in Places /\ \A q \in Participants : place \in Of(q) => speaker' = q
    BY <1>1, <1>5, Names DEF Places, Of, OnlyWith
  <2>2. ASSUME NEW t \in Places, At(t, deliveries', inbox', step', held') PROVE t = place
    <3>1. ~Has(deliveries', ToHost(Token)) /\ \A y \in Nodes : ~Has(step'[y], Token)
      BY <1>1, <1>5 DEF OnlyWith
    <3>2. \A x \in Nodes : Has(inbox'[x], Token) => x = Host /\ release
      BY <1>1, <1>2, <1>5 DEF OnlyWith
    <3>3. \A q \in Participants : held'[q] => q = p /\ ~release
      BY <1>1, <1>5 DEF OnlyWith
    <3> QED
      BY <2>2, <3>1, <3>2, <3>3 DEF At
  <2> HIDE DEF place
  <2> QED
    BY <1>3, <2>1, <2>2, Alone DEF NowOne
<1> QED
  BY <1>4, <1>5

LEMMA TakenTurn == ASSUME TypeOK, NowOne, NEW p \in Participants, TakeTurn(p) \/ TakeAnswer(p) PROVE NowOne'
<1>1. p \in Nodes /\ held[p] \in BOOLEAN
  BY TypeParts, Names DEF Fields
<1>2. \A y \in Nodes : Single(step[y], Token)
  BY DEF NowOne, One, Once
<1>3. CASE TakeTurn(p)
  <2>1. Handles(p, "token") /\ RunAgent(p, {}, TRUE)
    BY <1>3 DEF TakeTurn
  <2>2. OnlyWith(p)
    BY <1>1, <2>1, TokenHandled DEF OnlyWith
  <2>3. \A y \in Nodes : Single(step'[y], Token) /\ (Has(step'[y], Token) => Has(step[y], Token))
    BY <1>1, <1>2, <2>1, HandledTurn
  <2> QED
    BY <2>1, <2>2, <2>3, RunAgentTurn
<1>4. CASE TakeAnswer(p)
  <2>1. Handles(p, "response") /\ RunAgent(p, {Head(step[p]).req}, held[p])
    BY <1>4 DEF TakeAnswer
  <2>2. \A y \in Nodes : Single(step'[y], Token) /\ (Has(step'[y], Token) => Has(step[y], Token))
    BY <1>1, <1>2, <2>1, HandledTurn
  <2>3. held[p] => OnlyWith(p)
    <3> SUFFICES ASSUME held[p] PROVE OnlyWith(p)
      OBVIOUS
    <3>1. At(<<"held", p>>, deliveries, inbox, step, held) /\ <<"held", p>> \in Places
      BY <1>1 DEF At, Places
    <3>2. \A t \in Places : At(t, deliveries, inbox, step, held) => t = <<"held", p>>
      BY <3>1 DEF NowOne, One
    <3>3. \A y \in Nodes : ~Has(inbox[y], Token) /\ ~Has(step[y], Token)
      <4> TAKE y \in Nodes
      <4>1. <<"inbox", y>> \in Places /\ <<"step", y>> \in Places
        BY DEF Places
      <4>2. <<"inbox", y>> # <<"held", p>> /\ <<"step", y>> # <<"held", p>>
        OBVIOUS
      <4> QED
        BY <3>2, <4>1, <4>2, AtEach
    <3>4. ~Has(deliveries, ToHost(Token))
      BY <3>2, AtEach, Names DEF Places
    <3>5. \A q \in Participants \ {p} : ~held[q]
      <4> SUFFICES ASSUME NEW q \in Participants \ {p}, held[q] PROVE FALSE
        OBVIOUS
      <4>1. At(<<"held", q>>, deliveries, inbox, step, held) /\ <<"held", q>> \in Places
        BY Names DEF At, Places
      <4> QED
        BY <3>2, <4>1
    <3>6. speaker = p
      BY <3>1 DEF NowOne, One, Of
    <3> QED
      BY <2>2, <3>3, <3>4, <3>5, <3>6 DEF OnlyWith
  <2> QED
    BY <1>1, <2>1, <2>2, <2>3, RunAgentTurn
<1> QED
  BY <1>3, <1>4

\* A chat is started only when nobody has a turn.
LEMMA AskTurn == TypeOK /\ NowOne /\ Ask => NowOne'
<1> SUFFICES ASSUME TypeOK, NowOne, Ask PROVE NowOne'
  OBVIOUS
<1>1. UNCHANGED <<inbox, step, held, speaker>> /\ deliveries' = <<Input, ToHost(Token)>>
  BY DEF Ask, hostVars, partVars
<1>2. \A x \in Nodes : ~Has(inbox[x], Token) /\ ~Has(step[x], Token)
  <2>1. \A x \in Nodes : Range(inbox[x]) = {} /\ Range(step[x]) = {}
    <3> SUFFICES ASSUME NEW x \in Nodes PROVE Range(inbox[x]) \cup Range(step[x]) = {}
      OBVIOUS
    <3>1. Range(inbox[x]) \cup Range(step[x]) \subseteq
            UNION {Range(inbox[y]) \cup Range(step[y]) : y \in Nodes}
      OBVIOUS
    <3>2. InFlight = {}
      BY DEF Ask, ChatOver, Idle
    <3> QED
      BY <3>1, <3>2 DEF InFlight
  <2> QED
    BY <2>1 DEF Has, Range
<1>3. \A p \in Participants : ~held[p]
  BY DEF Ask, ChatOver
<1>4. Single(deliveries', ToHost(Token))
  <2>1. Input # ToHost(Token)
    BY DEF Input, ToHost, Items, Token
  <2> DEFINE sent == <<Input, ToHost(Token)>>
  <2>2. DOMAIN sent = {1, 2} /\ sent[1] = Input /\ sent[2] = ToHost(Token)
    OBVIOUS
  <2> QED
    BY <1>1, <2>1, <2>2 DEF Single
<1>5. Once(deliveries', inbox', step')
  BY <1>1, <1>4 DEF NowOne, One, Once
<1>6. \A t \in Places : At(t, deliveries', inbox', step', held') => t = <<"caller", Host>>
  BY <1>1, <1>2, <1>3 DEF At
<1>7. <<"caller", Host>> \in Places /\ \A p \in Participants : <<"caller", Host>> \notin Of(p)
  BY Names DEF Places, Of
<1> QED
  BY <1>5, <1>6, <1>7, Alone DEF NowOne

LEMMA AnswerTurn == ASSUME TypeOK, NowOne, NEW r \in Requests, Answer(r) PROVE NowOne'
<1>1. UNCHANGED <<inbox, step, held, speaker>> /\ deliveries' = Append(deliveries, ToHost(Response(r)))
  BY DEF Answer, hostVars, partVars
<1>2. deliveries \in Seq(Sent) /\ ToHost(Response(r)) \in Sent /\ ToHost(Response(r)) # ToHost(Token)
  <2>1. Response(r) # Token
    BY DEF Response, Token
  <2> QED
    BY <2>1, TypeParts, SentTypes DEF Others, Sent, ToHost
<1>3. Single(deliveries', ToHost(Token)) /\ (Has(deliveries', ToHost(Token)) => Has(deliveries, ToHost(Token)))
  BY <1>1, <1>2, HasAppend DEF NowOne, One, Once
<1>4. Once(deliveries', inbox', step')
  BY <1>1, <1>3 DEF NowOne, One, Once
<1>5. \A t \in Places : At(t, deliveries', inbox', step', held') => At(t, deliveries, inbox, step, held)
  BY <1>1, <1>3 DEF At
<1> QED
  BY <1>1, <1>4, <1>5, Fewer DEF NowOne

LEMMA TurnStep == TypeOK /\ TurnInv /\ [Next]_vars => TurnInv'
<1> SUFFICES ASSUME TypeOK, TurnInv, [Next]_vars, ~hosted' PROVE NowOne' /\ SavedOne'
  BY DEF TurnInv, NowOne, SavedOne
<1>1. setup' = setup
  BY DEF Next, Step, Deliver, BeginStep, EndStep, Accumulate, Terminate, Dispatch, Decline, HostRest,
         TakeTurn, TakeAnswer, RunAgent, Ask, Answer, Restore, AgentTurn, CloseRun, AbortRun, Rewind, vars
<1>2. ~hosted /\ NowOne /\ SavedOne
  BY <1>1 DEF TurnInv, NowOne, SavedOne, hosted
<1>3. CASE EndStep
  BY <1>2, <1>3, EndTurn
<1>4. CASE Restore
  <2>1. /\ deliveries' = <<>> /\ inbox' = saved.inbox /\ step' = Empty /\ held' = saved.held
        /\ speaker' = saved.speaker /\ saved' = saved
    BY <1>4 DEF Restore, Rewind, RestoredToken
  <2> QED
    BY <1>2, <2>1 DEF NowOne, SavedOne
<1>5. CASE UNCHANGED vars
  BY <1>2, <1>5 DEF vars, hostVars, partVars, NowOne, SavedOne
<1>6. CASE (Step /\ ~EndStep) \/ Ask \/ \E r \in Requests : Answer(r)
  <2>1. saved' = saved
    BY <1>6 DEF Step, Deliver, BeginStep, Accumulate, Terminate, Dispatch, Decline, HostRest,
                TakeTurn, TakeAnswer, RunAgent, Ask, Answer
  <2>2. SavedOne'
    BY <1>2, <2>1 DEF SavedOne
  <2>3. CASE Terminate \/ (\E next \in Participants : Dispatch(next))
               \/ (\E next \in Participants \cup {None} : Decline(next))
    BY <1>2, <2>2, <2>3, ManagerTurn
  <2>4. CASE \E p \in Participants : TakeTurn(p) \/ TakeAnswer(p)
    BY <1>2, <2>2, <2>4, TakenTurn
  <2>5. CASE Deliver \/ BeginStep \/ Ask
    BY <1>2, <2>2, <2>5, DeliverTurn, BeginTurn, AskTurn
  <2>6. CASE (\E x \in Nodes : Accumulate(x)) \/ \E r \in Requests : Answer(r)
    BY <1>2, <2>2, <2>6, AccumulateTurn, AnswerTurn
  <2> QED
    BY <1>6, <2>3, <2>4, <2>5, <2>6 DEF Step
<1>7. ~(\E new \in BOOLEAN, answers \in SetToAllKPermutations(Requests) : AgentTurn(new, answers))
      /\ ~CloseRun /\ ~AbortRun
  BY <1>2 DEF AgentTurn, CloseRun, AbortRun
<1> QED
  BY <1>3, <1>4, <1>5, <1>6, <1>7 DEF Next

\* In a chat somebody drives himself there is one turn token, in one place, and whoever
\* has it or keeps it while his agent waits is the one the host chose: over every order
\* of messages, turns, answers and restores.
THEOREM TurnIsOne == Spec => []OneTurn
<1>1. Init => TypeOK /\ TurnInv
  BY TypeInit, TurnInit
<1>2. TypeOK /\ TurnInv /\ [Next]_vars => (TypeOK /\ TurnInv)'
  BY TypeStep, TurnStep
<1>3. TypeOK /\ TurnInv => OneTurn
  BY OneMeans
<1> QED
  BY <1>1, <1>2, <1>3, PTL DEF Spec

-----------------------------------------------------------------------------
(* The round-robin manager: count, speaker and cursor agree, also in what  *)
(* a checkpoint holds of them.                                             *)

Agree(i, k, c) == c = i % N /\ (i > 0 => k = (i - 1) % N)

RoundInv ==
  roundRobin => Agree(iterations, speaker, cursor) /\ Agree(saved.iterations, saved.speaker, saved.cursor)

LEMMA Remainder ==
  ASSUME NEW i \in Int, NEW n \in Int, n > 0, NEW q \in Int, NEW r \in 0 .. n - 1, i = q * n + r
  PROVE  i % n = r
  OBVIOUS

\* The cursor's next place is the remainder of the next count.
LEMMA NextRound == ASSUME NEW i \in Nat PROVE ((i % N) + 1) % N = (i + 1) % N
<1> DEFINE r == i % N
           q == i \div N
           m == N * q
<1>1. r = i - m /\ q \in Int /\ N \in Int /\ N > 0
  BY GroupChatAssumption
<1>2. r \in 0 .. N - 1
  BY <1>1
<1>3. q * N = m /\ (q + 1) * N = m + N /\ m \in Int
  <2> HIDE DEF q
  <2> QED
    BY <1>1
<1> HIDE DEF r, m, q
<1>4. CASE r < N - 1
  <2> DEFINE s == r + 1
             j == i + 1
  <2>1. s \in 0 .. N - 1 /\ j = m + s /\ j \in Int /\ s \in Int
    BY <1>1, <1>2, <1>3, <1>4
  <2> HIDE DEF s, j
  <2>2. j = q * N + s /\ q \in Int
    BY <1>1, <1>3, <2>1
  <2>3. j % N = s
    BY <1>1, <2>1, <2>2, Remainder
  <2>4. s = 0 * N + s /\ 0 \in Int
    BY <1>1, <2>1
  <2>5. s % N = s
    BY <1>1, <2>1, <2>4, Remainder
  <2> QED
    BY <2>3, <2>5 DEF r, s, j
<1>5. CASE r = N - 1
  <2> DEFINE j == i + 1
             u == q + 1
             s == r + 1
  <2>1. j \in Int /\ u \in Int /\ j = u * N + 0 /\ 0 \in 0 .. N - 1
    BY <1>1, <1>2, <1>3, <1>5
  <2>2. s \in Int /\ s = 1 * N + 0 /\ 1 \in Int
    BY <1>1, <1>5
  <2> HIDE DEF j, u, s
  <2>3. j % N = 0
    BY <1>1, <2>1, Remainder
  <2>4. s % N = 0
    BY <1>1, <2>1, <2>2, Remainder
  <2> QED
    BY <2>3, <2>4 DEF j, s, r
<1> QED
  BY <1>1, <1>2, <1>4, <1>5

LEMMA RoundInit == Init => RoundInv
<1> SUFFICES ASSUME Init PROVE RoundInv
  OBVIOUS
<1>1. iterations = 0 /\ cursor = 0 /\ saved = Snapshot
  BY DEF Init
<1>2. 0 % N = 0
  BY GroupChatAssumption
<1>3. Agree(iterations, speaker, cursor)
  BY <1>1, <1>2 DEF Agree
<1>4. saved.iterations = iterations /\ saved.speaker = speaker /\ saved.cursor = cursor
  BY <1>1 DEF Snapshot
<1> QED
  BY <1>3, <1>4 DEF RoundInv

\* The manager's choice is the cursor, which moves with the count.
LEMMA DispatchRound ==
  ASSUME TypeOK, roundRobin, Agree(iterations, speaker, cursor), NEW next \in Participants, Dispatch(next)
  PROVE  Agree(iterations', speaker', cursor')
<1>1. iterations \in Nat
  BY TypeParts DEF Fields
<1>2. next = iterations % N
  BY DEF Agree, Dispatch, Selected
<1>3. iterations' = iterations + 1 /\ speaker' = next /\ cursor' = (next + 1) % N
  BY DEF Dispatch
<1>4. (iterations + 1) - 1 = iterations /\ iterations + 1 > 0
  BY <1>1
<1>5. cursor' = iterations' % N
  BY <1>1, <1>2, <1>3, NextRound
<1>6. speaker' = (iterations' - 1) % N
  BY <1>2, <1>3, <1>4
<1> QED
  BY <1>5, <1>6 DEF Agree

LEMMA RoundStep == TypeOK /\ RoundInv /\ [Next]_vars => RoundInv'
<1> SUFFICES ASSUME TypeOK, RoundInv, [Next]_vars, roundRobin'
             PROVE  Agree(iterations', speaker', cursor') /\ Agree(saved'.iterations, saved'.speaker, saved'.cursor)
  BY DEF RoundInv
<1>1. setup' = setup
  BY DEF Next, Step, Deliver, BeginStep, EndStep, Accumulate, Terminate, Dispatch, Decline, HostRest,
         TakeTurn, TakeAnswer, RunAgent, Ask, Answer, Restore, AgentTurn, CloseRun, AbortRun, Rewind, vars
<1>2. /\ roundRobin /\ Agree(iterations, speaker, cursor)
      /\ Agree(saved.iterations, saved.speaker, saved.cursor)
  BY <1>1 DEF RoundInv, roundRobin
<1>3. CASE Restore \/ AbortRun
  BY <1>2, <1>3 DEF Restore, AbortRun, Rewind, RestoredCursor
<1>4. CASE EndStep
  <2>1. UNCHANGED <<iterations, speaker, cursor>>
    BY <1>4 DEF EndStep, hostVars
  <2>2. CASE saved' = saved
    BY <1>2, <2>1, <2>2
  <2>3. CASE saved' = Snapshot
    BY <1>2, <2>1, <2>3 DEF Snapshot
  <2> QED
    BY <1>4, <2>2, <2>3 DEF EndStep
<1>5. CASE Terminate \/ \E next \in Participants \cup {None} : Decline(next)
  <2>1. saved' = saved /\ iterations' = 0 /\ cursor' = 0
    BY <1>5 DEF Terminate, Decline, HostRest, Complete
  <2>2. 0 % N = 0
    BY GroupChatAssumption
  <2> QED
    BY <1>2, <2>1, <2>2 DEF Agree
<1>6. CASE \E next \in Participants : Dispatch(next)
  <2>1. saved' = saved
    BY <1>6 DEF Dispatch, HostRest
  <2> QED
    BY <1>2, <1>6, <2>1, DispatchRound
<1>7. CASE \/ Deliver \/ BeginStep \/ \E x \in Nodes : Accumulate(x)
           \/ \E p \in Participants : TakeTurn(p) \/ TakeAnswer(p)
           \/ Ask \/ \E r \in Requests : Answer(r)
           \/ \E new \in BOOLEAN, answers \in SetToAllKPermutations(Requests) : AgentTurn(new, answers)
           \/ CloseRun \/ UNCHANGED vars
  <2>1. UNCHANGED <<iterations, speaker, cursor, saved>>
    BY <1>7 DEF Deliver, BeginStep, Accumulate, TakeTurn, TakeAnswer, RunAgent, Ask, Answer, AgentTurn,
                CloseRun, vars, hostVars
  <2> QED
    BY <1>2, <2>1
<1> QED
  BY <1>3, <1>4, <1>5, <1>6, <1>7 DEF Next, Step

\* A round-robin chat goes round from the first participant, over every restore: the
\* host's count, its speaker and the manager's cursor agree in every state.
THEOREM RoundsAgree == Spec => []TurnsGoRound
<1>1. RoundInv => TurnsGoRound
  BY DEF RoundInv, Agree, TurnsGoRound
<1>2. Init => TypeOK /\ RoundInv
  BY TypeInit, RoundInit
<1>3. TypeOK /\ RoundInv /\ [Next]_vars => (TypeOK /\ RoundInv)'
  BY TypeStep, RoundStep
<1> QED
  BY <1>1, <1>2, <1>3, PTL DEF Spec

-----------------------------------------------------------------------------
(* The run and the executors agree on the requests, and a chat that was    *)
(* begun has a turn somewhere.                                             *)

\* An answer is on its way to p.
Waiting(r, p, ib, st) == Has(ib[p], Response(r)) \/ Has(st[p], Response(r))

\* A request is pending in the run for one participant, or its answer is on its
\* way to one, once, and that one waits for it; a new request is neither.
Book(r, ib, st, ow, op, top) ==
  /\ \A p \in Participants :
       /\ Single(ib[p], Response(r)) /\ Single(st[p], Response(r))
       /\ ~(Has(ib[p], Response(r)) /\ Has(st[p], Response(r)))
       /\ Waiting(r, p, ib, st) => ow[r] = None
       /\ r \in op[p] <=> (ow[r] = p \/ Waiting(r, p, ib, st))
  /\ \A p, q \in Participants : Waiting(r, p, ib, st) /\ Waiting(r, q, ib, st) => p = q
  /\ r > top => ow[r] = None /\ \A p \in Participants : ~Waiting(r, p, ib, st)

BookNow(r)   == Book(r, inbox, step, owner, open, raised)
BookSaved(r) == Book(r, saved.inbox, Empty, saved.owner, saved.open, raised)
Books        == \A r \in Requests : BookNow(r) /\ BookSaved(r)

\* Who waits for an answer holds the token, and only who waits; and while the host
\* remembers a chat or a speaker the token is on its way to somebody or held.
Alive(h, k, ib, st, hd, op) ==
  /\ \A p \in Participants : hd[p] <=> op[p] # {}
  /\ (h # <<>> \/ k # None) =>
       \/ \E x \in Nodes : Has(ib[x], Token) \/ Has(st[x], Token)
       \/ \E p \in Participants : hd[p]

AliveNow   == Alive(history, speaker, inbox, step, held, open)
AliveSaved == Alive(saved.history, saved.speaker, saved.inbox, Empty, saved.held, saved.open)

WaitInv == (running \/ step = Empty) /\ Books /\ AliveNow /\ AliveSaved

\* An item that has a request is the answer to it, and the answers differ.
LEMMA AnswerParts ==
  ASSUME NEW i \in ItemTypes
  PROVE  /\ i.kind = "response" <=> i.req # None
         /\ i.req # None => i = Response(i.req)
         /\ \A r \in Requests : i = Response(r) => i.kind = "response" /\ i.req = r
<1>0. \A r \in Requests : Response(r).req = r /\ Response(r).kind = "response" /\ r # None
  BY Names DEF Response
<1>1. CASE i \in [kind : {"messages"}, body : Seq(Messages), req : {None}]
  BY <1>0, <1>1
<1>2. CASE i = Token
  BY <1>0, <1>2 DEF Token
<1>3. CASE \E r \in Requests : i = Response(r)
  BY <1>0, <1>3
<1> QED
  BY <1>1, <1>2, <1>3 DEF ItemTypes

\* What is in a queue is its head or behind it.
LEMMA HasHead ==
  ASSUME NEW S, NEW q \in Seq(S), q # <<>>, NEW e
  PROVE  Has(q, e) <=> Head(q) = e \/ Has(Tail(q), e)
<1> DEFINE t == Tail(q)
<1>1. /\ DOMAIN q = 1 .. Len(q) /\ Len(q) \in Nat \ {0} /\ Head(q) = q[1]
      /\ DOMAIN t = 1 .. Len(q) - 1
      /\ \A i \in 1 .. Len(q) - 1 : t[i] = q[i + 1] /\ i + 1 \in DOMAIN q
  OBVIOUS
<1> HIDE DEF t
<1>2. ASSUME NEW i \in DOMAIN q, q[i] = e, Head(q) # e PROVE Has(t, e)
  <2>1. i - 1 \in DOMAIN t /\ t[i - 1] = e
    <3>1. i # 1 /\ i - 1 \in 1 .. Len(q) - 1 /\ (i - 1) + 1 = i
      BY <1>1, <1>2
    <3> QED
      BY <1>1, <1>2, <3>1
  <2> QED
    BY <2>1 DEF Has
<1>3. Head(q) = e \/ Has(t, e) => Has(q, e)
  BY <1>1 DEF Has
<1> QED
  BY <1>2, <1>3 DEF Has, t

\* What an executor has handled is gone from its queue, once; the rest stays.
LEMMA HandledItems ==
  ASSUME TypeOK, NEW x \in Nodes, NEW kind, Handles(x, kind), NEW e, NEW y \in Nodes
  PROVE  /\ Has(step[y], e) <=> (y = x /\ Head(step[x]) = e) \/ Has(step'[y], e)
         /\ Single(step[y], e) => Single(step'[y], e)
         /\ Single(step[y], e) /\ y = x /\ Head(step[x]) = e => ~Has(step'[y], e)
<1>1. step \in [Nodes -> Seq(ItemTypes)] /\ step[x] # <<>>
  BY DEF TypeOK, Handles, Queues
<1>2. step[x] \in Seq(ItemTypes) /\ step'[x] = Tail(step[x]) /\ (y # x => step'[y] = step[y])
  BY <1>1, HandledItem
<1>3. /\ Has(step[x], e) <=> Head(step[x]) = e \/ Has(Tail(step[x]), e)
      /\ Single(step[x], e) => Single(Tail(step[x]), e)
      /\ (Single(step[x], e) /\ Head(step[x]) = e) => ~Has(Tail(step[x]), e)
  BY <1>1, <1>2, HasHead, HasTail
<1> QED
  BY <1>2, <1>3

\* An executor that handles something else leaves the answers alone.
LEMMA HandledOther ==
  ASSUME TypeOK, NEW x \in Nodes, NEW kind, Handles(x, kind), NEW r \in Requests, NEW y \in Nodes,
         Single(step[y], Response(r)), Head(step[x]) # Response(r)
  PROVE  Single(step'[y], Response(r)) /\ (Has(step'[y], Response(r)) <=> Has(step[y], Response(r)))
  BY HandledItems

\* The books stay right when nothing about a request changes.
LEMMA BookKept ==
  ASSUME NEW r, NEW ib, NEW st, NEW ow, NEW op, NEW top, NEW ib2, NEW st2, NEW ow2, NEW op2, NEW top2,
         Book(r, ib, st, ow, op, top), ow2[r] = ow[r], r > top2 => r > top,
         \A p \in Participants :
           /\ Has(ib2[p], Response(r)) <=> Has(ib[p], Response(r))
           /\ Has(st2[p], Response(r)) <=> Has(st[p], Response(r))
           /\ Single(ib2[p], Response(r)) /\ Single(st2[p], Response(r))
           /\ r \in op2[p] <=> r \in op[p]
  PROVE  Book(r, ib2, st2, ow2, op2, top2)
  BY DEF Book, Waiting

LEMMA NoAnswers == ASSUME NEW r, NEW x \in Nodes PROVE ~Has(Empty[x], Response(r)) /\ Single(Empty[x], Response(r))
  BY HasNothing DEF Empty

LEMMA BooksInit == Init => WaitInv
<1> SUFFICES ASSUME Init PROVE WaitInv
  OBVIOUS
<1>1. /\ inbox = Empty /\ step = Empty /\ open = [p \in Participants |-> {}]
      /\ owner = [r \in Requests |-> None] /\ history = <<>> /\ held = [p \in Participants |-> FALSE]
      /\ saved.inbox = inbox /\ saved.owner = owner /\ saved.open = open
      /\ saved.history = history /\ saved.held = held /\ speaker = None /\ saved.speaker = speaker
  BY DEF Init, Snapshot
<1>2. ASSUME NEW r \in Requests PROVE Book(r, Empty, Empty, owner, open, raised)
  BY <1>1, NoAnswers, Names DEF Book, Waiting
<1>3. Books
  BY <1>1, <1>2 DEF Books, BookNow, BookSaved
<1>4. AliveNow /\ AliveSaved
  BY <1>1 DEF AliveNow, AliveSaved, Alive
<1> QED
  BY <1>1, <1>3, <1>4 DEF WaitInv

\* An answer reaches the participant it is for, and the run forgets the request.
LEMMA DeliverBook == ASSUME TypeOK, NEW r \in Requests, BookNow(r), Deliver PROVE BookNow(r)'
<1> DEFINE d == Head(deliveries)
           o == IF d.item.req = None THEN d.to ELSE owner[d.item.req]
           e == Response(r)
<1>1. deliveries \in Seq(Sent) /\ deliveries # <<>> /\ Fields
  BY TypeParts DEF Others, Sent, Deliver
<1>2. d \in Sent
  BY <1>1
<1>3. d.item \in ItemTypes /\ d.to = Host
  BY <1>2 DEF Sent
<1>4. o \in Nodes /\ o # None
  BY <1>1, <1>3, ItemParts, Names DEF Fields, Deliver
<1>5. inbox' = [inbox EXCEPT ![o] = Append(inbox[o], d.item)] /\ inbox \in [Nodes -> Seq(ItemTypes)]
  BY <1>1 DEF Deliver, Fields, Queues
<1>6. /\ Has(inbox'[o], e) <=> (Has(inbox[o], e) \/ d.item = e)
      /\ (Single(inbox[o], e) /\ ~(Has(inbox[o], e) /\ d.item = e)) => Single(inbox'[o], e)
      /\ \A y \in Nodes \ {o} : inbox'[y] = inbox[y]
  <2>1. inbox[o] \in Seq(ItemTypes) /\ inbox'[o] = Append(inbox[o], d.item)
    BY <1>4, <1>5
  <2> HIDE DEF d, o, e
  <2> QED
    BY <2>1, <1>3, <1>4, <1>5, HasAppend
<1>7. UNCHANGED <<step, open, raised>>
  BY DEF Deliver, hostVars, partVars
<1>8. d.item = e <=> d.item.req = r
  BY <1>3, AnswerParts, Names
<1>9. owner' = IF d.item.req = None THEN owner ELSE [owner EXCEPT ![d.item.req] = None]
  BY DEF Deliver
<1>10. owner \in [Requests -> Participants \cup {None}]
  BY <1>1 DEF Fields
<1> HIDE DEF d
<1>11. CASE d.item = e
  <2>1. o = owner[r] /\ o \in Participants /\ owner'[r] = None
    BY <1>4, <1>8, <1>9, <1>10, <1>11, Names
  <2>2. \A p \in Participants : ~Waiting(r, p, inbox, step) /\ (r \in open[p] <=> p = o)
    BY <2>1, Names DEF BookNow, Book
  <2>3. ASSUME NEW p \in Participants
        PROVE  /\ Single(inbox'[p], e) /\ Single(step'[p], e) /\ ~Has(step'[p], e)
               /\ Has(inbox'[p], e) <=> p = o
    BY <1>6, <1>7, <1>11, <2>2, Names DEF BookNow, Book, Waiting
  <2>4. r \in Nat /\ ~(r > raised)
    BY <2>1, Names DEF BookNow, Book
  <2> HIDE DEF o
  <2> QED
    BY <1>7, <2>1, <2>2, <2>3, <2>4, Names DEF BookNow, Book, Waiting
<1>12. CASE d.item # e
  <2>1. owner'[r] = owner[r]
    BY <1>8, <1>9, <1>10, <1>12
  <2>2. \A p \in Participants :
           /\ Has(inbox'[p], e) <=> Has(inbox[p], e)
           /\ Single(inbox'[p], e) /\ Single(step[p], e)
    BY <1>6, <1>12, Names DEF BookNow, Book
  <2> HIDE DEF o
  <2> QED
    BY <1>7, <2>1, <2>2, BookKept DEF BookNow
<1> QED
  BY <1>11, <1>12

LEMMA BeginBook == ASSUME TypeOK, NEW r \in Requests, BookNow(r), step = Empty, BeginStep PROVE BookNow(r)'
<1>1. step' = inbox /\ inbox' = Empty /\ UNCHANGED <<owner, open, raised>>
  BY DEF BeginStep, partVars
<1>2. \A p \in Participants : ~Has(Empty[p], Response(r)) /\ Single(Empty[p], Response(r))
  BY NoAnswers, Names
<1> QED
  BY <1>1, <1>2 DEF BookNow, Book, Waiting

LEMMA AccumulateBook ==
  ASSUME TypeOK, NEW r \in Requests, BookNow(r), NEW x \in Nodes, Accumulate(x) PROVE BookNow(r)'
<1>1. Handles(x, "messages") /\ UNCHANGED <<inbox, owner, open, raised>>
  BY DEF Accumulate, partVars
<1>2. Head(step[x]) # Response(r)
  BY <1>1 DEF Handles, Response
<1>3. \A p \in Participants :
        /\ Single(step'[p], Response(r)) /\ (Has(step'[p], Response(r)) <=> Has(step[p], Response(r)))
        /\ Single(inbox[p], Response(r))
  BY <1>1, <1>2, HandledOther, Names DEF BookNow, Book
<1> QED
  BY <1>1, <1>3, BookKept DEF BookNow

\* A broadcast sends no answers, and the token to the next speaker.
LEMMA BroadcastItems ==
  ASSUME Fields, NEW new \in Seq(Messages), NEW next, Broadcast(new, next), NEW x \in Nodes
  PROVE  /\ Has(inbox[x], Token) \/ x = next => Has(inbox'[x], Token)
         /\ \A r \in Requests :
              /\ Has(inbox'[x], Response(r)) <=> Has(inbox[x], Response(r))
              /\ Single(inbox[x], Response(r)) => Single(inbox'[x], Response(r))
<1> DEFINE news == IF new # <<>> /\ x \in Audience(next) THEN <<Items(new)>> ELSE <<>>
           turn == IF x = next THEN <<Token>> ELSE <<>>
<1>1. inbox'[x] = inbox[x] \o news \o turn /\ inbox[x] \in Seq(ItemTypes)
  BY DEF Broadcast, Fields, Queues
<1>2. Items(new) \in ItemTypes /\ Token \in ItemTypes
  BY ItemsTyped
<1>3. news \in Seq(ItemTypes) /\ turn \in Seq(ItemTypes)
  BY <1>2
<1>4. x = next => Has(turn, Token)
  BY HasOne
<1>5. ASSUME NEW r \in Requests
      PROVE  /\ ~Has(news, Response(r)) /\ ~Has(turn, Response(r))
             /\ Single(news, Response(r)) /\ Single(turn, Response(r))
  <2>1. Response(r) # Token /\ Response(r) # Items(new)
    BY DEF Response, Token, Items
  <2> QED
    BY <2>1, HasNothing, HasOne
<1> HIDE DEF news, turn
<1>6. inbox[x] \o news \in Seq(ItemTypes)
  BY <1>1, <1>3
<1>7. ASSUME NEW e
      PROVE  /\ Has(inbox'[x], e) <=> Has(inbox[x], e) \/ Has(news, e) \/ Has(turn, e)
             /\ (Single(inbox[x], e) /\ Single(news, e) /\ Single(turn, e) /\ ~Has(news, e) /\ ~Has(turn, e))
                  => Single(inbox'[x], e)
  <2>1. /\ Has(inbox[x] \o news, e) <=> Has(inbox[x], e) \/ Has(news, e)
        /\ (Single(inbox[x], e) /\ Single(news, e) /\ ~Has(news, e)) => Single(inbox[x] \o news, e)
    BY <1>1, <1>3, HasConcat
  <2>2. /\ Has((inbox[x] \o news) \o turn, e) <=> Has(inbox[x] \o news, e) \/ Has(turn, e)
        /\ (Single(inbox[x] \o news, e) /\ Single(turn, e) /\ ~Has(turn, e)) => Single((inbox[x] \o news) \o turn, e)
    BY <1>3, <1>6, HasConcat
  <2> QED
    BY <1>1, <2>1, <2>2
<1> QED
  BY <1>4, <1>5, <1>7

LEMMA HostBook ==
  ASSUME TypeOK, NEW r \in Requests, BookNow(r),
         Terminate \/ (\E next \in Participants : Dispatch(next))
           \/ (\E next \in Participants \cup {None} : Decline(next))
  PROVE  BookNow(r)'
<1>1. Fields /\ buf[Host] \in Seq(Messages)
  BY TypeParts, TranscriptType
<1>2. Handles(Host, "token") /\ UNCHANGED <<owner, open, raised>>
  BY DEF Terminate, Dispatch, Decline, HostRest, partVars
<1>3. inbox' = inbox \/ \E next : Broadcast(buf[Host], next)
  BY DEF Terminate, Dispatch, Decline
<1>4. \A p \in Participants :
        /\ Has(inbox'[p], Response(r)) <=> Has(inbox[p], Response(r))
        /\ Single(inbox'[p], Response(r))
  <2>1. ASSUME NEW p \in Participants
        PROVE  /\ Has(inbox'[p], Response(r)) <=> Has(inbox[p], Response(r))
               /\ Single(inbox'[p], Response(r))
    <3>1. Single(inbox[p], Response(r)) /\ p \in Nodes
      BY Names DEF BookNow, Book
    <3> QED
      BY <1>1, <1>3, <3>1, BroadcastItems
  <2> QED
    BY <2>1
<1>5. Head(step[Host]) # Response(r)
  BY <1>2 DEF Handles, Response
<1>6. \A p \in Participants :
        Single(step'[p], Response(r)) /\ (Has(step'[p], Response(r)) <=> Has(step[p], Response(r)))
  BY <1>2, <1>5, HandledOther, Names DEF BookNow, Book
<1> QED
  BY <1>2, <1>4, <1>6, BookKept DEF BookNow

\* What an agent's run does to the requests and to the turn.
LEMMA RunAgentAsks ==
  ASSUME TypeOK, NEW p \in Participants, NEW answers, NEW holds \in BOOLEAN, RunAgent(p, answers, holds)
  PROVE  \E last \in Nat :
           /\ last >= raised /\ raised' = last
           /\ \A r \in Requests :
                /\ r \in open'[p] <=> (r \in open[p] /\ r \notin answers) \/ (raised < r /\ r <= last)
                /\ owner'[r] = IF raised < r /\ r <= last THEN p ELSE owner[r]
           /\ \A q \in Participants \ {p} : open'[q] = open[q]
           /\ UNCHANGED <<saved, history>>
           /\ holds => (held'[p] <=> open'[p] # {})
           /\ holds => held'[p] \/ inbox'[Host] = inbox[Host] \o <<Items(<<Message(p)>>)>> \o <<Token>>
<1>1. Fields /\ Others /\ setup.requests \in 0 .. MaxRequests /\ raised \in Nat
  BY TypeParts, GroupChatAssumption DEF Others
<1>2. PICK last \in raised .. setup.requests :
        LET asks    == raised + 1 .. last
            waits   == (open[p] \ answers) \cup asks
            release == holds /\ Releases(p, waits, answers)
        IN /\ open' = [open EXCEPT ![p] = waits]
           /\ raised' = last
           /\ owner' = [r \in Requests |-> IF r \in asks THEN p ELSE owner[r]]
           /\ held' = [held EXCEPT ![p] = Kept(holds, release)]
           /\ inbox' = [inbox EXCEPT ![Host] =
                          @ \o <<Items(<<Message(p)>>)>> \o (IF release THEN <<Token>> ELSE <<>>)]
           /\ UNCHANGED <<saved, history>>
  BY DEF RunAgent, hostVars
<1> DEFINE asks    == raised + 1 .. last
           waits   == (open[p] \ answers) \cup asks
           release == holds /\ Releases(p, waits, answers)
<1>3. last \in Nat /\ last >= raised
  BY <1>1
<1>4. \A r \in Requests : r \in asks <=> raised < r /\ r <= last
  BY <1>1, <1>3, Names
<1>5. /\ open' = [open EXCEPT ![p] = waits]
      /\ owner' = [r \in Requests |-> IF r \in asks THEN p ELSE owner[r]]
      /\ held' = [held EXCEPT ![p] = Kept(holds, release)]
      /\ inbox' = [inbox EXCEPT ![Host] =
                     inbox[Host] \o <<Items(<<Message(p)>>)>> \o (IF release THEN <<Token>> ELSE <<>>)]
  BY <1>2
<1>6. open'[p] = waits /\ \A q \in Participants \ {p} : open'[q] = open[q]
  BY <1>1, <1>5 DEF Fields
<1>7. release = (holds /\ waits = {})
  BY DEF Releases
<1>8. held'[p] = (holds /\ ~release)
  BY <1>1, <1>5 DEF Fields, Kept
<1>9. inbox'[Host] = inbox[Host] \o <<Items(<<Message(p)>>)>> \o (IF release THEN <<Token>> ELSE <<>>)
  BY <1>1, <1>5, Names DEF Fields, Queues
<1>10. \A r \in Requests : r \in waits <=> (r \in open[p] /\ r \notin answers) \/ r \in asks
  OBVIOUS
<1> HIDE DEF waits, asks, release
<1>11. holds => (held'[p] <=> open'[p] # {})
  BY <1>6, <1>7, <1>8
<1>12. holds => held'[p] \/ inbox'[Host] = inbox[Host] \o <<Items(<<Message(p)>>)>> \o <<Token>>
  BY <1>8, <1>9
<1>13. ASSUME NEW r \in Requests
       PROVE  /\ r \in open'[p] <=> (r \in open[p] /\ r \notin answers) \/ (raised < r /\ r <= last)
              /\ owner'[r] = IF raised < r /\ r <= last THEN p ELSE owner[r]
  BY <1>4, <1>5, <1>6, <1>10
<1> QED
  BY <1>2, <1>3, <1>6, <1>11, <1>12, <1>13

\* A run answers what it was given the answers to, and its requests are new.
LEMMA RunAgentBook ==
  ASSUME TypeOK, NEW p \in Participants, NEW answers, NEW holds \in BOOLEAN, RunAgent(p, answers, holds),
         NEW r \in Requests, BookNow(r), r \in answers => Has(step[p], Response(r)),
         \A q \in Participants :
           /\ Single(step'[q], Response(r))
           /\ Has(step'[q], Response(r)) <=> Has(step[q], Response(r)) /\ ~(q = p /\ r \in answers)
  PROVE  BookNow(r)'
<1>1. PICK last \in Nat :
        /\ last >= raised /\ raised' = last
        /\ \A s \in Requests :
             /\ s \in open'[p] <=> (s \in open[p] /\ s \notin answers) \/ (raised < s /\ s <= last)
             /\ owner'[s] = IF raised < s /\ s <= last THEN p ELSE owner[s]
        /\ \A q \in Participants \ {p} : open'[q] = open[q]
        /\ UNCHANGED <<saved, history>>
        /\ holds => (held'[p] <=> open'[p] # {})
        /\ holds => held'[p] \/ inbox'[Host] = inbox[Host] \o <<Items(<<Message(p)>>)>> \o <<Token>>
  BY RunAgentAsks
<1>2. \A q \in Participants : inbox'[q] = inbox[q]
  BY RunAgentEffect, Names
<1>3. raised \in Nat /\ r \in Nat
  BY TypeParts, Names DEF Others
<1>4. CASE raised < r /\ r <= last
  <2>1. r > raised
    BY <1>3, <1>4
  <2>2. owner[r] = None /\ \A q \in Participants : ~Waiting(r, q, inbox, step) /\ r \notin open[q]
    BY <2>1, Names DEF BookNow, Book
  <2>3. \A q \in Participants : ~Waiting(r, q, inbox', step')
    BY <1>2, <2>2 DEF Waiting
  <2>4. owner'[r] = p /\ \A q \in Participants : r \in open'[q] <=> q = p
    BY <1>1, <1>4, <2>2
  <2>5. ~(r > raised')
    BY <1>1, <1>3, <1>4
  <2>6. \A q \in Participants : Single(inbox'[q], Response(r))
    BY <1>2 DEF BookNow, Book
  <2> QED
    BY <2>3, <2>4, <2>5, <2>6 DEF BookNow, Book, Waiting
<1>5. CASE ~(raised < r /\ r <= last) /\ r \in answers
  <2>1. owner[r] = None /\ owner'[r] = None /\ r \notin open'[p] /\ ~(r > raised)
    BY <1>1, <1>5 DEF BookNow, Book, Waiting
  <2>2. ASSUME NEW q \in Participants \ {p} PROVE ~Waiting(r, q, inbox, step) /\ r \notin open[q]
    <3>1. Waiting(r, p, inbox, step)
      BY <1>5 DEF Waiting
    <3>2. ~Waiting(r, q, inbox, step)
      BY <3>1 DEF BookNow, Book
    <3>3. owner[r] # q
      BY <2>1, Names
    <3> QED
      BY <3>2, <3>3 DEF BookNow, Book
  <2>3. \A q \in Participants : ~Waiting(r, q, inbox', step')
    BY <1>2, <1>5, <2>2 DEF BookNow, Book, Waiting
  <2>4. \A q \in Participants : r \notin open'[q]
    BY <1>1, <2>1, <2>2
  <2>5. \A q \in Participants : Single(inbox'[q], Response(r))
    BY <1>2 DEF BookNow, Book
  <2> QED
    BY <2>1, <2>3, <2>4, <2>5, Names DEF BookNow, Book, Waiting
<1>6. CASE ~(raised < r /\ r <= last) /\ r \notin answers
  <2>1. owner'[r] = owner[r] /\ (r > raised' => r > raised)
    BY <1>1, <1>3, <1>6
  <2>2. \A q \in Participants : r \in open'[q] <=> r \in open[q]
    BY <1>1, <1>6
  <2>3. \A q \in Participants :
          /\ Has(inbox'[q], Response(r)) <=> Has(inbox[q], Response(r))
          /\ Has(step'[q], Response(r)) <=> Has(step[q], Response(r))
          /\ Single(inbox'[q], Response(r)) /\ Single(step'[q], Response(r))
    BY <1>2, <1>6 DEF BookNow, Book
  <2> QED
    BY <2>1, <2>2, <2>3, BookKept DEF BookNow
<1> QED
  BY <1>4, <1>5, <1>6

LEMMA TakeBook ==
  ASSUME TypeOK, NEW r \in Requests, BookNow(r), NEW p \in Participants, TakeTurn(p) \/ TakeAnswer(p)
  PROVE  BookNow(r)'
<1>1. p \in Nodes /\ held[p] \in BOOLEAN
  BY TypeParts, Names DEF Fields
<1>2. \A q \in Participants : Single(step[q], Response(r)) /\ q \in Nodes
  BY Names DEF BookNow, Book
<1>3. CASE TakeTurn(p)
  <2>1. Handles(p, "token") /\ RunAgent(p, {}, TRUE)
    BY <1>3 DEF TakeTurn
  <2>2. Head(step[p]) # Response(r)
    BY <2>1 DEF Handles, Response
  <2>3. \A q \in Participants :
          Single(step'[q], Response(r)) /\ (Has(step'[q], Response(r)) <=> Has(step[q], Response(r)))
    BY <1>1, <1>2, <2>1, <2>2, HandledOther
  <2> DEFINE none == {}
             always == TRUE
  <2>4. RunAgent(p, none, always) /\ always \in BOOLEAN /\ r \notin none
    BY <2>1
  <2> HIDE DEF none, always
  <2> QED
    BY <2>3, <2>4, RunAgentBook
<1>4. CASE TakeAnswer(p)
  <2> DEFINE answers == {Head(step[p]).req}
  <2>1. Handles(p, "response") /\ RunAgent(p, answers, held[p])
    BY <1>4 DEF TakeAnswer
  <2>2. Head(step[p]) \in ItemTypes /\ Head(step[p]).kind = "response"
    BY <1>1, <2>1, HandledItem DEF Handles
  <2>3. r \in answers <=> Head(step[p]) = Response(r)
    BY <2>2, AnswerParts
  <2>4. ASSUME NEW q \in Participants
        PROVE  /\ Has(step[q], Response(r)) <=> (q = p /\ Head(step[p]) = Response(r)) \/ Has(step'[q], Response(r))
               /\ Single(step'[q], Response(r))
               /\ q = p /\ Head(step[p]) = Response(r) => ~Has(step'[q], Response(r))
    BY <1>1, <1>2, <2>1, HandledItems
  <2> HIDE DEF answers
  <2>5. r \in answers => Has(step[p], Response(r))
    BY <2>3, <2>4
  <2>6. \A q \in Participants :
          /\ Single(step'[q], Response(r))
          /\ Has(step'[q], Response(r)) <=> Has(step[q], Response(r)) /\ ~(q = p /\ r \in answers)
    BY <2>3, <2>4
  <2> QED
    BY <1>1, <2>1, <2>5, <2>6, RunAgentBook
<1> QED
  BY <1>3, <1>4

\* What a step does to the number of requests and to the checkpoint.
LEMMA RaisedGrows == TypeOK /\ [Next]_vars => raised' >= raised /\ raised' \in Nat /\ raised \in Nat
<1> SUFFICES ASSUME TypeOK, [Next]_vars PROVE raised' >= raised /\ raised' \in Nat /\ raised \in Nat
  OBVIOUS
<1>1. raised \in Nat
  BY TypeParts DEF Others
<1>2. CASE \E p \in Participants : TakeTurn(p) \/ TakeAnswer(p)
  <2>1. PICK p \in Participants : TakeTurn(p) \/ TakeAnswer(p)
    BY <1>2
  <2>2. held[p] \in BOOLEAN
    BY TypeParts DEF Fields
  <2>3. \E answers : \E holds \in BOOLEAN : RunAgent(p, answers, holds)
    BY <2>1, <2>2 DEF TakeTurn, TakeAnswer
  <2> QED
    BY <1>1, <2>3, RunAgentAsks
<1>3. CASE ~\E p \in Participants : TakeTurn(p) \/ TakeAnswer(p)
  <2>1. raised' = raised
    BY <1>3 DEF Next, Step, Deliver, BeginStep, EndStep, Accumulate, Terminate, Dispatch, Decline, HostRest,
                Ask, Answer, Restore, AgentTurn, CloseRun, AbortRun, Rewind, vars, partVars
  <2> QED
    BY <1>1, <2>1
<1> QED
  BY <1>2, <1>3

LEMMA SavedSteps ==
  [Next]_vars => saved' = saved \/ (EndStep /\ saved' = Snapshot)
<1> SUFFICES ASSUME [Next]_vars PROVE saved' = saved \/ (EndStep /\ saved' = Snapshot)
  OBVIOUS
<1>1. CASE EndStep
  BY <1>1 DEF EndStep
<1>2. CASE ~EndStep
  BY <1>2 DEF Next, Step, Deliver, BeginStep, Accumulate, Terminate, Dispatch, Decline, HostRest,
              TakeTurn, TakeAnswer, RunAgent, Ask, Answer, Restore, AgentTurn, CloseRun, AbortRun, Rewind, vars
<1> QED
  BY <1>1, <1>2

\* Nothing queued, begun or saved changes.
Quiet ==
  \/ Ask \/ \E r \in Requests : Answer(r)
  \/ \E new \in BOOLEAN, answers \in SetToAllKPermutations(Requests) : AgentTurn(new, answers)
  \/ CloseRun \/ UNCHANGED vars

LEMMA QuietLeaves ==
  Quiet => UNCHANGED <<inbox, step, owner, open, raised, running, history, speaker, held, saved>>
  BY DEF Quiet, Ask, Answer, AgentTurn, CloseRun, vars, hostVars, partVars

LEMMA NowBook == ASSUME TypeOK, WaitInv, [Next]_vars, NEW r \in Requests PROVE BookNow(r)'
<1>1. BookNow(r) /\ BookSaved(r) /\ (running \/ step = Empty)
  BY DEF WaitInv, Books
<1>2. CASE Quiet
  BY <1>1, <1>2, QuietLeaves DEF BookNow
<1>3. CASE Restore \/ AbortRun
  <2>1. /\ inbox' = saved.inbox /\ step' = Empty /\ owner' = saved.owner /\ open' = saved.open
        /\ raised' = raised
    BY <1>3 DEF Restore, AbortRun, Rewind
  <2> QED
    BY <1>1, <2>1 DEF BookNow, BookSaved
<1>4. CASE Deliver
  BY <1>1, <1>4, DeliverBook
<1>5. CASE BeginStep
  BY <1>1, <1>5, BeginBook DEF BeginStep
<1>6. CASE EndStep
  BY <1>1, <1>6 DEF EndStep, BookNow, partVars
<1>7. CASE \E x \in Nodes : Accumulate(x)
  BY <1>1, <1>7, AccumulateBook
<1>8. CASE Terminate \/ (\E next \in Participants : Dispatch(next))
             \/ (\E next \in Participants \cup {None} : Decline(next))
  BY <1>1, <1>8, HostBook
<1>9. CASE \E p \in Participants : TakeTurn(p) \/ TakeAnswer(p)
  BY <1>1, <1>9, TakeBook
<1> QED
  BY <1>2, <1>3, <1>4, <1>5, <1>6, <1>7, <1>8, <1>9 DEF Next, Step, Quiet

LEMMA SavedBook == ASSUME TypeOK, WaitInv, [Next]_vars, NEW r \in Requests PROVE BookSaved(r)'
<1>1. BookNow(r) /\ BookSaved(r)
  BY DEF WaitInv, Books
<1>2. CASE saved' = saved
  <2>1. r > raised' => r > raised
    BY RaisedGrows, Names
  <2>2. \A p \in Participants :
          Single(saved.inbox[p], Response(r)) /\ Single(Empty[p], Response(r))
    BY <1>1 DEF BookSaved, Book
  <2> QED
    BY <1>1, <1>2, <2>1, <2>2, BookKept DEF BookSaved
<1>3. CASE EndStep /\ saved' = Snapshot
  <2>1. /\ saved'.inbox = inbox /\ saved'.owner = owner /\ saved'.open = open /\ step = Empty
        /\ raised' = raised
    BY <1>3 DEF Snapshot, EndStep, partVars
  <2> QED
    BY <1>1, <2>1 DEF BookNow, BookSaved
<1> QED
  BY <1>2, <1>3, SavedSteps

LEMMA BooksStep == TypeOK /\ WaitInv /\ [Next]_vars => Books'
<1> SUFFICES ASSUME TypeOK, WaitInv, [Next]_vars PROVE Books'
  OBVIOUS
<1>1. \A r \in Requests : BookNow(r)' /\ BookSaved(r)'
  BY NowBook, SavedBook
<1> QED
  BY <1>1 DEF Books

\* The turn is not lost while it is on its way: who handles anything else leaves it.
LEMMA TokensStay ==
  ASSUME TypeOK, NEW x \in Nodes, NEW kind, Handles(x, kind), kind # "token", NEW y \in Nodes
  PROVE  Has(step'[y], Token) <=> Has(step[y], Token)
<1>1. Head(step[x]) # Token
  BY DEF Handles, Token
<1> QED
  BY <1>1, HandledItems

LEMMA DeliverAlive == TypeOK /\ AliveNow /\ Deliver => AliveNow'
<1> SUFFICES ASSUME TypeOK, AliveNow, Deliver PROVE AliveNow'
  OBVIOUS
<1> DEFINE d == Head(deliveries)
           o == IF d.item.req = None THEN d.to ELSE owner[d.item.req]
<1>1. deliveries \in Seq(Sent) /\ deliveries # <<>> /\ Fields
  BY TypeParts DEF Others, Sent, Deliver
<1>2. d \in Sent
  BY <1>1
<1>3. d.item \in ItemTypes /\ d.to = Host
  BY <1>2 DEF Sent
<1>4. o \in Nodes
  BY <1>1, <1>3, ItemParts, Names DEF Fields, Deliver
<1>5. inbox' = [inbox EXCEPT ![o] = Append(inbox[o], d.item)] /\ inbox \in [Nodes -> Seq(ItemTypes)]
  BY <1>1 DEF Deliver, Fields, Queues
<1>6. Has(inbox[o], Token) => Has(inbox'[o], Token)
  <2>1. inbox[o] \in Seq(ItemTypes) /\ inbox'[o] = Append(inbox[o], d.item)
    BY <1>4, <1>5
  <2> HIDE DEF d, o
  <2> QED
    BY <2>1, <1>3, HasAppend
<1>7. \A y \in Nodes : Has(inbox[y], Token) => Has(inbox'[y], Token)
  BY <1>5, <1>6
<1>8. UNCHANGED <<step, history, speaker, held, open>>
  BY DEF Deliver, hostVars, partVars
<1> QED
  BY <1>7, <1>8 DEF AliveNow, Alive

LEMMA HostAlive ==
  ASSUME TypeOK, AliveNow,
         Terminate \/ (\E next \in Participants : Dispatch(next))
           \/ (\E next \in Participants \cup {None} : Decline(next))
  PROVE  AliveNow'
<1>1. UNCHANGED <<held, open>>
  BY DEF Terminate, Dispatch, Decline, HostRest, partVars
<1>2. CASE Terminate \/ \E next \in Participants \cup {None} : Decline(next)
  <2>1. history' = <<>> /\ speaker' = None
    BY <1>2 DEF Terminate, Decline, Complete
  <2> QED
    BY <1>1, <2>1 DEF AliveNow, Alive
<1>3. CASE \E next \in Participants : Dispatch(next)
  <2>1. PICK next \in Participants : Dispatch(next)
    BY <1>3
  <2>2. Fields /\ buf[Host] \in Seq(Messages) /\ Broadcast(buf[Host], next) /\ next \in Nodes
    BY <2>1, TypeParts, TranscriptType, Names DEF Dispatch
  <2>3. Has(inbox'[next], Token)
    BY <2>2, BroadcastItems
  <2> QED
    BY <1>1, <2>2, <2>3 DEF AliveNow, Alive
<1> QED
  BY <1>2, <1>3

\* Who lets his agent run has the token: he was sent it, or waits and so holds it.
LEMMA RunsWithToken ==
  ASSUME TypeOK, AliveNow, NEW p \in Participants, TakeTurn(p) \/ TakeAnswer(p)
  PROVE  \E answers : \E holds \in BOOLEAN : holds /\ RunAgent(p, answers, holds)
<1>1. CASE TakeTurn(p)
  BY <1>1 DEF TakeTurn
<1>2. CASE TakeAnswer(p)
  <2>1. held[p] \in BOOLEAN
    BY TypeParts DEF Fields
  <2>2. open[p] # {}
    BY <1>2 DEF TakeAnswer
  <2>3. held[p]
    BY <2>2 DEF AliveNow, Alive
  <2> QED
    BY <1>2, <2>1, <2>3 DEF TakeAnswer
<1> QED
  BY <1>1, <1>2

\* He passes it back to the host or keeps it, and then waits.
LEMMA TakeAlive ==
  ASSUME TypeOK, AliveNow, NEW p \in Participants, TakeTurn(p) \/ TakeAnswer(p) PROVE AliveNow'
<1>0. PICK answers : \E holds \in BOOLEAN : holds /\ RunAgent(p, answers, holds)
  BY RunsWithToken
<1>0a. PICK holds \in BOOLEAN : holds /\ RunAgent(p, answers, holds)
  BY <1>0
<1>1. PICK last \in Nat :
        /\ last >= raised /\ raised' = last
        /\ \A r \in Requests :
             /\ r \in open'[p] <=> (r \in open[p] /\ r \notin answers) \/ (raised < r /\ r <= last)
             /\ owner'[r] = IF raised < r /\ r <= last THEN p ELSE owner[r]
        /\ \A q \in Participants \ {p} : open'[q] = open[q]
        /\ UNCHANGED <<saved, history>>
        /\ holds => (held'[p] <=> open'[p] # {})
        /\ holds => held'[p] \/ inbox'[Host] = inbox[Host] \o <<Items(<<Message(p)>>)>> \o <<Token>>
  <2>1. RunAgent(p, answers, holds)
    BY <1>0a
  <2> QED
    BY <2>1, RunAgentAsks
<1>2. PICK release \in BOOLEAN :
        /\ release => holds
        /\ held'[p] = (holds /\ ~release) /\ \A q \in Participants \ {p} : held'[q] = held[q]
        /\ \A x \in Nodes \ {Host} : inbox'[x] = inbox[x]
        /\ inbox'[Host] = inbox[Host] \o <<Items(<<Message(p)>>)>> \o (IF release THEN <<Token>> ELSE <<>>)
        /\ UNCHANGED <<deliveries, speaker>>
  BY <1>0a, RunAgentEffect
<1>3. \A q \in Participants : held'[q] <=> open'[q] # {}
  BY <1>0a, <1>1, <1>2 DEF AliveNow, Alive
<1> DEFINE news == <<Items(<<Message(p)>>)>>
           turn == <<Token>>
<1>4. inbox[Host] \in Seq(ItemTypes) /\ news \in Seq(ItemTypes) /\ turn \in Seq(ItemTypes)
  <2>1. inbox[Host] \in Seq(ItemTypes)
    BY TypeParts, Names DEF Fields, Queues
  <2>2. <<Message(p)>> \in Seq(Messages)
    BY TypeParts DEF Fields, Message, Messages
  <2>3. Items(<<Message(p)>>) \in ItemTypes /\ Token \in ItemTypes
    BY <2>2, ItemsTyped
  <2> QED
    BY <2>1, <2>3
<1>5. CASE held'[p]
  BY <1>3, <1>5 DEF AliveNow, Alive
<1>6. CASE inbox'[Host] = inbox[Host] \o news \o turn
  <2>1. Has(turn, Token)
    BY HasOne
  <2> HIDE DEF news, turn
  <2>2. inbox[Host] \o news \in Seq(ItemTypes)
    BY <1>4
  <2>3. Has((inbox[Host] \o news) \o turn, Token)
    BY <1>4, <2>1, <2>2, HasConcat
  <2>4. Has(inbox'[Host], Token)
    BY <1>6, <2>3
  <2> QED
    BY <1>3, <2>4, Names DEF AliveNow, Alive
<1> QED
  BY <1>0a, <1>1, <1>5, <1>6

LEMMA AliveStep == TypeOK /\ WaitInv /\ [Next]_vars => AliveNow' /\ AliveSaved'
<1> SUFFICES ASSUME TypeOK, WaitInv, [Next]_vars PROVE AliveNow' /\ AliveSaved'
  OBVIOUS
<1>1. AliveNow /\ AliveSaved /\ (running \/ step = Empty)
  BY DEF WaitInv
<1>2. AliveNow'
  <2>1. CASE Quiet
    BY <1>1, <2>1, QuietLeaves DEF AliveNow
  <2>2. CASE Restore \/ AbortRun
    <3>1. /\ inbox' = saved.inbox /\ step' = Empty /\ history' = saved.history
          /\ speaker' = saved.speaker /\ held' = saved.held /\ open' = saved.open
      BY <2>2 DEF Restore, AbortRun, Rewind, RestoredToken
    <3> QED
      BY <1>1, <3>1 DEF AliveNow, AliveSaved
  <2>3. CASE BeginStep
    <3>1. step = Empty /\ step' = inbox /\ UNCHANGED <<history, speaker, held, open>>
      BY <1>1, <2>3 DEF BeginStep, hostVars, partVars
    <3> QED
      BY <1>1, <3>1, AtEmpty DEF AliveNow, Alive
  <2>4. CASE EndStep
    BY <1>1, <2>4 DEF EndStep, AliveNow, hostVars, partVars
  <2>5. CASE \E x \in Nodes : Accumulate(x)
    <3>1. PICK x \in Nodes : Accumulate(x)
      BY <2>5
    <3>2. Handles(x, "messages") /\ UNCHANGED <<inbox, history, speaker, held, open>>
      BY <3>1 DEF Accumulate, hostVars, partVars
    <3>3. \A y \in Nodes : Has(step'[y], Token) <=> Has(step[y], Token)
      BY <3>2, TokensStay
    <3> QED
      BY <1>1, <3>2, <3>3 DEF AliveNow, Alive
  <2>6. CASE Deliver
    BY <1>1, <2>6, DeliverAlive
  <2>7. CASE Terminate \/ (\E next \in Participants : Dispatch(next))
               \/ (\E next \in Participants \cup {None} : Decline(next))
    BY <1>1, <2>7, HostAlive
  <2>8. CASE \E p \in Participants : TakeTurn(p) \/ TakeAnswer(p)
    BY <1>1, <2>8, TakeAlive
  <2> QED
    BY <2>1, <2>2, <2>3, <2>4, <2>5, <2>6, <2>7, <2>8 DEF Next, Step, Quiet
<1>3. AliveSaved'
  <2>1. CASE saved' = saved
    BY <1>1, <2>1 DEF AliveSaved
  <2>2. CASE EndStep /\ saved' = Snapshot
    <3>1. /\ saved'.inbox = inbox /\ saved'.history = history /\ saved'.held = held
          /\ saved'.speaker = speaker /\ saved'.open = open /\ step = Empty
      BY <2>2 DEF Snapshot, EndStep
    <3> QED
      BY <1>1, <3>1 DEF AliveNow, AliveSaved
  <2> QED
    BY <2>1, <2>2, SavedSteps
<1> QED
  BY <1>2, <1>3

\* Between supersteps nothing is left to handle.
LEMMA BetweenSteps == (running \/ step = Empty) /\ [Next]_vars => (running \/ step = Empty)'
<1> SUFFICES ASSUME running \/ step = Empty, [Next]_vars PROVE (running \/ step = Empty)'
  OBVIOUS
<1>1. CASE Quiet
  BY <1>1, QuietLeaves
<1>2. CASE Restore \/ AbortRun \/ EndStep \/ BeginStep \/ Deliver
  BY <1>2 DEF Restore, AbortRun, Rewind, EndStep, BeginStep, Deliver
<1>3. CASE \/ \E x \in Nodes : Accumulate(x)
           \/ \E next \in Participants : Dispatch(next)
           \/ Terminate \/ \E next \in Participants \cup {None} : Decline(next)
           \/ \E p \in Participants : TakeTurn(p) \/ TakeAnswer(p)
  BY <1>3 DEF Accumulate, Dispatch, Terminate, Decline, TakeTurn, TakeAnswer, RunAgent, HostRest, Handles
<1> QED
  BY <1>1, <1>2, <1>3 DEF Next, Step, Quiet

LEMMA WaitStep == TypeOK /\ WaitInv /\ [Next]_vars => WaitInv'
  BY BooksStep, AliveStep, BetweenSteps DEF WaitInv

\* What the books say is what the property says of every request and participant.
LEMMA WaitMeans == TypeOK /\ WaitInv => WaitsOnlyForAnswers
<1> SUFFICES ASSUME TypeOK, WaitInv PROVE WaitsOnlyForAnswers
  OBVIOUS
<1>1. Fields /\ step \in Queues
  BY TypeParts DEF Others
<1>2. ASSUME Idle, history # <<>> PROVE \E p \in Participants : held[p] /\ open[p] # {}
  <2>1. \A x \in Nodes : ~Has(inbox[x], Token) /\ ~Has(step[x], Token)
    <3> SUFFICES ASSUME NEW x \in Nodes, Has(inbox[x], Token) \/ Has(step[x], Token) PROVE FALSE
      OBVIOUS
    <3>1. Token \in Range(inbox[x]) \cup Range(step[x])
      BY DEF Has, Range
    <3>2. Range(inbox[x]) \cup Range(step[x]) \subseteq
            UNION {Range(inbox[y]) \cup Range(step[y]) : y \in Nodes}
      OBVIOUS
    <3> QED
      BY <1>2, <3>1, <3>2 DEF Idle, InFlight
  <2> QED
    BY <1>2, <2>1 DEF WaitInv, AliveNow, Alive
<1>3. ASSUME NEW p \in Participants PROVE open[p] = {r \in Requests : owner[r] = p} \cup ResponsesTo(p)
  <2> DEFINE items == Range(inbox[p]) \cup Range(step[p])
  <2>1. items \subseteq ItemTypes
    <3>1. inbox[p] \in Seq(ItemTypes) /\ step[p] \in Seq(ItemTypes)
      BY <1>1, Names DEF Fields, Queues
    <3> QED
      BY <3>1 DEF Range
  <2>2. \A r \in Requests : Response(r) \in items <=> Waiting(r, p, inbox, step)
    BY DEF Has, Range, Waiting
  <2> HIDE DEF items
  <2>3. ResponsesTo(p) = {i.req : i \in {j \in items : j.kind = "response"}}
    BY DEF ResponsesTo, items
  <2>4. ASSUME NEW r PROVE r \in ResponsesTo(p) <=> r \in Requests /\ Waiting(r, p, inbox, step)
    <3>1. ASSUME r \in ResponsesTo(p) PROVE r \in Requests /\ Response(r) \in items
      <4>1. PICK i \in items : i.kind = "response" /\ r = i.req
        BY <2>3, <3>1
      <4>2. i \in ItemTypes
        BY <2>1
      <4> QED
        BY <4>1, <4>2, ItemParts, AnswerParts
    <3>2. ASSUME r \in Requests, Response(r) \in items PROVE r \in ResponsesTo(p)
      <4>1. Response(r).kind = "response" /\ Response(r).req = r
        BY DEF Response
      <4> QED
        BY <2>3, <3>2, <4>1
    <3> QED
      BY <2>2, <3>1, <3>2
  <2>5. open[p] \subseteq Requests
    BY <1>1 DEF Fields
  <2>6. \A r \in Requests : r \in open[p] <=> owner[r] = p \/ Waiting(r, p, inbox, step)
    BY DEF WaitInv, Books, BookNow, Book
  <2> QED
    BY <2>4, <2>5, <2>6
<1> QED
  BY <1>2, <1>3 DEF WaitsOnlyForAnswers

\* A chat that stands still waits for an answer somebody can give: over every order of
\* messages, turns, requests, answers, restores and aborted runs, the requests the run has
\* pending and the answers on their way are those the participants wait for.
THEOREM OnlyAnswersAreAwaited == Spec => []WaitsOnlyForAnswers
<1>1. Init => TypeOK /\ WaitInv
  BY TypeInit, BooksInit
<1>2. TypeOK /\ WaitInv /\ [Next]_vars => (TypeOK /\ WaitInv)'
  BY TypeStep, WaitStep
<1>3. TypeOK /\ WaitInv => WaitsOnlyForAnswers
  BY WaitMeans
<1> QED
  BY <1>1, <1>2, <1>3, PTL DEF Spec

-----------------------------------------------------------------------------
(* A sequence of sequences in one.                                         *)

\* A set of natural numbers with members has a least one.
LEMMA Least ==
  ASSUME NEW T, T \subseteq Nat, T # {}
  PROVE  \E x \in T : \A y \in T : x <= y
<1>1. PICK less : /\ IsWellFoundedOn(less, Nat)
                  /\ \A x, y \in Nat : <<x, y>> \in less <=> x < y
  <2>1. \A x, y \in Nat : <<x, y>> \in OpToRel(<, Nat) <=> x < y
    BY DEF OpToRel
  <2> QED
    BY <2>1, NatLessThanWellFounded
<1>2. IsWellFoundedOn(less, Nat)
  BY <1>1
<1>3. \E x \in T : \A y \in T : ~ (<<y, x>> \in less)
  BY ONLY <1>2, WFMin, T \subseteq Nat, T # {}
<1>4. PICK x \in T : \A y \in T : <<y, x>> \notin less
  BY <1>3
<1>5. ASSUME NEW y \in T PROVE x <= y
  <2>1. x \in Nat /\ y \in Nat
    OBVIOUS
  <2>2. <<y, x>> \in less <=> y < x
    BY <1>1, <2>1, Zenon
  <2>3. ~(y < x)
    BY <2>2, <1>4, Zenon
  <2> QED
    BY <2>1, <2>3
<1> QED
  BY <1>5

LEMMA Associative ==
  ASSUME NEW S PROVE \A a, b, c \in Seq(S) : (a \o b) \o c = a \o (b \o c)
  BY ConcatAssociative

\* f is what has been put together of s, element by element, up to the n-th.
Flat(f, s, n) == f = [i \in 1 .. n |-> IF i = 1 THEN s[i] ELSE f[i - 1] \o s[i]]

LEMMA FlatExists == ASSUME NEW s, NEW n \in Nat PROVE \E f : Flat(f, s, n)
<1> DEFINE T == {m \in Nat : ~ \E f : Flat(f, s, m)}
<1>1. SUFFICES ASSUME T # {} PROVE FALSE
  OBVIOUS
<1>2. PICK m \in T : \A k \in T : m <= k
  <2>1. T \subseteq Nat
    OBVIOUS
  <2> HIDE DEF T
  <2> QED
    BY <1>1, <2>1, Least
<1>3. m # 0
  <2> DEFINE f == [i \in 1 .. 0 |-> <<>>]
  <2>1. Flat(f, s, 0)
    BY DEF Flat
  <2> QED
    BY <2>1
<1>4. PICK g : Flat(g, s, m - 1)
  BY <1>2, <1>3
<1>5. m \in Nat \ {0} /\ m - 1 \in Nat
  BY <1>3
<1> DEFINE f == [i \in 1 .. m |-> IF i < m THEN g[i] ELSE IF m = 1 THEN s[m] ELSE g[m - 1] \o s[m]]
<1>6. ASSUME NEW i \in 1 .. m PROVE f[i] = IF i = 1 THEN s[i] ELSE f[i - 1] \o s[i]
  <2>1. i # 1 => i - 1 \in 1 .. m - 1 /\ i - 1 \in 1 .. m /\ i - 1 < m /\ f[i - 1] = g[i - 1]
    BY <1>5
  <2>2. CASE i = m
    <3>1. f[i] = IF m = 1 THEN s[m] ELSE g[m - 1] \o s[m]
      BY <2>2, <1>5
    <3> HIDE DEF f
    <3> QED
      BY <2>1, <2>2, <3>1
  <2>3. CASE i # m
    <3>1. f[i] = g[i] /\ i \in 1 .. m - 1
      BY <2>3, <1>5
    <3>2. g[i] = IF i = 1 THEN s[i] ELSE g[i - 1] \o s[i]
      BY <3>1, <1>4 DEF Flat
    <3> HIDE DEF f
    <3> QED
      BY <2>1, <3>1, <3>2
  <2> QED
    BY <2>2, <2>3
<1>7. f = [i \in 1 .. m |-> f[i]]
  OBVIOUS
<1>8. Flat(f, s, m)
  <2> HIDE DEF f
  <2>1. [i \in 1 .. m |-> f[i]] = [i \in 1 .. m |-> IF i = 1 THEN s[i] ELSE f[i - 1] \o s[i]]
    BY <1>6
  <2> QED
    BY <1>7, <2>1 DEF Flat
<1> QED
  BY <1>8

\* What FlattenSeq is made of.
LEMMA FlattenIs ==
  ASSUME NEW S, NEW s \in Seq(S), s # <<>>
  PROVE  \E f : Flat(f, s, Len(s)) /\ FlattenSeq(s) = f[Len(s)]
<1> DEFINE f == CHOOSE g : Flat(g, s, Len(s))
<1>1. Len(s) \in Nat /\ Len(s) # 0
  OBVIOUS
<1>2. Flat(f, s, Len(s))
  BY <1>1, FlatExists
<1>3. FlattenSeq(s) = f[Len(s)]
  BY <1>1 DEF FlattenSeq, Flat
<1> QED
  BY <1>2, <1>3

LEMMA FlattenNone == FlattenSeq(<<>>) = <<>>
<1>1. Len(<<>>) = 0
  OBVIOUS
<1> QED
  BY <1>1 DEF FlattenSeq

LEMMA FlattenType == ASSUME NEW S, NEW s \in Seq(Seq(S)) PROVE FlattenSeq(s) \in Seq(S)
<1>1. CASE s = <<>>
  <2>1. <<>> \in Seq(S)
    OBVIOUS
  <2> QED
    BY <1>1, <2>1, FlattenNone, Zenon
<1>2. CASE s # <<>>
  <2>1. PICK f : Flat(f, s, Len(s)) /\ FlattenSeq(s) = f[Len(s)]
    BY <1>2, FlattenIs
  <2> DEFINE T == {i \in 1 .. Len(s) : f[i] \notin Seq(S)}
  <2>2. Len(s) \in Nat /\ Len(s) # 0 /\ \A i \in 1 .. Len(s) : s[i] \in Seq(S)
    BY <1>2
  <2>3. T = {}
    <3> SUFFICES ASSUME T # {} PROVE FALSE
      OBVIOUS
    <3>1. PICK k \in T : \A i \in T : k <= i
      <4>1. T \subseteq Nat
        BY <2>2
      <4> HIDE DEF T
      <4> QED
        BY <4>1, Least
    <3>2. k \in 1 .. Len(s) /\ f[k] \notin Seq(S)
      OBVIOUS
    <3>3. f[k] = IF k = 1 THEN s[k] ELSE f[k - 1] \o s[k]
      BY <2>1, <3>2 DEF Flat
    <3>4. k # 1
      BY <2>2, <3>2, <3>3
    <3>5. k - 1 \in 1 .. Len(s) /\ ~(k <= k - 1)
      BY <2>2, <3>2, <3>4
    <3>6. f[k - 1] \in Seq(S)
      BY <3>1, <3>5
    <3> QED
      BY <2>2, <3>2, <3>3, <3>4, <3>6
  <2> QED
    BY <2>1, <2>2, <2>3
<1> QED
  BY <1>1, <1>2

LEMMA FlattenOne == ASSUME NEW S, NEW x \in Seq(S) PROVE FlattenSeq(<<x>>) = x
<1> DEFINE s == <<x>>
<1>1. s \in Seq(Seq(S)) /\ s # <<>> /\ Len(s) = 1 /\ s[1] = x
  OBVIOUS
<1> HIDE DEF s
<1>2. PICK f : Flat(f, s, Len(s)) /\ FlattenSeq(s) = f[Len(s)]
  BY <1>1, FlattenIs
<1>3. f[1] = s[1]
  BY <1>1, <1>2 DEF Flat
<1> QED
  BY <1>1, <1>2, <1>3 DEF s

\* What has been put together of a sequence with one element more.
LEMMA FlattenMore ==
  ASSUME NEW s, NEW t, Len(s) \in Nat, Len(s) # 0, Len(t) = Len(s) + 1, \A i \in 1 .. Len(s) : s[i] = t[i],
         NEW f, NEW g, Flat(f, s, Len(s)), Flat(g, t, Len(t))
  PROVE  g[Len(t)] = f[Len(s)] \o t[Len(t)]
<1>1. Len(t) \in Nat /\ Len(s) <= Len(t) /\ Len(s) \in 1 .. Len(s)
  OBVIOUS
<1>2. \A i \in 1 .. Len(s) : f[i] = g[i]
  <2> DEFINE T == {i \in 1 .. Len(s) : f[i] # g[i]}
  <2>1. SUFFICES ASSUME T # {} PROVE FALSE
    OBVIOUS
  <2>2. PICK k \in T : \A i \in T : k <= i
    <3>1. T \subseteq Nat
      OBVIOUS
    <3> HIDE DEF T
    <3> QED
      BY <2>1, <3>1, Least
  <2>3. k \in 1 .. Len(s) /\ k \in 1 .. Len(t) /\ f[k] # g[k]
    BY <1>1
  <2>4. /\ f[k] = IF k = 1 THEN s[k] ELSE f[k - 1] \o s[k]
        /\ g[k] = IF k = 1 THEN t[k] ELSE g[k - 1] \o t[k]
    BY <2>3 DEF Flat
  <2>5. k # 1
    BY <2>3, <2>4
  <2>6. k - 1 \in 1 .. Len(s) /\ ~(k <= k - 1)
    BY <2>3, <2>5
  <2>7. f[k - 1] = g[k - 1]
    BY <2>2, <2>6
  <2> QED
    BY <2>3, <2>4, <2>5, <2>7
<1>3. Len(t) \in 1 .. Len(t) /\ Len(t) # 1 /\ Len(t) - 1 = Len(s)
  BY <1>1
<1>4. g[Len(t)] = g[Len(s)] \o t[Len(t)]
  BY <1>3 DEF Flat
<1> QED
  BY <1>1, <1>2, <1>4

LEMMA FlattenAppend ==
  ASSUME NEW S, NEW s \in Seq(Seq(S)), NEW x \in Seq(S)
  PROVE  FlattenSeq(Append(s, x)) = FlattenSeq(s) \o x
<1>1. CASE s = <<>>
  <2>1. Append(s, x) = <<x>>
    BY <1>1
  <2>2. <<>> \o x = x
    OBVIOUS
  <2> QED
    BY <1>1, <2>1, <2>2, FlattenNone, FlattenOne
<1>2. CASE s # <<>>
  <2> DEFINE t == Append(s, x)
  <2>1. /\ Len(s) \in Nat /\ Len(s) # 0 /\ t \in Seq(Seq(S)) /\ t # <<>> /\ Len(t) = Len(s) + 1
        /\ t[Len(s) + 1] = x /\ \A i \in 1 .. Len(s) : s[i] = t[i]
    <3> DEFINE V == Seq(S)
    <3> HIDE DEF V
    <3>1. s \in Seq(V) /\ x \in V
      BY DEF V
    <3>2. /\ Len(s) \in Nat /\ Len(s) # 0 /\ t \in Seq(V) /\ t # <<>> /\ Len(t) = Len(s) + 1
          /\ t[Len(s) + 1] = x /\ \A i \in 1 .. Len(s) : s[i] = t[i]
      <4>1. Len(s) \in Nat /\ Len(s) # 0
        BY <1>2, <3>1
      <4>2. /\ t \in Seq(V) /\ t # <<>> /\ Len(t) = Len(s) + 1
            /\ t[Len(s) + 1] = x /\ \A i \in 1 .. Len(s) : t[i] = s[i]
        BY <3>1, AppendProperties
      <4> QED
        BY <4>1, <4>2
    <3> QED
      BY <3>2 DEF V
  <2> HIDE DEF t
  <2>2. PICK f : Flat(f, s, Len(s)) /\ FlattenSeq(s) = f[Len(s)]
    BY <1>2, FlattenIs
  <2>3. PICK g : Flat(g, t, Len(t)) /\ FlattenSeq(t) = g[Len(t)]
    BY <2>1, FlattenIs
  <2>4. g[Len(t)] = f[Len(s)] \o t[Len(t)]
    BY <2>1, <2>2, <2>3, FlattenMore
  <2> QED
    BY <2>1, <2>2, <2>3, <2>4 DEF t
<1> QED
  BY <1>1, <1>2

\* From the front: what the first element is, and the rest after it.
LEMMA FlattenHead ==
  ASSUME NEW S, NEW s \in Seq(Seq(S)), s # <<>>
  PROVE  FlattenSeq(s) = Head(s) \o FlattenSeq(Tail(s))
<1> DEFINE t == Tail(s)
<1>1. /\ Len(s) \in Nat /\ Len(s) # 0 /\ t \in Seq(Seq(S)) /\ Len(t) = Len(s) - 1 /\ Len(t) \in Nat
      /\ s[1] = Head(s) /\ \A i \in 1 .. Len(t) : t[i] = s[i + 1]
      /\ Head(s) \in Seq(S) /\ \A i \in 1 .. Len(t) : t[i] \in Seq(S)
      /\ t = <<>> <=> Len(t) = 0
  <2> DEFINE V == Seq(S)
  <2> HIDE DEF V
  <2>1. s \in Seq(V)
    BY DEF V
  <2>2. /\ Len(s) \in Nat /\ Len(s) # 0 /\ t \in Seq(V) /\ Len(t) = Len(s) - 1 /\ Len(t) \in Nat
        /\ s[1] = Head(s) /\ \A i \in 1 .. Len(t) : t[i] = s[i + 1]
        /\ Head(s) \in V
    BY <2>1
  <2>3. \A i \in 1 .. Len(t) : t[i] \in V
    BY <2>2
  <2>4. t = <<>> <=> Len(t) = 0
    BY <2>2, EmptySeq
  <2> QED
    BY <2>2, <2>3, <2>4 DEF V
<1> HIDE DEF t
<1>2. PICK f : Flat(f, s, Len(s)) /\ FlattenSeq(s) = f[Len(s)]
  BY FlattenIs
<1>3. f[1] = Head(s)
  BY <1>1, <1>2 DEF Flat
<1>4. CASE t = <<>>
  <2>1. Head(s) \o <<>> = Head(s)
    BY <1>1
  <2>2. Len(s) = 1
    BY <1>1, <1>4
  <2>3. FlattenSeq(t) = <<>> /\ FlattenSeq(s) = Head(s)
    BY <1>2, <1>3, <1>4, <2>2, FlattenNone
  <2> QED
    BY <2>1, <2>3 DEF t
<1>5. CASE t # <<>>
  <2>1. PICK g : Flat(g, t, Len(t)) /\ FlattenSeq(t) = g[Len(t)]
    BY <1>1, <1>5, FlattenIs
  <2> DEFINE Right(i) == g[i] \in Seq(S) /\ f[i + 1] = Head(s) \o g[i]
             T == {i \in 1 .. Len(t) : ~Right(i)}
  <2>2. T = {}
    <3> SUFFICES ASSUME T # {} PROVE FALSE
      OBVIOUS
    <3>1. PICK k \in T : \A i \in T : k <= i
      <4>1. T \subseteq 1 .. Len(t)
        OBVIOUS
      <4>2. 1 .. Len(t) \subseteq Nat
        OBVIOUS
      <4> HIDE DEF T
      <4> QED
        BY <4>1, <4>2, Least
    <3>2. k \in 1 .. Len(t) /\ ~Right(k)
      OBVIOUS
    <3>3. g[k] = IF k = 1 THEN t[k] ELSE g[k - 1] \o t[k]
      BY <2>1, <3>2 DEF Flat
    <3>4. f[k + 1] = f[k] \o t[k]
      <4>1. k + 1 \in 1 .. Len(s) /\ k + 1 # 1 /\ (k + 1) - 1 = k
        BY <1>1, <3>2
      <4>2. f[k + 1] = f[(k + 1) - 1] \o s[k + 1]
        BY <1>2, <4>1 DEF Flat
      <4> QED
        BY <1>1, <3>2, <4>1, <4>2
    <3>5. CASE k = 1
      BY <1>1, <1>3, <3>2, <3>3, <3>4, <3>5
    <3>6. CASE k # 1
      <4>1. k - 1 \in 1 .. Len(t) /\ ~(k <= k - 1) /\ (k - 1) + 1 = k
        BY <1>1, <3>2, <3>6
      <4>2. g[k - 1] \in Seq(S) /\ f[k] = Head(s) \o g[k - 1]
        BY <3>1, <4>1
      <4>3. (Head(s) \o g[k - 1]) \o t[k] = Head(s) \o (g[k - 1] \o t[k])
        <5>1. Head(s) \in Seq(S) /\ t[k] \in Seq(S)
          BY <1>1, <3>2
        <5> DEFINE a == Head(s)
                   b == g[k - 1]
                   c == t[k]
        <5>2. a \in Seq(S) /\ b \in Seq(S) /\ c \in Seq(S)
          BY <4>2, <5>1
        <5> HIDE DEF a, b, c
        <5>3. (a \o b) \o c = a \o (b \o c)
          BY <5>2, Associative, SMTT(60)
        <5> QED
          BY <5>3 DEF a, b, c
      <4>4. g[k] \in Seq(S)
        BY <1>1, <3>2, <3>3, <3>6, <4>2
      <4> QED
        BY <3>2, <3>3, <3>4, <3>6, <4>2, <4>3, <4>4
    <3> QED
      BY <3>5, <3>6
  <2>3. Len(t) \in 1 .. Len(t) /\ Len(t) + 1 = Len(s)
    BY <1>1, <1>5
  <2>4. Right(Len(t))
    BY <2>2, <2>3
  <2> QED
    BY <1>2, <2>1, <2>3, <2>4 DEF t
<1> QED
  BY <1>4, <1>5

\* The messages of a queue: none of nothing, at its end those of the last item, and
\* from its front those of the first.
LEMMA MessagesNone == MessagesOf(<<>>) = <<>>
<1>1. [i \in 1 .. Len(<<>>) |-> <<>>[i].body] = <<>>
  OBVIOUS
<1> QED
  BY <1>1, FlattenNone DEF MessagesOf

LEMMA Bodies ==
  ASSUME NEW q \in Seq(ItemTypes)
  PROVE  /\ [i \in 1 .. Len(q) |-> q[i].body] \in Seq(Seq(Messages))
         /\ MessagesOf(q) \in Seq(Messages)
<1> DEFINE V == Seq(Messages)
           s == [i \in 1 .. Len(q) |-> q[i].body]
<1>1. \A i \in 1 .. Len(q) : q[i].body \in V
  <2>1. \A i \in 1 .. Len(q) : q[i] \in ItemTypes
    OBVIOUS
  <2> QED
    BY <2>1, ItemParts
<1>2. Len(q) \in Nat
  OBVIOUS
<1>3. s \in Seq(V)
  <2> HIDE DEF V
  <2> QED
    BY <1>1, <1>2
<1>4. FlattenSeq(s) \in Seq(Messages)
  <2> HIDE DEF s
  <2> QED
    BY <1>3, FlattenType
<1> QED
  BY <1>3, <1>4 DEF MessagesOf

LEMMA MessagesAppend ==
  ASSUME NEW q \in Seq(ItemTypes), NEW e \in ItemTypes
  PROVE  MessagesOf(Append(q, e)) = MessagesOf(q) \o e.body
<1> DEFINE s == [i \in 1 .. Len(q) |-> q[i].body]
           t == [i \in 1 .. Len(Append(q, e)) |-> Append(q, e)[i].body]
           b == e.body
<1>1. s \in Seq(Seq(Messages)) /\ t \in Seq(Seq(Messages)) /\ b \in Seq(Messages)
  <2>1. Append(q, e) \in Seq(ItemTypes)
    OBVIOUS
  <2> QED
    BY <2>1, Bodies, ItemParts
<1>2. t = Append(s, b)
  <2>1. /\ Len(q) \in Nat /\ Len(Append(q, e)) = Len(q) + 1
        /\ \A i \in 1 .. Len(q) : Append(q, e)[i] = q[i]
        /\ Append(q, e)[Len(q) + 1] = e
    BY AppendProperties
  <2> DEFINE r == Append(q, e)
  <2> HIDE DEF r
  <2>2. /\ Len(s) = Len(q) /\ \A i \in 1 .. Len(q) : s[i] = q[i].body
    BY <2>1
  <2>3. Len(t) = Len(q) + 1 /\ \A i \in 1 .. Len(q) + 1 : t[i] = Append(q, e)[i].body
    BY <2>1
  <2> DEFINE V == Seq(Messages)
             u == Append(s, b)
  <2>4. s \in Seq(V) /\ t \in Seq(V) /\ b \in V
    BY <1>1
  <2> HIDE DEF V, s, t, b
  <2>5. u \in Seq(V) /\ Len(u) = Len(s) + 1 /\ u[Len(s) + 1] = b /\ \A i \in 1 .. Len(s) : u[i] = s[i]
    BY <2>4, AppendProperties
  <2> HIDE DEF u
  <2>6. \A i \in 1 .. Len(q) + 1 : t[i] = u[i]
    <3> TAKE i \in 1 .. Len(q) + 1
    <3>1. CASE i = Len(q) + 1
      BY <2>1, <2>2, <2>3, <2>5, <3>1 DEF b
    <3>2. CASE i # Len(q) + 1
      <4>1. i \in 1 .. Len(q)
        BY <2>1, <3>2
      <4> QED
        BY <2>1, <2>2, <2>3, <2>5, <4>1
    <3> QED
      BY <3>1, <3>2
  <2>7. t = u
    <3>1. Len(t) = Len(u) /\ Len(t) = Len(q) + 1
      BY <2>2, <2>3, <2>5
    <3> QED
      BY <2>4, <2>5, <2>6, <3>1, SeqEqual
  <2> QED
    BY <2>7 DEF u
<1>3. FlattenSeq(Append(s, b)) = FlattenSeq(s) \o b
  <2> HIDE DEF s, b
  <2> QED
    BY <1>1, FlattenAppend
<1>4. MessagesOf(Append(q, e)) = FlattenSeq(t) /\ MessagesOf(q) = FlattenSeq(s)
  BY DEF MessagesOf
<1> HIDE DEF s, t
<1> QED
  BY <1>2, <1>3, <1>4

LEMMA MessagesHead ==
  ASSUME NEW q \in Seq(ItemTypes), q # <<>>
  PROVE  MessagesOf(q) = Head(q).body \o MessagesOf(Tail(q))
<1> DEFINE s == [i \in 1 .. Len(q) |-> q[i].body]
           r == Tail(q)
           t == [i \in 1 .. Len(r) |-> r[i].body]
<1>1. /\ Head(q) = q[1] /\ r \in Seq(ItemTypes) /\ Len(r) = Len(q) - 1 /\ Len(q) \in Nat /\ Len(q) # 0
      /\ \A i \in 1 .. Len(r) : r[i] = q[i + 1]
  OBVIOUS
<1> HIDE DEF r
<1>2. s \in Seq(Seq(Messages)) /\ t \in Seq(Seq(Messages))
  BY <1>1, Bodies
<1>3. s # <<>> /\ Head(s) = q[1].body /\ Tail(s) = t
  <2>1. Len(s) = Len(q) /\ \A i \in 1 .. Len(q) : s[i] = q[i].body
    BY <1>1
  <2>2. Len(t) = Len(r) /\ \A i \in 1 .. Len(r) : t[i] = r[i].body
    BY <1>1
  <2> DEFINE V == Seq(Messages)
             u == Tail(s)
  <2>3. s \in Seq(V) /\ t \in Seq(V)
    BY <1>2
  <2> HIDE DEF V, s, t
  <2>4. s # <<>> /\ Head(s) = s[1]
    BY <1>1, <2>1, <2>3
  <2>5. u \in Seq(V) /\ Len(u) = Len(s) - 1 /\ \A i \in 1 .. Len(u) : u[i] = s[i + 1]
    BY <2>3, <2>4, HeadTailProperties
  <2> HIDE DEF u
  <2>6. \A i \in 1 .. Len(t) : t[i] = u[i]
    <3> TAKE i \in 1 .. Len(t)
    <3>1. i \in 1 .. Len(r) /\ i \in 1 .. Len(u) /\ i + 1 \in 1 .. Len(q)
      BY <1>1, <2>1, <2>2, <2>5
    <3>2. t[i] = q[i + 1].body
      BY <1>1, <2>2, <3>1
    <3>3. u[i] = q[i + 1].body
      BY <2>1, <2>5, <3>1
    <3> QED
      BY <3>2, <3>3
  <2>7. t = u
    <3>1. Len(t) = Len(u)
      BY <1>1, <2>1, <2>2, <2>5
    <3> QED
      BY <2>3, <2>5, <2>6, <3>1, SeqEqual
  <2>8. s[1] = q[1].body
    <3>1. 1 \in 1 .. Len(q)
      BY <1>1
    <3> QED
      BY <2>1, <3>1
  <2> QED
    BY <2>4, <2>7, <2>8 DEF u
<1>4. FlattenSeq(s) = Head(s) \o FlattenSeq(Tail(s))
  <2> HIDE DEF s
  <2> QED
    BY <1>2, <1>3, FlattenHead
<1>5. MessagesOf(q) = FlattenSeq(s) /\ MessagesOf(r) = FlattenSeq(t)
  BY DEF MessagesOf
<1> HIDE DEF s, t
<1> QED
  BY <1>1, <1>3, <1>4, <1>5 DEF r

-----------------------------------------------------------------------------
(* The transcript: nothing said is lost or put out twice, now or in a      *)
(* checkpoint.                                                             *)

\* One sequence after the other, kept as a name: its laws are all that is needed.
Join(a, b) == a \o b
Talk       == Seq(Messages)

Whole(y, h, b, st, ib, s) ==
  Join(Join(Join(Join(FlattenSeq(y), h), b), MessagesOf(st)), MessagesOf(ib)) = s

WholeNow   == Whole(yielded, history, buf[Host], step[Host], inbox[Host], said)
WholeSaved ==
  Whole(saved.yielded, saved.history, saved.buf[Host], Empty[Host], saved.inbox[Host], saved.said)
WholeInv   == (running \/ step = Empty) /\ WholeNow /\ WholeSaved

LEMMA Empties == Empty[Host] = <<>> /\ MessagesOf(Empty[Host]) = <<>>
  BY Names, MessagesNone DEF Empty

LEMMA JoinLaws ==
  /\ <<>> \in Talk
  /\ \A a, b \in Talk : Join(a, b) \in Talk
  /\ \A a \in Talk : Join(a, <<>>) = a /\ Join(<<>>, a) = a
  /\ \A a, b, c \in Talk : Join(Join(a, b), c) = Join(a, Join(b, c))
<1>1. \A a, b, c \in Talk : Join(Join(a, b), c) = Join(a, Join(b, c))
  BY Associative DEF Join, Talk
<1>2. \A a \in Talk : Join(a, <<>>) = a /\ Join(<<>>, a) = a
  BY ConcatEmptySeq DEF Join, Talk
<1>3. <<>> \in Talk /\ \A a, b \in Talk : Join(a, b) \in Talk
  BY DEF Join, Talk
<1> QED
  BY <1>1, <1>2, <1>3

\* Where messages go: nothing moves out of its place in the order. A buffer takes what
\* is handled, a transcript what is in the buffer.
LEMMA Handled ==
  ASSUME NEW x \in Talk, NEW b \in Talk, NEW m \in Talk, NEW c \in Talk
  PROVE  Join(Join(x, b), Join(m, c)) = Join(Join(x, Join(b, m)), c)
<1>1. Join(x, b) \in Talk
  BY JoinLaws
<1>2. Join(Join(x, b), Join(m, c)) = Join(Join(Join(x, b), m), c)
  BY <1>1, JoinLaws
<1>3. Join(Join(x, b), m) = Join(x, Join(b, m))
  BY JoinLaws
<1> QED
  BY <1>2, <1>3

LEMMA Taken ==
  ASSUME NEW y \in Talk, NEW h \in Talk, NEW b \in Talk
  PROVE  /\ Join(Join(y, Join(h, b)), <<>>) = Join(Join(y, h), b)
         /\ Join(Join(Join(y, Join(h, b)), <<>>), <<>>) = Join(Join(y, h), b)
<1>1. Join(y, Join(h, b)) = Join(Join(y, h), b) /\ Join(Join(y, h), b) \in Talk
  BY JoinLaws
<1> QED
  BY <1>1, JoinLaws

\* The state's sequences.
LEMMA Sequences ==
  ASSUME TypeOK
  PROVE  /\ yielded \in Seq(Talk) /\ FlattenSeq(yielded) \in Talk
         /\ history \in Talk /\ buf[Host] \in Talk /\ said \in Talk
         /\ step[Host] \in Seq(ItemTypes) /\ inbox[Host] \in Seq(ItemTypes)
         /\ MessagesOf(step[Host]) \in Talk /\ MessagesOf(inbox[Host]) \in Talk
<1>1. Fields /\ step \in Queues
  BY TypeParts DEF Others
<1>2. step[Host] \in Seq(ItemTypes) /\ inbox[Host] \in Seq(ItemTypes)
  BY <1>1, Names DEF Fields, Queues
<1>3. yielded \in Seq(Talk)
  BY <1>1 DEF Fields, Talk
<1>4. FlattenSeq(yielded) \in Talk
  BY <1>3, FlattenType DEF Talk
<1>5. MessagesOf(step[Host]) \in Talk /\ MessagesOf(inbox[Host]) \in Talk
  BY <1>2, Bodies DEF Talk
<1> QED
  BY <1>1, <1>2, <1>3, <1>4, <1>5, Names DEF Fields, Talk

\* What executor x handles came first in its queue; tokens and answers carry no messages.
LEMMA HandlesFirst ==
  ASSUME TypeOK, NEW x \in Nodes, NEW kind, Handles(x, kind)
  PROVE  /\ step[x] \in Seq(ItemTypes) /\ step[x] # <<>> /\ step'[x] = Tail(step[x])
         /\ Head(step[x]) \in ItemTypes /\ Head(step[x]).body \in Talk /\ MessagesOf(step'[x]) \in Talk
         /\ MessagesOf(step[x]) = Join(Head(step[x]).body, MessagesOf(step'[x]))
         /\ kind = "token" => Head(step[x]) = Token
         /\ kind \in {"token", "response"} => MessagesOf(step[x]) = MessagesOf(step'[x])
         /\ \A y \in Nodes \ {x} : step'[y] = step[y]
<1>1. step[x] # <<>> /\ Head(step[x]).kind = kind /\ step \in [Nodes -> Seq(ItemTypes)]
  BY TypeParts DEF Others, Queues, Handles
<1>2. step[x] \in Seq(ItemTypes)
  BY <1>1
<1>3. Head(step[x]) \in ItemTypes /\ step'[x] = Tail(step[x]) /\ \A y \in Nodes \ {x} : step'[y] = step[y]
  BY <1>1, HandledItem
<1>4. step'[x] \in Seq(ItemTypes)
  BY <1>1, <1>2, <1>3
<1>5. MessagesOf(step[x]) = Join(Head(step[x]).body, MessagesOf(step'[x]))
  BY <1>1, <1>2, <1>3, MessagesHead DEF Join
<1>6. MessagesOf(step'[x]) \in Talk /\ Head(step[x]).body \in Talk
  BY <1>3, <1>4, Bodies, ItemParts DEF Talk
<1>7. kind = "token" => Head(step[x]) = Token
  BY <1>1, <1>3, ItemParts
<1>8. kind \in {"token", "response"} => Head(step[x]).body = <<>>
  <2>1. kind = "response" => \E r : Head(step[x]) = Response(r)
    BY <1>1, <1>3, AnswerParts
  <2>2. Token.body = <<>> /\ \A r : Response(r).body = <<>>
    BY DEF Token, Response
  <2> QED
    BY <1>7, <2>1, <2>2
<1>9. kind \in {"token", "response"} => MessagesOf(step[x]) = MessagesOf(step'[x])
  BY <1>5, <1>6, <1>8, JoinLaws
<1> QED
  BY <1>1, <1>2, <1>3, <1>5, <1>6, <1>7, <1>9

LEMMA WholeInit == Init => WholeInv
<1> SUFFICES ASSUME Init PROVE WholeInv
  OBVIOUS
<1>1. /\ yielded = <<>> /\ history = <<>> /\ buf = Empty /\ step = Empty /\ inbox = Empty /\ said = <<>>
      /\ saved.yielded = yielded /\ saved.history = history /\ saved.buf = buf /\ saved.inbox = inbox
      /\ saved.said = said
  BY DEF Init, Snapshot
<1>2. Join(<<>>, <<>>) = <<>>
  BY JoinLaws
<1>3. Whole(<<>>, <<>>, Empty[Host], Empty[Host], Empty[Host], <<>>)
  BY <1>2, Empties, FlattenNone DEF Whole
<1> QED
  BY <1>1, <1>3 DEF WholeInv, WholeNow, WholeSaved

\* What the caller sends to the host is said, and answers say nothing.
LEMMA DeliverWhole == TypeOK /\ WholeNow /\ Deliver => WholeNow'
<1> SUFFICES ASSUME TypeOK, WholeNow, Deliver PROVE WholeNow'
  OBVIOUS
<1> DEFINE d == Head(deliveries)
           o == IF d.item.req = None THEN d.to ELSE owner[d.item.req]
           e == d.item
           m == e.body
<1>1. deliveries \in Seq(Sent) /\ deliveries # <<>> /\ Fields
  BY TypeParts DEF Others, Sent, Deliver
<1>2. d \in Sent
  BY <1>1
<1>3. e \in ItemTypes /\ d.to = Host
  BY <1>2 DEF Sent
<1>4. o \in Nodes /\ (o # Host => e.req # None)
  BY <1>1, <1>3, ItemParts, Names DEF Fields, Deliver
<1>5. inbox' = [inbox EXCEPT ![o] = Append(inbox[o], e)] /\ inbox \in [Nodes -> Seq(ItemTypes)]
  BY <1>1 DEF Deliver, Fields, Queues
<1>6. said' = Join(said, m) /\ UNCHANGED <<yielded, history, buf, step>>
  BY DEF Deliver, hostVars, partVars, Join
<1>7. m \in Talk /\ (e.req # None => m = <<>>)
  <2>1. e.req # None => e = Response(e.req)
    BY <1>3, AnswerParts
  <2> QED
    BY <1>3, <2>1, ItemParts DEF Response, Talk
<1>8. MessagesOf(inbox'[Host]) = Join(MessagesOf(inbox[Host]), m)
  <2>1. CASE o = Host
    <3>1. inbox'[Host] = Append(inbox[Host], e) /\ inbox[Host] \in Seq(ItemTypes)
      BY <1>5, <2>1, Names
    <3> HIDE DEF e, o
    <3> QED
      BY <1>3, <3>1, MessagesAppend DEF Join
  <2>2. CASE o # Host
    <3>1. inbox'[Host] = inbox[Host] /\ m = <<>>
      BY <1>4, <1>5, <1>7, <2>2, Names
    <3> HIDE DEF e, o, m
    <3> QED
      BY <3>1, Sequences, JoinLaws
  <2> QED
    BY <2>1, <2>2
<1> DEFINE i == MessagesOf(inbox[Host])
           x == Join(Join(Join(FlattenSeq(yielded), history), buf[Host]), MessagesOf(step[Host]))
<1>9. x \in Talk /\ i \in Talk /\ Join(x, i) = said
  BY Sequences, JoinLaws DEF WholeNow, Whole
<1>10. Join(x, Join(i, m)) = said'
  <2> HIDE DEF x, i, m
  <2> QED
    BY <1>6, <1>7, <1>9, JoinLaws
<1> HIDE DEF d, o, e, m
<1> QED
  BY <1>6, <1>8, <1>10 DEF WholeNow, Whole

LEMMA BeginWhole == TypeOK /\ WholeNow /\ step = Empty /\ BeginStep => WholeNow'
<1> SUFFICES ASSUME TypeOK, WholeNow, step = Empty, BeginStep PROVE WholeNow'
  OBVIOUS
<1>1. step' = inbox /\ inbox' = Empty /\ UNCHANGED <<yielded, history, buf, said>>
  BY DEF BeginStep, hostVars
<1> DEFINE x == Join(Join(FlattenSeq(yielded), history), buf[Host])
           i == MessagesOf(inbox[Host])
<1>2. x \in Talk /\ i \in Talk /\ Join(x, i) \in Talk
  BY Sequences, JoinLaws
<1>3. Join(Join(x, <<>>), i) = Join(Join(x, i), <<>>)
  <2> HIDE DEF x, i
  <2> QED
    BY <1>2, JoinLaws
<1> QED
  BY <1>1, <1>3, Empties DEF WholeNow, Whole

LEMMA AccumulateWhole == ASSUME TypeOK, WholeNow, NEW x \in Nodes, Accumulate(x) PROVE WholeNow'
<1>1. /\ Handles(x, "messages") /\ buf' = [buf EXCEPT ![x] = Join(buf[x], Head(step[x]).body)]
      /\ UNCHANGED <<yielded, history, inbox, said>>
  BY DEF Accumulate, hostVars, Join
<1>2. buf \in [Nodes -> Seq(Messages)] /\ step \in [Nodes -> Seq(ItemTypes)]
  BY TypeParts DEF Fields, Others, Queues
<1>3. CASE x # Host
  <2>1. buf'[Host] = buf[Host] /\ step'[Host] = step[Host]
    BY <1>1, <1>2, <1>3, Names DEF Handles
  <2> QED
    BY <1>1, <2>1 DEF WholeNow, Whole
<1>4. CASE x = Host
  <2> DEFINE y == Join(FlattenSeq(yielded), history)
             b == buf[Host]
             m == Head(step[Host]).body
             c == MessagesOf(step'[Host])
  <2>1. buf'[Host] = Join(b, m)
    BY <1>1, <1>2, <1>4, Names
  <2>2. m \in Talk /\ c \in Talk /\ MessagesOf(step[Host]) = Join(m, c)
    BY <1>1, <1>4, Names, HandlesFirst
  <2>3. y \in Talk /\ b \in Talk
    BY Sequences, JoinLaws
  <2>4. Join(Join(y, b), Join(m, c)) = Join(Join(y, Join(b, m)), c)
    <3> HIDE DEF y, b, m, c
    <3> QED
      BY <2>2, <2>3, Handled
  <2>5. Join(Join(Join(y, b), Join(m, c)), MessagesOf(inbox[Host])) = said
    BY <2>2 DEF WholeNow, Whole
  <2>6. Join(Join(Join(y, Join(b, m)), c), MessagesOf(inbox[Host])) = said
    <3> HIDE DEF y, b, m, c
    <3> QED
      BY <2>4, <2>5
  <2> QED
    BY <1>1, <2>1, <2>6 DEF WholeNow, Whole
<1> QED
  BY <1>3, <1>4

\* A broadcast goes to participants.
LEMMA BroadcastHost ==
  ASSUME TypeOK, NEW new, NEW next \in Participants \cup {None}, Broadcast(new, next)
  PROVE  inbox'[Host] = inbox[Host]
<1>1. inbox'[Host] = inbox[Host] \o <<>> \o <<>>
  <2>1. Host \notin Audience(next) /\ Host # next
    BY Names DEF Audience
  <2> QED
    BY <2>1, Names DEF Broadcast
<1>2. inbox[Host] \in Seq(ItemTypes)
  BY Sequences
<1>3. inbox[Host] \o <<>> = inbox[Host]
  BY <1>2, ConcatEmptySeq
<1> QED
  BY <1>1, <1>3

\* A transcript that is put out, with or without an empty one behind it.
LEMMA PutOut ==
  ASSUME NEW y \in Seq(Talk), NEW one \in Talk,
         NEW out \in {<<one>>, <<one>> \o <<>>, <<one>> \o << <<>> >>}
  PROVE  FlattenSeq(y \o out) = Join(FlattenSeq(y), one)
<1> DEFINE nothing == <<>>
<1>1. nothing \in Talk /\ nothing = <<>>
  BY JoinLaws
<1> HIDE DEF nothing
<1>2. y \o out = Append(y, one) \/ y \o out = Append(Append(y, one), nothing)
  <2>1. <<one>> \o <<>> = <<one>>
    <3>1. <<one>> \in Seq(Talk)
      OBVIOUS
    <3> QED
      BY <3>1, ConcatEmptySeq
  <2>2. <<one>> \o <<nothing>> = <<one, nothing>>
    <3>1. <<one>> \in Seq(Talk) /\ nothing \in Talk
      BY <1>1
    <3>2. Append(<<one>>, nothing) = <<one>> \o <<nothing>>
      BY <3>1, AppendIsConcat
    <3>3. Append(<<one>>, nothing) = <<one, nothing>>
      <4> DEFINE a == Append(<<one>>, nothing)
                 b == <<one, nothing>>
      <4>1. Len(<<one>>) = 1 /\ <<one>>[1] = one
        OBVIOUS
      <4>2. a \in Seq(Talk) /\ Len(a) = 2 /\ a[1] = one /\ a[2] = nothing
        BY <3>1, <4>1, AppendProperties
      <4>3. b \in Seq(Talk) /\ Len(b) = 2 /\ b[1] = one /\ b[2] = nothing
        BY <3>1
      <4> HIDE DEF a, b
      <4>4. a = b
        BY <4>2, <4>3, SeqEqual
      <4> QED
        BY <4>4 DEF a, b
    <3> QED
      BY <3>2, <3>3
  <2>3. out = <<one>> \/ out = <<one, nothing>>
    BY <1>1, <2>1, <2>2
  <2>4. y \o <<one>> = Append(y, one) /\ y \o <<one, nothing>> = Append(Append(y, one), nothing)
    BY <1>1
  <2> QED
    BY <2>3, <2>4
<1>3. Append(y, one) \in Seq(Talk)
  OBVIOUS
<1>4. \A s \in Seq(Talk), a \in Talk : FlattenSeq(Append(s, a)) = Join(FlattenSeq(s), a) /\ FlattenSeq(s) \in Talk
  BY FlattenAppend, FlattenType DEF Join, Talk
<1>5. FlattenSeq(Append(y, one)) = Join(FlattenSeq(y), one) /\ FlattenSeq(y) \in Talk
  BY <1>4
<1>6. FlattenSeq(Append(Append(y, one), nothing)) = Join(FlattenSeq(Append(y, one)), <<>>)
  BY <1>1, <1>3, <1>4
<1>7. Join(FlattenSeq(Append(y, one)), <<>>) = FlattenSeq(Append(y, one))
  BY <1>3, <1>4, JoinLaws
<1> QED
  BY <1>2, <1>5, <1>6, <1>7

LEMMA HostWhole ==
  ASSUME TypeOK, WholeNow,
         Terminate \/ (\E next \in Participants : Dispatch(next))
           \/ (\E next \in Participants \cup {None} : Decline(next))
  PROVE  WholeNow'
<1>1. Handles(Host, "token") /\ buf' = [buf EXCEPT ![Host] = <<>>] /\ said' = said
  BY DEF Terminate, Dispatch, Decline, HostRest
<1>2. buf'[Host] = <<>>
  <2>1. buf \in [Nodes -> Seq(Messages)]
    BY TypeParts DEF Fields
  <2> QED
    BY <1>1, <2>1, Names
<1>3. inbox'[Host] = inbox[Host]
  <2>1. inbox' = inbox \/ \E next \in Participants \cup {None} : Broadcast(buf[Host], next)
    BY DEF Terminate, Dispatch, Decline
  <2> QED
    BY <2>1, BroadcastHost
<1>4. MessagesOf(step'[Host]) = MessagesOf(step[Host])
  BY <1>1, Names, HandlesFirst
<1> DEFINE y == FlattenSeq(yielded)
           h == history
           b == buf[Host]
           c == MessagesOf(step[Host])
           i == MessagesOf(inbox[Host])
<1>5. yielded \in Seq(Talk) /\ y \in Talk /\ h \in Talk /\ b \in Talk /\ Join(h, b) \in Talk
  BY Sequences, JoinLaws
<1>6. Join(Join(Join(Join(y, h), b), c), i) = said
  BY DEF WholeNow, Whole
<1>7. /\ Join(Join(y, Join(h, b)), <<>>) = Join(Join(y, h), b)
      /\ Join(Join(Join(y, Join(h, b)), <<>>), <<>>) = Join(Join(y, h), b)
  <2> HIDE DEF y, h, b
  <2> QED
    BY <1>5, Taken
<1>8. CASE \E next \in Participants : Dispatch(next)
  <2>1. history' = Join(h, b) /\ yielded' = yielded
    BY <1>8 DEF Dispatch, Transcript, Join
  <2>2. Join(Join(Join(Join(y, Join(h, b)), <<>>), c), i) = said
    <3> HIDE DEF y, h, b, c, i
    <3> QED
      BY <1>6, <1>7
  <2> QED
    BY <1>1, <1>2, <1>3, <1>4, <2>1, <2>2 DEF WholeNow, Whole
<1>9. CASE Terminate \/ \E next \in Participants \cup {None} : Decline(next)
  <2> DEFINE one == Join(h, b)
  <2>1. history' = <<>> /\ FlattenSeq(yielded') = Join(y, one)
    <3>1. Transcript = one
      BY DEF Transcript, Join
    <3>2. PICK out \in {<<Transcript>>, <<Transcript>> \o <<>>, <<Transcript>> \o << <<>> >>} : Complete(out)
      BY <1>9 DEF Terminate, Decline
    <3>3. history' = <<>> /\ yielded' = yielded \o out
      BY <3>2 DEF Complete
    <3> HIDE DEF one
    <3>4. FlattenSeq(yielded \o out) = Join(FlattenSeq(yielded), one)
      BY <1>5, <3>1, <3>2, PutOut DEF one
    <3> QED
      BY <3>3, <3>4
  <2>2. Join(Join(Join(Join(Join(y, Join(h, b)), <<>>), <<>>), c), i) = said
    <3> HIDE DEF y, h, b, c, i
    <3> QED
      BY <1>6, <1>7
  <2> QED
    BY <1>1, <1>2, <1>3, <1>4, <2>1, <2>2 DEF WholeNow, Whole
<1> QED
  BY <1>8, <1>9

\* An agent's message is said and sent to the host, before the token if it is passed on.
LEMMA TakeWhole ==
  ASSUME TypeOK, WholeNow, NEW p \in Participants, TakeTurn(p) \/ TakeAnswer(p) PROVE WholeNow'
<1>1. p \in Nodes /\ p # Host /\ held[p] \in BOOLEAN
  BY TypeParts, Names DEF Fields
<1>2. PICK answers : \E holds \in BOOLEAN : RunAgent(p, answers, holds)
  BY <1>1 DEF TakeTurn, TakeAnswer
<1>2a. PICK holds \in BOOLEAN : RunAgent(p, answers, holds)
  BY <1>2
<1>3. /\ buf' = [buf EXCEPT ![p] = <<>>] /\ said' = Append(said, Message(p))
      /\ UNCHANGED <<yielded, history>>
  BY <1>2a DEF RunAgent, hostVars
<1>4. PICK release \in BOOLEAN :
        /\ release => holds
        /\ held'[p] = (holds /\ ~release) /\ \A q \in Participants \ {p} : held'[q] = held[q]
        /\ \A x \in Nodes \ {Host} : inbox'[x] = inbox[x]
        /\ inbox'[Host] = inbox[Host] \o <<Items(<<Message(p)>>)>> \o (IF release THEN <<Token>> ELSE <<>>)
        /\ UNCHANGED <<deliveries, speaker>>
  BY <1>2a, RunAgentEffect
<1>5. buf'[Host] = buf[Host] /\ step'[Host] = step[Host]
  <2>1. buf \in [Nodes -> Seq(Messages)] /\ step \in [Nodes -> Seq(ItemTypes)]
    BY TypeParts DEF Fields, Others, Queues
  <2>2. step' = [step EXCEPT ![p] = Tail(step[p])]
    BY DEF TakeTurn, TakeAnswer, Handles
  <2> QED
    BY <1>1, <1>3, <2>1, <2>2, Names
<1> DEFINE m == <<Message(p)>>
           e == Items(m)
           i == MessagesOf(inbox[Host])
           x == Join(Join(Join(FlattenSeq(yielded), history), buf[Host]), MessagesOf(step[Host]))
<1>6. m \in Talk /\ e \in ItemTypes /\ Message(p) \in Messages
  <2>1. Message(p) \in Messages
    BY TypeParts DEF Fields, Message, Messages
  <2>2. m \in Seq(Messages)
    BY <2>1
  <2> QED
    BY <2>1, <2>2, ItemsTyped DEF Talk
<1>7. said' = Join(said, m)
  <2>1. said \in Seq(Messages)
    BY Sequences DEF Talk
  <2> QED
    BY <1>3, <1>6, <2>1, AppendIsConcat DEF Join
<1>8. MessagesOf(inbox'[Host]) = Join(i, m)
  <2> DEFINE q == inbox[Host]
  <2>1. q \in Seq(ItemTypes) /\ Token \in ItemTypes
    BY Sequences, ItemsTyped
  <2>2. inbox'[Host] = q \o <<e>> \o (IF release THEN <<Token>> ELSE <<>>)
    BY <1>4
  <2>3. e.body = m /\ Token.body = <<>>
    BY DEF Items, Token
  <2> HIDE DEF q, e, m
  <2>4. q \o <<e>> = Append(q, e) /\ Append(q, e) \in Seq(ItemTypes)
    BY <1>6, <2>1, AppendIsConcat
  <2>5. MessagesOf(Append(q, e)) = Join(MessagesOf(q), m)
    BY <1>6, <2>1, <2>3, MessagesAppend DEF Join
  <2>6. MessagesOf(Append(q, e)) \in Talk
    BY <2>4, Bodies DEF Talk
  <2>7. CASE release
    <3>1. inbox'[Host] = Append(Append(q, e), Token)
      <4> DEFINE r == Append(q, e)
      <4>1. inbox'[Host] = r \o <<Token>> /\ r \in Seq(ItemTypes)
        BY <2>2, <2>4, <2>7
      <4> HIDE DEF r
      <4>2. r \o <<Token>> = Append(r, Token)
        BY <2>1, <4>1, AppendIsConcat
      <4> QED
        BY <4>1, <4>2 DEF r
    <3>2. MessagesOf(Append(Append(q, e), Token)) = Join(MessagesOf(Append(q, e)), <<>>)
      BY <2>1, <2>3, <2>4, MessagesAppend DEF Join
    <3> QED
      BY <2>5, <2>6, <3>1, <3>2, JoinLaws DEF q
  <2>8. CASE ~release
    <3>1. inbox'[Host] = Append(q, e) \o <<>>
      BY <2>2, <2>4, <2>8
    <3>2. Append(q, e) \o <<>> = Append(q, e)
      BY <2>4, ConcatEmptySeq
    <3> QED
      BY <2>5, <3>1, <3>2 DEF q
  <2> QED
    BY <2>7, <2>8
<1>9. x \in Talk /\ i \in Talk /\ Join(x, i) = said
  BY Sequences, JoinLaws DEF WholeNow, Whole
<1>10. Join(x, Join(i, m)) = said'
  <2> HIDE DEF x, i, m
  <2> QED
    BY <1>6, <1>7, <1>9, JoinLaws
<1> HIDE DEF m
<1> QED
  BY <1>3, <1>5, <1>8, <1>10 DEF WholeNow, Whole

LEMMA WholeStep == TypeOK /\ WholeInv /\ [Next]_vars => WholeInv'
<1> SUFFICES ASSUME TypeOK, WholeInv, [Next]_vars PROVE WholeInv'
  OBVIOUS
<1>1. WholeNow /\ WholeSaved /\ (running \/ step = Empty)
  BY DEF WholeInv
<1>2. WholeNow'
  <2>1. CASE Quiet \/ EndStep
    <3>1. UNCHANGED <<yielded, history, buf, step, inbox, said>>
      BY <2>1 DEF Quiet, Ask, Answer, AgentTurn, CloseRun, EndStep, vars, hostVars, partVars
    <3> QED
      BY <1>1, <3>1 DEF WholeNow
  <2>2. CASE Restore \/ AbortRun
    <3>1. /\ inbox' = saved.inbox /\ step' = Empty /\ history' = saved.history /\ buf' = saved.buf
          /\ yielded' = saved.yielded /\ said' = saved.said
      BY <2>2 DEF Restore, AbortRun, Rewind
    <3> QED
      BY <1>1, <3>1 DEF WholeNow, WholeSaved
  <2>3. CASE Deliver
    BY <1>1, <2>3, DeliverWhole
  <2>4. CASE BeginStep
    BY <1>1, <2>4, BeginWhole DEF BeginStep
  <2>5. CASE \E x \in Nodes : Accumulate(x)
    BY <1>1, <2>5, AccumulateWhole
  <2>6. CASE Terminate \/ (\E next \in Participants : Dispatch(next))
               \/ (\E next \in Participants \cup {None} : Decline(next))
    BY <1>1, <2>6, HostWhole
  <2>7. CASE \E p \in Participants : TakeTurn(p) \/ TakeAnswer(p)
    BY <1>1, <2>7, TakeWhole
  <2> QED
    BY <2>1, <2>2, <2>3, <2>4, <2>5, <2>6, <2>7 DEF Next, Step, Quiet
<1>3. WholeSaved'
  <2>1. CASE saved' = saved
    BY <1>1, <2>1 DEF WholeSaved
  <2>2. CASE EndStep /\ saved' = Snapshot
    <3>1. /\ saved'.inbox = inbox /\ saved'.history = history /\ saved'.buf = buf
          /\ saved'.yielded = yielded /\ saved'.said = said /\ step = Empty
      BY <2>2 DEF Snapshot, EndStep
    <3> QED
      BY <1>1, <3>1 DEF WholeNow, WholeSaved
  <2> QED
    BY <2>1, <2>2, SavedSteps
<1> QED
  BY <1>1, <1>2, <1>3, BetweenSteps DEF WholeInv

\* A transcript leaves nothing out and repeats nothing: what the chats have put out, what
\* the host keeps and what is on its way to it is what was said, in that order, over every
\* order of turns, messages, answers, completed chats, restores and aborted runs.
THEOREM NothingSaidIsLost == Spec => []TranscriptIsWhole
<1>1. Init => TypeOK /\ WholeInv
  BY TypeInit, WholeInit
<1>2. TypeOK /\ WholeInv /\ [Next]_vars => (TypeOK /\ WholeInv)'
  BY TypeStep, WholeStep
<1>3. WholeInv => TranscriptIsWhole
  BY DEF WholeInv, WholeNow, Whole, Join, TranscriptIsWhole
<1> QED
  BY <1>1, <1>2, <1>3, PTL DEF Spec

-----------------------------------------------------------------------------
(* Who said what is on its way to the host.                                *)

\* All messages of s are by k; all that a queue of items carries; it carries none; and
\* behind a token it carries none.
AllBy(s, k)  == \A i \in DOMAIN s : s[i].by = k
SaidBy(q, k) == \A i \in DOMAIN q : AllBy(q[i].body, k)
Silent(q)    == \A i \in DOMAIN q : q[i].body = <<>>
Behind(q)    == \A i, j \in DOMAIN q : q[i] = Token /\ i < j => q[j].body = <<>>

LEMMA AllByNone == ASSUME NEW k PROVE AllBy(<<>>, k)
  BY DEF AllBy

LEMMA AllByBoth ==
  ASSUME NEW s \in Talk, NEW k, NEW l, k # l, AllBy(s, k), AllBy(s, l) PROVE s = <<>>
<1>1. Len(s) \in Nat /\ DOMAIN s = 1 .. Len(s)
  BY DEF Talk
<1>2. Len(s) = 0
  <2> SUFFICES ASSUME Len(s) # 0 PROVE FALSE
    OBVIOUS
  <2>1. 1 \in DOMAIN s
    BY <1>1
  <2> QED
    BY <2>1 DEF AllBy
<1> QED
  BY <1>2, EmptySeq DEF Talk

LEMMA AllByJoin ==
  ASSUME NEW a \in Talk, NEW b \in Talk, NEW k, AllBy(a, k), AllBy(b, k) PROVE AllBy(Join(a, b), k)
<1> DEFINE c == a \o b
<1>1. /\ DOMAIN a = 1 .. Len(a) /\ Len(a) \in Nat /\ DOMAIN b = 1 .. Len(b) /\ Len(b) \in Nat
      /\ DOMAIN c = 1 .. Len(a) + Len(b)
      /\ \A i \in 1 .. Len(a) + Len(b) : c[i] = IF i <= Len(a) THEN a[i] ELSE b[i - Len(a)]
  BY DEF Talk
<1> HIDE DEF c
<1>2. ASSUME NEW i \in DOMAIN c PROVE c[i].by = k
  <2>1. CASE i <= Len(a)
    <3>1. i \in DOMAIN a /\ c[i] = a[i]
      BY <1>1, <2>1
    <3> QED
      BY <3>1 DEF AllBy
  <2>2. CASE i > Len(a)
    <3>1. i - Len(a) \in DOMAIN b /\ c[i] = b[i - Len(a)]
      BY <1>1, <2>2
    <3> QED
      BY <3>1 DEF AllBy
  <2> QED
    BY <1>1, <2>1, <2>2
<1> QED
  BY <1>2 DEF AllBy, Join, c

LEMMA SilentBy == ASSUME NEW q, NEW k, Silent(q) PROVE SaidBy(q, k)
  BY AllByNone DEF Silent, SaidBy

LEMMA QuietNone == ASSUME NEW k PROVE SaidBy(<<>>, k) /\ Silent(<<>>) /\ Behind(<<>>)
  BY DEF SaidBy, Silent, Behind

\* An item more at the end, and one less at the front.
LEMMA SaidAppend ==
  ASSUME NEW q \in Seq(ItemTypes), NEW e \in ItemTypes
  PROVE  /\ \A k : SaidBy(q, k) /\ AllBy(e.body, k) => SaidBy(Append(q, e), k)
         /\ Silent(q) /\ e.body = <<>> => Silent(Append(q, e))
         /\ Behind(q) /\ (Has(q, Token) => e.body = <<>>) => Behind(Append(q, e))
<1> DEFINE r == Append(q, e)
<1>1. /\ DOMAIN q = 1 .. Len(q) /\ Len(q) \in Nat
      /\ DOMAIN r = 1 .. Len(q) + 1
      /\ \A i \in 1 .. Len(q) : r[i] = q[i]
      /\ r[Len(q) + 1] = e
  OBVIOUS
<1> HIDE DEF r
<1>2. \A i \in DOMAIN r : (i \in DOMAIN q /\ r[i] = q[i]) \/ (i = Len(q) + 1 /\ r[i] = e)
  BY <1>1
<1>3. ASSUME NEW k, SaidBy(q, k), AllBy(e.body, k) PROVE SaidBy(r, k)
  BY <1>2, <1>3 DEF SaidBy
<1>4. ASSUME Silent(q), e.body = <<>> PROVE Silent(r)
  BY <1>2, <1>4 DEF Silent
<1>5. ASSUME Behind(q), Has(q, Token) => e.body = <<>> PROVE Behind(r)
  <2> SUFFICES ASSUME NEW i \in DOMAIN r, NEW j \in DOMAIN r, r[i] = Token, i < j PROVE r[j].body = <<>>
    BY DEF Behind
  <2>1. i \in DOMAIN q /\ r[i] = q[i]
    BY <1>1
  <2>2. CASE j \in DOMAIN q
    BY <1>2, <1>1, <1>5, <2>1, <2>2 DEF Behind
  <2>3. CASE j = Len(q) + 1
    BY <1>1, <1>5, <2>1, <2>3 DEF Has
  <2> QED
    BY <1>2, <2>2, <2>3
<1> QED
  BY <1>3, <1>4, <1>5 DEF r

LEMMA SaidTail ==
  ASSUME NEW q \in Seq(ItemTypes), q # <<>>
  PROVE  /\ \A k : SaidBy(q, k) => SaidBy(Tail(q), k) /\ AllBy(Head(q).body, k)
         /\ Silent(q) => Silent(Tail(q)) /\ Head(q).body = <<>>
         /\ Behind(q) => Behind(Tail(q)) /\ (Head(q) = Token => Silent(Tail(q)))
         /\ Has(Tail(q), Token) => Has(q, Token)
         /\ Head(q) = Token => Has(q, Token)
<1> DEFINE r == Tail(q)
<1>1. /\ DOMAIN q = 1 .. Len(q) /\ Len(q) \in Nat \ {0} /\ Head(q) = q[1]
      /\ DOMAIN r = 1 .. Len(q) - 1
      /\ \A i \in 1 .. Len(q) - 1 : r[i] = q[i + 1] /\ i + 1 \in DOMAIN q /\ 1 < i + 1
  OBVIOUS
<1> HIDE DEF r
<1>2. 1 \in DOMAIN q
  BY <1>1
<1>3. ASSUME NEW k, SaidBy(q, k) PROVE SaidBy(r, k) /\ AllBy(Head(q).body, k)
  BY <1>1, <1>2, <1>3 DEF SaidBy
<1>4. ASSUME Silent(q) PROVE Silent(r) /\ Head(q).body = <<>>
  BY <1>1, <1>2, <1>4 DEF Silent
<1>5. ASSUME Behind(q) PROVE Behind(r)
  <2> SUFFICES ASSUME NEW i \in DOMAIN r, NEW j \in DOMAIN r, r[i] = Token, i < j PROVE r[j].body = <<>>
    BY DEF Behind
  <2>1. /\ i + 1 \in DOMAIN q /\ j + 1 \in DOMAIN q /\ i + 1 < j + 1
        /\ r[i] = q[i + 1] /\ r[j] = q[j + 1]
    BY <1>1
  <2> QED
    BY <1>5, <2>1 DEF Behind
<1>6. ASSUME Behind(q), Head(q) = Token PROVE Silent(r)
  <2> SUFFICES ASSUME NEW i \in DOMAIN r PROVE r[i].body = <<>>
    BY DEF Silent
  <2>1. i + 1 \in DOMAIN q /\ 1 < i + 1 /\ r[i] = q[i + 1] /\ q[1] = Token
    BY <1>1, <1>6
  <2> QED
    BY <1>2, <1>6, <2>1 DEF Behind
<1>7. (Has(r, Token) => Has(q, Token)) /\ (Head(q) = Token => Has(q, Token))
  BY HasTail DEF r
<1> QED
  BY <1>3, <1>4, <1>5, <1>6, <1>7 DEF r

\* The items the caller has sent.
Posted(sent) == [i \in 1 .. Len(sent) |-> sent[i].item]

LEMMA PostedNone == Posted(<<>>) = <<>>
  BY DEF Posted

LEMMA PostedType ==
  ASSUME NEW sent \in Seq(Sent)
  PROVE  /\ Posted(sent) \in Seq(ItemTypes) /\ Len(Posted(sent)) = Len(sent)
         /\ \A i \in 1 .. Len(sent) : Posted(sent)[i] = sent[i].item
<1>1. Len(sent) \in Nat /\ \A i \in 1 .. Len(sent) : sent[i] \in Sent
  OBVIOUS
<1>2. \A d \in Sent : d.item \in ItemTypes
  BY DEF Sent
<1> QED
  BY <1>1, <1>2 DEF Posted

LEMMA PostedAppend ==
  ASSUME NEW sent \in Seq(Sent), NEW d \in Sent PROVE Posted(Append(sent, d)) = Append(Posted(sent), d.item)
<1> DEFINE s == Append(sent, d)
           r == Append(Posted(sent), d.item)
<1>1. d.item \in ItemTypes
  BY DEF Sent
<1>2. s \in Seq(Sent) /\ Len(s) = Len(sent) + 1 /\ s[Len(sent) + 1] = d /\ Len(sent) \in Nat
      /\ \A i \in 1 .. Len(sent) : s[i] = sent[i]
  BY AppendProperties
<1>3. /\ r \in Seq(ItemTypes) /\ Len(r) = Len(sent) + 1 /\ r[Len(sent) + 1] = d.item
      /\ \A i \in 1 .. Len(sent) : r[i] = sent[i].item
  BY <1>1, PostedType, AppendProperties
<1> HIDE DEF s, r
<1>4. Posted(s) \in Seq(ItemTypes) /\ Len(Posted(s)) = Len(s) /\ \A i \in 1 .. Len(s) : Posted(s)[i] = s[i].item
  BY <1>2, PostedType
<1>5. \A i \in 1 .. Len(s) : Posted(s)[i] = r[i]
  BY <1>2, <1>3, <1>4
<1>6. Posted(s) = r
  BY <1>2, <1>3, <1>4, <1>5, SeqEqual
<1> QED
  BY <1>6 DEF s, r

LEMMA PostedTail ==
  ASSUME NEW sent \in Seq(Sent), sent # <<>>
  PROVE  /\ Posted(sent) # <<>> /\ Head(Posted(sent)) = Head(sent).item
         /\ Tail(Posted(sent)) = Posted(Tail(sent))
<1> DEFINE t == Tail(sent)
           q == Posted(sent)
           u == Tail(q)
<1>1. /\ t \in Seq(Sent) /\ Len(t) = Len(sent) - 1 /\ \A i \in 1 .. Len(t) : t[i] = sent[i + 1]
      /\ Len(sent) \in Nat \ {0} /\ Head(sent) = sent[1]
  OBVIOUS
<1>2. q \in Seq(ItemTypes) /\ Len(q) = Len(sent) /\ \A i \in 1 .. Len(sent) : q[i] = sent[i].item
  BY PostedType
<1> HIDE DEF t, q
<1>3. q # <<>> /\ Head(q) = q[1] /\ u \in Seq(ItemTypes) /\ Len(u) = Len(q) - 1
      /\ \A i \in 1 .. Len(u) : u[i] = q[i + 1]
  BY <1>1, <1>2
<1> HIDE DEF u
<1>4. Posted(t) \in Seq(ItemTypes) /\ Len(Posted(t)) = Len(t) /\ \A i \in 1 .. Len(t) : Posted(t)[i] = t[i].item
  BY <1>1, PostedType
<1>5. \A i \in 1 .. Len(t) : Posted(t)[i] = u[i]
  <2> TAKE i \in 1 .. Len(t)
  <2>1. i + 1 \in 1 .. Len(sent) /\ i \in 1 .. Len(u)
    BY <1>1, <1>2, <1>3
  <2> QED
    BY <1>1, <1>2, <1>3, <1>4, <2>1
<1>6. Posted(t) = u
  BY <1>1, <1>2, <1>3, <1>4, <1>5, SeqEqual
<1>7. q[1] = sent[1].item
  BY <1>1, <1>2
<1> QED
  BY <1>1, <1>3, <1>6, <1>7 DEF t, q, u

\* What is left of one message, and of one more.
Left(p, m) == IF m.by = p THEN <<>> ELSE <<m>>

LEMMA LeftType == ASSUME NEW m \in Messages, NEW p PROVE Left(p, m) \in Talk
<1>1. <<>> \in Talk /\ <<m>> \in Talk
  BY DEF Talk
<1> QED
  BY <1>1 DEF Left

LEMMA NotByParts ==
  ASSUME NEW s \in Talk, NEW p
  PROVE  /\ [i \in 1 .. Len(s) |-> Left(p, s[i])] \in Seq(Talk)
         /\ NotBy(p, s) = FlattenSeq([i \in 1 .. Len(s) |-> Left(p, s[i])])
         /\ NotBy(p, s) \in Talk
<1> DEFINE f == [i \in 1 .. Len(s) |-> Left(p, s[i])]
<1>1. Len(s) \in Nat /\ \A i \in 1 .. Len(s) : s[i] \in Messages
  BY DEF Talk
<1>2. \A i \in 1 .. Len(s) : Left(p, s[i]) \in Talk
  BY <1>1, LeftType
<1>3. f \in Seq(Talk)
  BY <1>1, <1>2
<1>4. NotBy(p, s) = FlattenSeq(f)
  BY DEF NotBy, Left
<1> HIDE DEF f
<1>5. FlattenSeq(f) \in Talk
  BY <1>3, FlattenType DEF Talk
<1> QED
  BY <1>3, <1>4, <1>5 DEF f

LEMMA NotByAppend ==
  ASSUME NEW s \in Talk, NEW m \in Messages, NEW p
  PROVE  NotBy(p, Append(s, m)) = Join(NotBy(p, s), Left(p, m))
<1> DEFINE r == Append(s, m)
           f == [i \in 1 .. Len(s) |-> Left(p, s[i])]
           g == [i \in 1 .. Len(r) |-> Left(p, r[i])]
           b == Left(p, m)
           u == Append(f, b)
<1>1. /\ r \in Seq(Messages) /\ Len(r) = Len(s) + 1 /\ r[Len(s) + 1] = m /\ Len(s) \in Nat
      /\ \A i \in 1 .. Len(s) : r[i] = s[i]
  BY AppendProperties DEF Talk
<1> HIDE DEF r
<1>2. f \in Seq(Talk) /\ NotBy(p, s) = FlattenSeq(f) /\ b \in Talk
  BY NotByParts, LeftType
<1>3. g \in Seq(Talk) /\ NotBy(p, r) = FlattenSeq(g)
  BY <1>1, NotByParts DEF Talk
<1>4. Len(f) = Len(s) /\ \A i \in 1 .. Len(s) : f[i] = Left(p, s[i])
  BY <1>1
<1>5. Len(g) = Len(s) + 1 /\ (\A i \in 1 .. Len(s) : g[i] = Left(p, s[i])) /\ g[Len(s) + 1] = b
  <2>1. Len(g) = Len(s) + 1 /\ \A i \in 1 .. Len(s) + 1 : g[i] = Left(p, r[i])
    BY <1>1
  <2>2. \A i \in 1 .. Len(s) : i \in 1 .. Len(s) + 1
    BY <1>1
  <2>3. Len(s) + 1 \in 1 .. Len(s) + 1
    BY <1>1
  <2> HIDE DEF g
  <2> QED
    BY <1>1, <2>1, <2>2, <2>3
<1> HIDE DEF f, g, b
<1>6. u \in Seq(Talk) /\ Len(u) = Len(f) + 1 /\ u[Len(f) + 1] = b /\ \A i \in 1 .. Len(f) : u[i] = f[i]
  BY <1>2, AppendProperties
<1> HIDE DEF u
<1>7. \A i \in 1 .. Len(g) : g[i] = u[i]
  <2> TAKE i \in 1 .. Len(g)
  <2>1. i \in 1 .. Len(s) \/ i = Len(s) + 1
    BY <1>1, <1>5
  <2> QED
    BY <1>4, <1>5, <1>6, <2>1
<1>8. g = u
  BY <1>3, <1>4, <1>5, <1>6, <1>7, SeqEqual
<1>9. FlattenSeq(Append(f, b)) = Join(FlattenSeq(f), b)
  BY <1>2, FlattenAppend DEF Join, Talk
<1> QED
  BY <1>2, <1>3, <1>8, <1>9 DEF r, b, u

\* A sequence with something in it is one with something more at its end.
LEMMA LastOff ==
  ASSUME NEW S, NEW s \in Seq(S), s # <<>>
  PROVE  \E t \in Seq(S), m \in S : s = Append(t, m) /\ Len(s) = Len(t) + 1
<1> DEFINE t == [i \in 1 .. Len(s) - 1 |-> s[i]]
           m == s[Len(s)]
           u == Append(t, m)
<1>1. Len(s) \in Nat \ {0} /\ \A i \in 1 .. Len(s) : s[i] \in S
  BY EmptySeq
<1>2. t \in Seq(S) /\ m \in S /\ Len(t) = Len(s) - 1 /\ \A i \in 1 .. Len(s) - 1 : t[i] = s[i]
  BY <1>1
<1> HIDE DEF t
<1>3. u \in Seq(S) /\ Len(u) = Len(t) + 1 /\ u[Len(t) + 1] = m /\ \A i \in 1 .. Len(t) : u[i] = t[i]
  BY <1>2, AppendProperties
<1> HIDE DEF u
<1>4. \A i \in 1 .. Len(s) : s[i] = u[i]
  <2> TAKE i \in 1 .. Len(s)
  <2>1. i \in 1 .. Len(s) - 1 \/ i = Len(s)
    BY <1>1
  <2>2. CASE i = Len(s)
    BY <1>1, <1>2, <1>3, <2>2
  <2>3. CASE i \in 1 .. Len(s) - 1
    BY <1>1, <1>2, <1>3, <2>3
  <2> QED
    BY <2>1, <2>2, <2>3
<1>5. s = u
  BY <1>1, <1>2, <1>3, <1>4, SeqEqual
<1> QED
  BY <1>1, <1>2, <1>5 DEF u

LEMMA AllByAppend ==
  ASSUME NEW s \in Talk, NEW m \in Messages, NEW k, AllBy(Append(s, m), k) PROVE AllBy(s, k) /\ m.by = k
<1> DEFINE r == Append(s, m)
<1>1. /\ DOMAIN s = 1 .. Len(s) /\ Len(s) \in Nat /\ DOMAIN r = 1 .. Len(s) + 1
      /\ \A i \in 1 .. Len(s) : r[i] = s[i]
      /\ r[Len(s) + 1] = m
  BY DEF Talk
<1>2. AllBy(r, k)
  OBVIOUS
<1> HIDE DEF r
<1>3. Len(s) + 1 \in DOMAIN r /\ \A i \in DOMAIN s : i \in DOMAIN r /\ r[i] = s[i]
  BY <1>1
<1> QED
  BY <1>1, <1>2, <1>3 DEF AllBy

\* Of what one has said on top of s, the others are left all, and he himself nothing.
LEMMA NotByMore ==
  ASSUME NEW s \in Talk, NEW p, NEW k
  PROVE  \A new \in Talk :
           AllBy(new, k) => NotBy(p, Join(s, new)) = Join(NotBy(p, s), IF k = p THEN <<>> ELSE new)
<1> DEFINE Kept2(new) == IF k = p THEN <<>> ELSE new
           Right(new) == AllBy(new, k) => NotBy(p, Join(s, new)) = Join(NotBy(p, s), Kept2(new))
           T == {n \in Nat : \E new \in Talk : Len(new) = n /\ ~Right(new)}
<1>1. NotBy(p, s) \in Talk
  BY NotByParts
<1>2. T = {}
  <2> SUFFICES ASSUME T # {} PROVE FALSE
    OBVIOUS
  <2>1. PICK n \in T : \A i \in T : n <= i
    <3>1. T \subseteq Nat
      OBVIOUS
    <3> HIDE DEF T
    <3> QED
      BY <3>1, Least
  <2>2. PICK new \in Talk : Len(new) = n /\ ~Right(new)
    BY <2>1
  <2>3. AllBy(new, k)
    BY <2>2
  <2>4. CASE new = <<>>
    <3>1. Kept2(new) = <<>>
      BY <2>4
    <3>2. Join(s, new) = s /\ Join(NotBy(p, s), Kept2(new)) = NotBy(p, s)
      BY <1>1, <2>4, <3>1, JoinLaws
    <3> HIDE DEF Kept2
    <3> QED
      BY <2>2, <3>2
  <2>5. CASE new # <<>>
    <3>1. PICK t \in Talk, m \in Messages : new = Append(t, m) /\ Len(new) = Len(t) + 1
      BY <2>5, LastOff DEF Talk
    <3>2. AllBy(t, k) /\ m.by = k
      BY <2>3, <3>1, AllByAppend
    <3>3. Right(t)
      <4>1. Len(t) \in Nat /\ ~(n <= Len(t))
        BY <2>2, <3>1 DEF Talk
      <4> HIDE DEF Right
      <4> QED
        BY <2>1, <4>1
    <3>4. NotBy(p, Join(s, t)) = Join(NotBy(p, s), Kept2(t))
      BY <3>2, <3>3
    <3> DEFINE one == <<m>>
    <3>5. one \in Talk /\ \A a \in Talk : Append(a, m) = Join(a, one) /\ Join(a, one) \in Talk
      <4>1. one \in Talk
        BY DEF Talk
      <4>2. \A a \in Talk : Append(a, m) = Join(a, one)
        BY AppendIsConcat DEF Join, Talk
      <4> QED
        BY <4>1, <4>2, JoinLaws
    <3> HIDE DEF one
    <3>6. Join(s, t) \in Talk /\ Kept2(t) \in Talk
      BY JoinLaws
    <3>7. Join(s, new) = Append(Join(s, t), m)
      <4>1. Join(s, new) = Join(s, Join(t, one))
        BY <3>1, <3>5
      <4>2. Append(Join(s, t), m) = Join(Join(s, t), one)
        BY <3>5, <3>6
      <4> QED
        BY <3>5, <4>1, <4>2, JoinLaws
    <3>8. NotBy(p, Join(s, new)) = Join(NotBy(p, Join(s, t)), Left(p, m))
      BY <3>6, <3>7, NotByAppend
    <3>9. Join(Kept2(t), Left(p, m)) = Kept2(new)
      <4>1. CASE k = p
        BY <3>2, <4>1, JoinLaws DEF Left
      <4>2. CASE k # p
        BY <3>1, <3>2, <3>5, <4>2 DEF Left, one
      <4> QED
        BY <4>1, <4>2
    <3>10. Left(p, m) \in Talk
      BY LeftType
    <3> HIDE DEF Kept2
    <3>11. Join(Join(NotBy(p, s), Kept2(t)), Left(p, m)) = Join(NotBy(p, s), Join(Kept2(t), Left(p, m)))
      BY <1>1, <3>6, <3>10, JoinLaws
    <3> QED
      BY <2>2, <3>4, <3>8, <3>9, <3>11
  <2> QED
    BY <2>4, <2>5
<1>3. ASSUME NEW new \in Talk PROVE Right(new)
  <2>1. Len(new) \in Nat
    BY DEF Talk
  <2> HIDE DEF Right
  <2> QED
    BY <1>2, <2>1
<1> QED
  BY <1>3

\* All that is with the host or on its way to it (buffered, in the step, in its inbox,
\* sent by the caller) is by the speaker, or by the caller while there is none; and when
\* the token comes to the host nothing that was said is behind it.
Chair(b, st, ib, sent, k) ==
  /\ AllBy(b, k) /\ SaidBy(st, k) /\ SaidBy(ib, k) /\ SaidBy(sent, k) /\ SaidBy(sent, None)
  /\ Behind(st) /\ Behind(ib) /\ Behind(sent)
  /\ Has(st, Token) => Silent(ib)
  /\ Has(st, Token) \/ Has(ib, Token) => Silent(sent)

\* What each of the host's steps does to its queues keeps that so.
LEMMA ChairDelivers ==
  ASSUME NEW b, NEW st, NEW ib \in Seq(ItemTypes), NEW q \in Seq(ItemTypes), q # <<>>, NEW k,
         Chair(b, st, ib, q, k)
  PROVE  Chair(b, st, Append(ib, Head(q)), Tail(q), k) /\ Chair(b, st, ib, Tail(q), k)
<1> DEFINE e == Head(q)
           r == Tail(q)
           more == Append(ib, e)
<1>1. e \in ItemTypes
  OBVIOUS
<1>2. /\ SaidBy(r, k) /\ SaidBy(r, None) /\ AllBy(e.body, k) /\ Behind(r)
      /\ Silent(q) => Silent(r) /\ e.body = <<>>
      /\ e = Token => Silent(r)
  BY SaidTail DEF Chair
<1>3. /\ SaidBy(ib, k) => SaidBy(more, k)
      /\ Silent(ib) /\ e.body = <<>> => Silent(more)
      /\ Behind(ib) /\ (Has(ib, Token) => e.body = <<>>) => Behind(more)
      /\ Has(more, Token) <=> (Has(ib, Token) \/ e = Token)
  <2> HIDE DEF e
  <2> QED
    BY <1>1, <1>2, SaidAppend, HasAppend
<1> HIDE DEF e, r, more
<1>4. Chair(b, st, more, r, k)
  BY <1>2, <1>3 DEF Chair
<1>5. Chair(b, st, ib, r, k)
  BY <1>2 DEF Chair
<1> QED
  BY <1>4, <1>5 DEF e, r, more

LEMMA ChairBegins ==
  ASSUME NEW b, NEW ib, NEW q, NEW k, Chair(b, <<>>, ib, q, k) PROVE Chair(b, ib, <<>>, q, k)
  BY QuietNone, HasNothing DEF Chair

LEMMA ChairEnds ==
  ASSUME NEW b, NEW st, NEW ib, NEW q, NEW k, Chair(b, st, ib, q, k) PROVE Chair(b, <<>>, ib, <<>>, k)
  BY QuietNone, HasNothing DEF Chair

LEMMA ChairHears ==
  ASSUME NEW b \in Talk, NEW st \in Seq(ItemTypes), st # <<>>, NEW ib, NEW q, NEW k, Chair(b, st, ib, q, k)
  PROVE  Chair(Join(b, Head(st).body), Tail(st), ib, q, k)
<1>1. Head(st) \in ItemTypes
  OBVIOUS
<1>2. Head(st).body \in Talk
  BY <1>1, ItemParts DEF Talk
<1>3. /\ SaidBy(Tail(st), k) /\ AllBy(Head(st).body, k) /\ Behind(Tail(st))
      /\ Has(Tail(st), Token) => Has(st, Token)
  BY SaidTail DEF Chair
<1>4. AllBy(b, k)
  BY DEF Chair
<1>5. AllBy(Join(b, Head(st).body), k)
  BY <1>2, <1>3, <1>4, AllByJoin
<1> QED
  BY <1>3, <1>5 DEF Chair

LEMMA ChairTurns ==
  ASSUME NEW b, NEW st \in Seq(ItemTypes), st # <<>>, Head(st) = Token, NEW ib, NEW q, NEW k,
         Chair(b, st, ib, q, k), NEW l
  PROVE  Chair(<<>>, Tail(st), ib, q, l)
<1>1. Has(st, Token) /\ Silent(Tail(st)) /\ Behind(Tail(st))
  BY SaidTail DEF Chair
<1>2. Silent(ib) /\ Silent(q) /\ Behind(ib) /\ Behind(q)
  BY <1>1 DEF Chair
<1>3. SaidBy(Tail(st), l) /\ SaidBy(ib, l) /\ SaidBy(q, l) /\ SaidBy(q, None) /\ AllBy(<<>>, l)
  BY <1>1, <1>2, SilentBy, AllByNone
<1> QED
  BY <1>1, <1>2, <1>3 DEF Chair

LEMMA ChairAnswered ==
  ASSUME NEW b, NEW st, NEW ib, NEW q \in Seq(ItemTypes), NEW k, Chair(b, st, ib, q, k),
         NEW e \in ItemTypes, e.body = <<>>
  PROVE  Chair(b, st, ib, Append(q, e), k)
<1>1. AllBy(e.body, k) /\ AllBy(e.body, None)
  BY AllByNone
<1>2. /\ SaidBy(q, k) => SaidBy(Append(q, e), k)
      /\ SaidBy(q, None) => SaidBy(Append(q, e), None)
      /\ Silent(q) => Silent(Append(q, e))
      /\ Behind(q) => Behind(Append(q, e))
  BY <1>1, SaidAppend
<1> QED
  BY <1>2 DEF Chair

\* A participant is let on while no token is with the host: what the caller has sent
\* then carries no message, for the caller starts a chat only when there is no speaker.
LEMMA ChairSpoken ==
  ASSUME NEW b, NEW st, NEW ib \in Seq(ItemTypes), NEW q \in Seq(ItemTypes), NEW k, k # None,
         Chair(b, st, ib, q, k), ~Has(st, Token), ~Has(ib, Token),
         NEW e \in ItemTypes, AllBy(e.body, k), e # Token
  PROVE  Chair(b, st, Append(ib, e), q, k) /\ Chair(b, st, Append(Append(ib, e), Token), q, k)
<1> DEFINE r == Append(ib, e)
           t == Append(r, Token)
<1>1. Silent(q)
  <2> SUFFICES ASSUME NEW i \in DOMAIN q PROVE q[i].body = <<>>
    BY DEF Silent
  <2>1. q[i] \in ItemTypes
    OBVIOUS
  <2>2. q[i].body \in Talk
    BY <2>1, ItemParts DEF Talk
  <2>3. AllBy(q[i].body, k) /\ AllBy(q[i].body, None)
    BY DEF Chair, SaidBy
  <2> QED
    BY <2>2, <2>3, AllByBoth
<1>2. r \in Seq(ItemTypes) /\ Token \in ItemTypes /\ Token.body = <<>>
  BY ItemsTyped DEF Token
<1>3. SaidBy(r, k) /\ Behind(r) /\ ~Has(r, Token)
  BY SaidAppend, HasAppend DEF Chair
<1> HIDE DEF r
<1>4. SaidBy(t, k) /\ Behind(t)
  BY <1>2, <1>3, SaidAppend, AllByNone
<1> HIDE DEF t
<1>5. Chair(b, st, r, q, k)
  BY <1>1, <1>3 DEF Chair
<1>6. Chair(b, st, t, q, k)
  BY <1>1, <1>4 DEF Chair
<1> QED
  BY <1>5, <1>6 DEF r, t

LEMMA ChairAsked ==
  ASSUME NEW b, AllBy(b, None), NEW e \in ItemTypes, AllBy(e.body, None), e # Token
  PROVE  Chair(b, <<>>, <<>>, <<e, Token>>, None)
<1> DEFINE one == <<e>>
           two == Append(one, Token)
<1>1. one \in Seq(ItemTypes) /\ Token \in ItemTypes /\ Token.body = <<>>
  BY ItemsTyped DEF Token
<1>2. SaidBy(one, None) /\ Behind(one) /\ ~Has(one, Token)
  BY HasOne DEF SaidBy, Behind
<1>3. two = <<e, Token>>
  <2> DEFINE t == Token
             a == Append(one, t)
             c == <<e, t>>
  <2>1. t \in ItemTypes /\ Len(one) = 1 /\ one[1] = e
    BY <1>1
  <2> HIDE DEF t
  <2>2. a \in Seq(ItemTypes) /\ Len(a) = 2 /\ a[1] = e /\ a[2] = t
    BY <1>1, <2>1, AppendProperties
  <2>3. c \in Seq(ItemTypes) /\ Len(c) = 2 /\ c[1] = e /\ c[2] = t
    BY <2>1
  <2> HIDE DEF a, c
  <2>4. a = c
    BY <2>2, <2>3, SeqEqual
  <2> QED
    BY <2>4 DEF a, c, t
<1> HIDE DEF one
<1>4. SaidBy(two, None) /\ Behind(two)
  BY <1>1, <1>2, SaidAppend, AllByNone
<1> HIDE DEF two
<1>5. Chair(b, <<>>, <<>>, two, None)
  BY <1>4, QuietNone, HasNothing DEF Chair
<1> QED
  BY <1>3, <1>5

ChairNow   == Chair(buf[Host], step[Host], inbox[Host], Posted(deliveries), speaker)
ChairSaved == Chair(saved.buf[Host], <<>>, saved.inbox[Host], <<>>, saved.speaker)

LEMMA ChairInit == Init => ChairNow /\ ChairSaved
<1> SUFFICES ASSUME Init PROVE ChairNow /\ ChairSaved
  OBVIOUS
<1>1. /\ buf[Host] = <<>> /\ step[Host] = <<>> /\ inbox[Host] = <<>> /\ deliveries = <<>>
      /\ saved.buf = buf /\ saved.inbox = inbox
  BY Empties DEF Init, Snapshot
<1>2. \A k : Chair(<<>>, <<>>, <<>>, <<>>, k)
  BY QuietNone, HasNothing, AllByNone DEF Chair
<1> QED
  BY <1>1, <1>2, PostedNone DEF ChairNow, ChairSaved

LEMMA PostedNow == TypeOK => deliveries \in Seq(Sent) /\ Posted(deliveries) \in Seq(ItemTypes)
<1> SUFFICES ASSUME TypeOK PROVE deliveries \in Seq(Sent) /\ Posted(deliveries) \in Seq(ItemTypes)
  OBVIOUS
<1>1. deliveries \in Seq(Sent)
  BY TypeParts DEF Others, Sent
<1> QED
  BY <1>1, PostedType

\* What Deliver moves, and where to.
LEMMA Delivers ==
  ASSUME TypeOK, Deliver
  PROVE  \E e \in ItemTypes, o \in Nodes :
           /\ Posted(deliveries) # <<>> /\ Posted(deliveries') = Tail(Posted(deliveries))
           /\ e = Head(Posted(deliveries))
           /\ inbox'[o] = Append(inbox[o], e) /\ \A y \in Nodes \ {o} : inbox'[y] = inbox[y]
           /\ o # Host => e.body = <<>>
           /\ UNCHANGED <<step, buf, heard, speaker, aired>>
<1> DEFINE d == Head(deliveries)
           o == IF d.item.req = None THEN d.to ELSE owner[d.item.req]
           e == d.item
<1>1. deliveries \in Seq(Sent) /\ deliveries # <<>> /\ Fields
  BY TypeParts DEF Others, Sent, Deliver
<1>2. d \in Sent
  BY <1>1
<1>3. e \in ItemTypes /\ d.to = Host
  BY <1>2 DEF Sent
<1>4. o \in Nodes /\ (o # Host => e.req # None)
  BY <1>1, <1>3, ItemParts, Names DEF Fields, Deliver
<1>5. inbox' = [inbox EXCEPT ![o] = Append(inbox[o], e)] /\ inbox \in [Nodes -> Seq(ItemTypes)]
  BY <1>1 DEF Deliver, Fields, Queues
<1>6. UNCHANGED <<step, buf, heard, speaker, aired>> /\ deliveries' = Tail(deliveries)
  BY DEF Deliver, hostVars, partVars
<1>7. e.req # None => e.body = <<>>
  <2>1. e.req # None => e = Response(e.req)
    BY <1>3, AnswerParts
  <2> QED
    BY <2>1 DEF Response
<1>8. Posted(deliveries) # <<>> /\ Head(Posted(deliveries)) = e /\ Tail(Posted(deliveries)) = Posted(deliveries')
  BY <1>1, <1>6, PostedTail
<1>9. inbox'[o] = Append(inbox[o], e) /\ \A y \in Nodes \ {o} : inbox'[y] = inbox[y]
  <2> HIDE DEF e, o
  <2> QED
    BY <1>4, <1>5
<1>10. o # Host => e.body = <<>>
  BY <1>4, <1>7
<1> HIDE DEF e, o
<1> QED
  BY <1>3, <1>4, <1>6, <1>8, <1>9, <1>10

LEMMA DeliverChair == TypeOK /\ ChairNow /\ Deliver => ChairNow'
<1> SUFFICES ASSUME TypeOK, ChairNow, Deliver PROVE ChairNow'
  OBVIOUS
<1>1. PICK e \in ItemTypes, o \in Nodes :
           /\ Posted(deliveries) # <<>> /\ Posted(deliveries') = Tail(Posted(deliveries))
           /\ e = Head(Posted(deliveries))
           /\ inbox'[o] = Append(inbox[o], e) /\ \A y \in Nodes \ {o} : inbox'[y] = inbox[y]
           /\ o # Host => e.body = <<>>
           /\ UNCHANGED <<step, buf, heard, speaker, aired>>
  BY Delivers
<1> DEFINE q == Posted(deliveries)
           ib == inbox[Host]
<1>2. q \in Seq(ItemTypes) /\ q # <<>> /\ ib \in Seq(ItemTypes)
  BY <1>1, PostedNow, Sequences
<1>3. Chair(buf[Host], step[Host], ib, q, speaker)
  BY DEF ChairNow
<1> HIDE DEF q, ib
<1>4. /\ Chair(buf[Host], step[Host], Append(ib, Head(q)), Tail(q), speaker)
      /\ Chair(buf[Host], step[Host], ib, Tail(q), speaker)
  BY <1>2, <1>3, ChairDelivers
<1>5. inbox'[Host] = Append(ib, Head(q)) \/ inbox'[Host] = ib
  BY <1>1, Names DEF q, ib
<1> QED
  BY <1>1, <1>4, <1>5 DEF ChairNow, q

LEMMA BeginChair == ChairNow /\ step = Empty /\ BeginStep => ChairNow'
<1> SUFFICES ASSUME ChairNow, step = Empty, BeginStep PROVE ChairNow'
  OBVIOUS
<1>1. step'[Host] = inbox[Host] /\ inbox'[Host] = <<>> /\ UNCHANGED <<buf, deliveries, speaker>>
  BY Empties DEF BeginStep, hostVars
<1>2. Chair(buf[Host], <<>>, inbox[Host], Posted(deliveries), speaker)
  BY Empties DEF ChairNow
<1>3. Chair(buf[Host], inbox[Host], <<>>, Posted(deliveries), speaker)
  BY <1>2, ChairBegins
<1> QED
  BY <1>1, <1>3 DEF ChairNow

LEMMA AccumulateChair == ASSUME TypeOK, ChairNow, NEW x \in Nodes, Accumulate(x) PROVE ChairNow'
<1>1. /\ Handles(x, "messages") /\ buf' = [buf EXCEPT ![x] = Join(buf[x], Head(step[x]).body)]
      /\ UNCHANGED <<inbox, deliveries, speaker>>
  BY DEF Accumulate, hostVars, Join
<1>2. buf \in [Nodes -> Seq(Messages)]
  BY TypeParts DEF Fields
<1>3. CASE x # Host
  <2>1. buf'[Host] = buf[Host] /\ step'[Host] = step[Host]
    BY <1>1, <1>2, <1>3, Names, HandlesFirst
  <2> QED
    BY <1>1, <2>1 DEF ChairNow
<1>4. CASE x = Host
  <2>1. buf'[Host] = Join(buf[Host], Head(step[Host]).body)
    BY <1>1, <1>2, <1>4, Names
  <2>2. step[Host] \in Seq(ItemTypes) /\ step[Host] # <<>> /\ step'[Host] = Tail(step[Host]) /\ buf[Host] \in Talk
    BY <1>1, <1>4, Names, HandlesFirst, Sequences
  <2>3. Chair(Join(buf[Host], Head(step[Host]).body), Tail(step[Host]), inbox[Host], Posted(deliveries), speaker)
    BY <2>2, ChairHears DEF ChairNow
  <2> QED
    BY <1>1, <2>1, <2>2, <2>3 DEF ChairNow
<1> QED
  BY <1>3, <1>4

\* The host's turn.
HostActs ==
  \/ Terminate \/ \E next \in Participants : Dispatch(next)
  \/ \E next \in Participants \cup {None} : Decline(next)

LEMMA HostChair == ASSUME TypeOK, ChairNow, HostActs PROVE ChairNow'
<1>1. Handles(Host, "token") /\ buf' = [buf EXCEPT ![Host] = <<>>] /\ deliveries' = deliveries
  BY DEF HostActs, Terminate, Dispatch, Decline, HostRest
<1>2. buf'[Host] = <<>>
  <2>1. buf \in [Nodes -> Seq(Messages)]
    BY TypeParts DEF Fields
  <2> QED
    BY <1>1, <2>1, Names
<1>3. inbox'[Host] = inbox[Host]
  <2>1. inbox' = inbox \/ \E next \in Participants \cup {None} : Broadcast(buf[Host], next)
    BY DEF HostActs, Terminate, Dispatch, Decline
  <2> QED
    BY <2>1, BroadcastHost
<1>4. /\ step[Host] \in Seq(ItemTypes) /\ step[Host] # <<>> /\ step'[Host] = Tail(step[Host])
      /\ Head(step[Host]) = Token
  BY <1>1, Names, HandlesFirst
<1>5. \A l : Chair(<<>>, Tail(step[Host]), inbox[Host], Posted(deliveries), l)
  BY <1>4, ChairTurns DEF ChairNow
<1> QED
  BY <1>1, <1>2, <1>3, <1>4, <1>5 DEF ChairNow

\* Who is let on has the one token, so there is none with the host.
LEMMA RunsAlone ==
  ASSUME TypeOK, NowOne, AliveNow, NEW p \in Participants, TakeTurn(p) \/ TakeAnswer(p)
  PROVE  /\ ~Has(inbox[Host], Token) /\ ~Has(step[Host], Token)
         /\ speaker = p
<1>1. p \in Nodes /\ p # Host /\ Host \in Nodes
  BY Names
<1>2. CASE TakeTurn(p)
  <2>1. Handles(p, "token")
    BY <1>2 DEF TakeTurn
  <2>2. ~Has(inbox[Host], Token) /\ ~Has(step'[Host], Token) /\ speaker = p
    BY <1>1, <2>1, TokenHandled
  <2>3. step'[Host] = step[Host]
    BY <1>1, <2>1, HandlesFirst
  <2> QED
    BY <2>2, <2>3
<1>3. CASE TakeAnswer(p)
  <2>1. held[p]
    BY <1>3 DEF TakeAnswer, AliveNow, Alive
  <2>2. At(<<"held", p>>, deliveries, inbox, step, held) /\ <<"held", p>> \in Places
    BY <1>1, <2>1 DEF At, Places
  <2>3. \A t \in Places : At(t, deliveries, inbox, step, held) => t = <<"held", p>>
    BY <2>2 DEF NowOne, One
  <2>4. <<"inbox", Host>> \in Places /\ <<"step", Host>> \in Places
    BY <1>1 DEF Places
  <2>5. <<"inbox", Host>> # <<"held", p>> /\ <<"step", Host>> # <<"held", p>>
    OBVIOUS
  <2>6. speaker = p
    BY <2>2 DEF NowOne, One, Of
  <2> QED
    BY <1>1, <2>3, <2>4, <2>5, <2>6, AtEach
<1> QED
  BY <1>2, <1>3

LEMMA TakeChair ==
  ASSUME TypeOK, NowOne, AliveNow, ChairNow, NEW p \in Participants, TakeTurn(p) \/ TakeAnswer(p)
  PROVE  ChairNow'
<1>1. p \in Nodes /\ p # Host /\ p # None /\ held[p] \in BOOLEAN
  BY TypeParts, Names DEF Fields
<1>2. PICK answers : \E holds \in BOOLEAN : RunAgent(p, answers, holds)
  BY <1>1 DEF TakeTurn, TakeAnswer
<1>3. PICK holds \in BOOLEAN : RunAgent(p, answers, holds)
  BY <1>2
<1>4. PICK release \in BOOLEAN :
        /\ release => holds
        /\ held'[p] = (holds /\ ~release) /\ \A q \in Participants \ {p} : held'[q] = held[q]
        /\ \A x \in Nodes \ {Host} : inbox'[x] = inbox[x]
        /\ inbox'[Host] = inbox[Host] \o <<Items(<<Message(p)>>)>> \o (IF release THEN <<Token>> ELSE <<>>)
        /\ UNCHANGED <<deliveries, speaker>>
  BY <1>3, RunAgentEffect
<1>5. buf'[Host] = buf[Host] /\ step'[Host] = step[Host]
  <2>1. buf \in [Nodes -> Seq(Messages)] /\ buf' = [buf EXCEPT ![p] = <<>>]
    BY <1>3, TypeParts DEF Fields, RunAgent
  <2>2. Handles(p, "token") \/ Handles(p, "response")
    BY DEF TakeTurn, TakeAnswer
  <2> QED
    BY <1>1, <2>1, <2>2, Names, HandlesFirst
<1> DEFINE m == <<Message(p)>>
           e == Items(m)
           ib == inbox[Host]
           q == Posted(deliveries)
<1>6. e \in ItemTypes /\ AllBy(e.body, p) /\ e # Token
  <2>1. Message(p) \in Messages
    BY TypeParts DEF Fields, Message, Messages
  <2>2. m \in Seq(Messages)
    BY <2>1
  <2>3. AllBy(m, p)
    BY DEF AllBy, Message
  <2>4. e.body = m /\ e # Token
    BY DEF Items, Token
  <2> QED
    BY <2>2, <2>3, <2>4, ItemsTyped
<1>7. ib \in Seq(ItemTypes) /\ q \in Seq(ItemTypes) /\ Token \in ItemTypes
  BY PostedNow, Sequences, ItemsTyped
<1>8. ~Has(ib, Token) /\ ~Has(step[Host], Token) /\ speaker = p
  BY RunsAlone
<1>9. Chair(buf[Host], step[Host], ib, q, p)
  BY <1>8 DEF ChairNow
<1>10. inbox'[Host] = Append(ib, e) \/ inbox'[Host] = Append(Append(ib, e), Token)
  <2>1. inbox'[Host] = ib \o <<e>> \o (IF release THEN <<Token>> ELSE <<>>)
    BY <1>4
  <2> DEFINE t == Token
  <2>2. t \in ItemTypes
    BY <1>7
  <2> HIDE DEF e, ib, t
  <2>3. ib \o <<e>> = Append(ib, e) /\ Append(ib, e) \in Seq(ItemTypes)
    BY <1>6, <1>7, AppendIsConcat
  <2> DEFINE r == Append(ib, e)
  <2>4. inbox'[Host] = r \o (IF release THEN <<t>> ELSE <<>>) /\ r \in Seq(ItemTypes)
    BY <2>1, <2>3 DEF t
  <2> HIDE DEF r
  <2>5. r \o <<t>> = Append(r, t) /\ r \o <<>> = r
    BY <2>2, <2>4, AppendIsConcat, ConcatEmptySeq
  <2> QED
    BY <2>4, <2>5 DEF r, t
<1> HIDE DEF e, ib, q
<1>11. Chair(buf[Host], step[Host], Append(ib, e), q, p) /\ Chair(buf[Host], step[Host], Append(Append(ib, e), Token), q, p)
  BY <1>1, <1>6, <1>7, <1>8, <1>9, ChairSpoken
<1> QED
  BY <1>4, <1>5, <1>8, <1>10, <1>11 DEF ChairNow, q

LEMMA AnswerChair == ASSUME TypeOK, ChairNow, NEW r \in Requests, Answer(r) PROVE ChairNow'
<1>1. UNCHANGED <<buf, inbox, step, speaker>> /\ deliveries' = Append(deliveries, ToHost(Response(r)))
  BY DEF Answer, hostVars
<1>2. ToHost(Response(r)) \in Sent /\ Response(r) \in ItemTypes /\ Response(r).body = <<>>
      /\ ToHost(Response(r)).item = Response(r)
  BY TypeParts, SentTypes, ItemsTyped DEF Response, ToHost
<1> DEFINE e == Response(r)
           q == Posted(deliveries)
<1>3. Posted(deliveries') = Append(q, e) /\ q \in Seq(ItemTypes)
  BY <1>1, <1>2, PostedNow, PostedAppend
<1> HIDE DEF q, e
<1>4. Chair(buf[Host], step[Host], inbox[Host], Append(q, e), speaker)
  BY <1>2, <1>3, ChairAnswered DEF ChairNow, q, e
<1> QED
  BY <1>1, <1>3, <1>4 DEF ChairNow

\* A chat is started when the host remembers no speaker.
LEMMA AskChair == TypeOK /\ AliveNow /\ ChairNow /\ Ask => ChairNow'
<1> SUFFICES ASSUME TypeOK, AliveNow, ChairNow, Ask PROVE ChairNow'
  OBVIOUS
<1>1. UNCHANGED <<buf, inbox, step, speaker>> /\ deliveries' = <<Input, ToHost(Token)>>
  BY DEF Ask, hostVars
<1>2. \A x \in Nodes : Range(inbox[x]) = {} /\ Range(step[x]) = {}
  <2> SUFFICES ASSUME NEW x \in Nodes PROVE Range(inbox[x]) \cup Range(step[x]) = {}
    OBVIOUS
  <2>1. Range(inbox[x]) \cup Range(step[x]) \subseteq
          UNION {Range(inbox[y]) \cup Range(step[y]) : y \in Nodes}
    OBVIOUS
  <2>2. InFlight = {}
    BY DEF Ask, ChatOver, Idle
  <2> QED
    BY <2>1, <2>2 DEF InFlight
<1>3. inbox[Host] = <<>> /\ step[Host] = <<>>
  <2>1. \A q \in Seq(ItemTypes) : Range(q) = {} => q = <<>>
    <3> SUFFICES ASSUME NEW q \in Seq(ItemTypes), Range(q) = {} PROVE q = <<>>
      OBVIOUS
    <3>1. DOMAIN q = 1 .. Len(q) /\ Len(q) \in Nat
      OBVIOUS
    <3>2. DOMAIN q = {}
      BY DEF Range
    <3> QED
      BY <3>1, <3>2
  <2> QED
    BY <1>2, <2>1, Sequences, Names
<1>4. speaker = None
  <2>1. \A x \in Nodes : ~Has(inbox[x], Token) /\ ~Has(step[x], Token)
    BY <1>2 DEF Has, Range
  <2>2. \A p \in Participants : ~held[p]
    BY DEF Ask, ChatOver
  <2> QED
    BY <2>1, <2>2 DEF AliveNow, Alive
<1> DEFINE m == [by |-> None, n |-> inputs + 1]
           e == Items(<<m>>)
<1>5. e \in ItemTypes /\ AllBy(e.body, None) /\ e # Token
  <2>1. m \in Messages
    BY TypeParts DEF Others, Messages
  <2>2. <<m>> \in Seq(Messages)
    BY <2>1
  <2>3. AllBy(<<m>>, None)
    BY DEF AllBy
  <2> HIDE DEF m
  <2>4. e.body = <<m>> /\ e # Token
    BY DEF Items, Token
  <2> QED
    BY <2>2, <2>3, <2>4, ItemsTyped
<1>6. Posted(deliveries') = <<e, Token>>
  <2> DEFINE s == <<Input, ToHost(Token)>>
             i == e
             t == Token
  <2>1. Len(s) = 2 /\ s[1] = ToHost(i) /\ s[2] = ToHost(t)
    BY DEF Input
  <2>2. ToHost(i).item = i /\ ToHost(t).item = t
    BY DEF ToHost
  <2> HIDE DEF s, i, t
  <2>3. Posted(s) = [j \in 1 .. 2 |-> IF j = 1 THEN i ELSE t]
    BY <2>1, <2>2 DEF Posted
  <2>4. [j \in 1 .. 2 |-> IF j = 1 THEN i ELSE t] = <<i, t>>
    OBVIOUS
  <2> QED
    BY <1>1, <2>3, <2>4 DEF s, i, t
<1>7. AllBy(buf[Host], None)
  BY <1>4 DEF ChairNow, Chair
<1> HIDE DEF e
<1>8. Chair(buf[Host], <<>>, <<>>, <<e, Token>>, None)
  BY <1>5, <1>7, ChairAsked
<1> QED
  BY <1>1, <1>3, <1>4, <1>6, <1>8 DEF ChairNow

\* What p heard, has buffered, and has yet to get is what the others and the caller said.
Heard(h, b, st, ib, p, a) ==
  Join(Join(Join(h, b), MessagesOf(st)), MessagesOf(ib)) = NotBy(p, a)

HeardNow(p)   == Heard(heard[p], buf[p], step[p], inbox[p], p, aired)
HeardSaved(p) == Heard(saved.heard[p], saved.buf[p], <<>>, saved.inbox[p], p, saved.aired)

HeardInv ==
  /\ running \/ step = Empty
  /\ ~hosted => /\ ChairNow /\ ChairSaved
                /\ \A p \in Participants : HeardNow(p) /\ HeardSaved(p)

LEMMA Hearing ==
  ASSUME TypeOK, NEW p \in Participants
  PROVE  /\ heard[p] \in Talk /\ buf[p] \in Talk /\ aired \in Talk
         /\ step[p] \in Seq(ItemTypes) /\ inbox[p] \in Seq(ItemTypes)
         /\ MessagesOf(step[p]) \in Talk /\ MessagesOf(inbox[p]) \in Talk
<1>1. Fields /\ step \in Queues /\ p \in Nodes
  BY TypeParts, Names DEF Others
<1>2. step[p] \in Seq(ItemTypes) /\ inbox[p] \in Seq(ItemTypes)
  BY <1>1 DEF Fields, Queues
<1>3. MessagesOf(step[p]) \in Talk /\ MessagesOf(inbox[p]) \in Talk
  BY <1>2, Bodies DEF Talk
<1> QED
  BY <1>1, <1>2, <1>3 DEF Fields, Talk

LEMMA HeardInit == Init => \A p \in Participants : HeardNow(p) /\ HeardSaved(p)
<1> SUFFICES ASSUME Init, NEW p \in Participants PROVE HeardNow(p) /\ HeardSaved(p)
  OBVIOUS
<1>1. /\ heard[p] = <<>> /\ buf[p] = <<>> /\ step[p] = <<>> /\ inbox[p] = <<>> /\ aired = <<>>
      /\ saved.heard = heard /\ saved.buf = buf /\ saved.inbox = inbox /\ saved.aired = aired
  BY Names DEF Init, Snapshot, Empty
<1>2. NotBy(p, <<>>) = <<>>
  <2>1. [i \in 1 .. Len(<<>>) |-> IF <<>>[i].by = p THEN <<>> ELSE << <<>>[i] >>] = <<>>
    OBVIOUS
  <2> QED
    BY <2>1, FlattenNone DEF NotBy
<1>3. Heard(<<>>, <<>>, <<>>, <<>>, p, <<>>)
  BY <1>2, JoinLaws, MessagesNone DEF Heard
<1> QED
  BY <1>1, <1>3 DEF HeardNow, HeardSaved

LEMMA DeliverHeard ==
  ASSUME TypeOK, NEW p \in Participants, HeardNow(p), Deliver PROVE HeardNow(p)'
<1>1. PICK e \in ItemTypes, o \in Nodes :
           /\ Posted(deliveries) # <<>> /\ Posted(deliveries') = Tail(Posted(deliveries))
           /\ e = Head(Posted(deliveries))
           /\ inbox'[o] = Append(inbox[o], e) /\ \A y \in Nodes \ {o} : inbox'[y] = inbox[y]
           /\ o # Host => e.body = <<>>
           /\ UNCHANGED <<step, buf, heard, speaker, aired>>
  BY Delivers
<1>2. p \in Nodes /\ p # Host
  BY Names
<1>3. MessagesOf(inbox'[p]) = MessagesOf(inbox[p])
  <2>1. CASE o = p
    <3>1. inbox[p] \in Seq(ItemTypes) /\ MessagesOf(inbox[p]) \in Talk
      BY Hearing
    <3>2. MessagesOf(Append(inbox[p], e)) = Join(MessagesOf(inbox[p]), <<>>)
      BY <1>1, <1>2, <2>1, <3>1, MessagesAppend DEF Join
    <3> QED
      BY <1>1, <2>1, <3>1, <3>2, JoinLaws
  <2> QED
    BY <1>1, <1>2, <2>1
<1> QED
  BY <1>1, <1>3 DEF HeardNow, Heard

LEMMA BeginHeard ==
  ASSUME TypeOK, NEW p \in Participants, HeardNow(p), step = Empty, BeginStep PROVE HeardNow(p)'
<1>1. step[p] = <<>> /\ step'[p] = inbox[p] /\ inbox'[p] = <<>> /\ UNCHANGED <<heard, buf, aired>>
  BY Names DEF BeginStep, Empty, hostVars, partVars
<1> DEFINE x == Join(heard[p], buf[p])
           i == MessagesOf(inbox[p])
<1>2. x \in Talk /\ i \in Talk /\ Join(x, i) \in Talk
  BY Hearing, JoinLaws
<1>3. Join(Join(x, <<>>), i) = Join(Join(x, i), <<>>)
  <2> HIDE DEF x, i
  <2> QED
    BY <1>2, JoinLaws
<1> QED
  BY <1>1, <1>3, MessagesNone DEF HeardNow, Heard

LEMMA AccumulateHeard ==
  ASSUME TypeOK, NEW p \in Participants, HeardNow(p), NEW x \in Nodes, Accumulate(x) PROVE HeardNow(p)'
<1>1. /\ Handles(x, "messages") /\ buf' = [buf EXCEPT ![x] = Join(buf[x], Head(step[x]).body)]
      /\ UNCHANGED <<heard, inbox, aired>> /\ p \in Nodes
  BY Names DEF Accumulate, hostVars, partVars, Join
<1>2. buf \in [Nodes -> Seq(Messages)]
  BY TypeParts DEF Fields
<1>3. CASE x # p
  <2>1. buf'[p] = buf[p] /\ step'[p] = step[p]
    BY <1>1, <1>2, <1>3, HandlesFirst
  <2> QED
    BY <1>1, <2>1 DEF HeardNow, Heard
<1>4. CASE x = p
  <2> DEFINE y == heard[p]
             b == buf[p]
             m == Head(step[p]).body
             c == MessagesOf(step'[p])
  <2>1. buf'[p] = Join(b, m)
    BY <1>1, <1>2, <1>4
  <2>2. m \in Talk /\ c \in Talk /\ MessagesOf(step[p]) = Join(m, c)
    BY <1>1, <1>4, HandlesFirst
  <2>3. y \in Talk /\ b \in Talk
    BY Hearing
  <2>4. Join(Join(y, b), Join(m, c)) = Join(Join(y, Join(b, m)), c)
    <3> HIDE DEF y, b, m, c
    <3> QED
      BY <2>2, <2>3, Handled
  <2>5. Join(Join(Join(y, b), Join(m, c)), MessagesOf(inbox[p])) = NotBy(p, aired)
    BY <2>2 DEF HeardNow, Heard
  <2>6. Join(Join(Join(y, Join(b, m)), c), MessagesOf(inbox[p])) = NotBy(p, aired)
    <3> HIDE DEF y, b, m, c
    <3> QED
      BY <2>4, <2>5
  <2> QED
    BY <1>1, <2>1, <2>6 DEF HeardNow, Heard
<1> QED
  BY <1>3, <1>4

\* A broadcast goes to everyone but who spoke last.
LEMMA BroadcastHeard ==
  ASSUME TypeOK, NEW p \in Participants, NEW new \in Talk, NEW next, Broadcast(new, next)
  PROVE  MessagesOf(inbox'[p]) = Join(MessagesOf(inbox[p]), IF speaker = p THEN <<>> ELSE new)
<1> DEFINE news == IF new # <<>> /\ speaker # p THEN <<Items(new)>> ELSE <<>>
           turn == IF p = next THEN <<Token>> ELSE <<>>
           q == inbox[p]
           i == Items(new)
           t == Token
           said2 == IF speaker = p THEN <<>> ELSE new
<1>1. inbox'[p] = q \o news \o turn
  <2>1. p \in Nodes /\ (p \in Audience(next) <=> speaker # p)
    BY Names DEF Audience
  <2> QED
    BY <2>1 DEF Broadcast
<1>2. q \in Seq(ItemTypes) /\ MessagesOf(q) \in Talk
  BY Hearing
<1>3. i \in ItemTypes /\ i.body = new /\ t \in ItemTypes /\ t.body = <<>>
  <2>1. i \in ItemTypes /\ t \in ItemTypes
    BY ItemsTyped DEF Talk
  <2> QED
    BY <2>1 DEF Items, Token
<1>4. /\ news = <<i>> \/ news = <<>>
      /\ turn = <<t>> \/ turn = <<>>
      /\ news = <<i>> => said2 = new
      /\ news = <<>> => said2 = <<>>
  OBVIOUS
<1>5. said2 \in Talk
  BY JoinLaws
<1> HIDE DEF news, turn, q, i, t, said2
<1> DEFINE r == q \o news
<1>6. r \in Seq(ItemTypes) /\ MessagesOf(r) = Join(MessagesOf(q), said2) /\ MessagesOf(r) \in Talk
  <2>1. CASE news = <<i>>
    <3>1. r = Append(q, i) /\ Append(q, i) \in Seq(ItemTypes)
      BY <1>2, <1>3, <2>1, AppendIsConcat
    <3>2. MessagesOf(Append(q, i)) = Join(MessagesOf(q), new)
      BY <1>2, <1>3, MessagesAppend DEF Join
    <3> HIDE DEF r
    <3> QED
      BY <1>2, <1>4, <1>5, <2>1, <3>1, <3>2, JoinLaws
  <2>2. CASE news = <<>>
    <3>1. r = q
      BY <1>2, <2>2, ConcatEmptySeq
    <3> HIDE DEF r
    <3> QED
      BY <1>2, <1>4, <2>2, <3>1, JoinLaws
  <2> QED
    BY <1>4, <2>1, <2>2
<1>7. inbox'[p] = r \o turn
  BY <1>1
<1> HIDE DEF r
<1>8. MessagesOf(r \o turn) = MessagesOf(r)
  <2>1. CASE turn = <<t>>
    <3>1. r \o turn = Append(r, t)
      BY <1>3, <1>6, <2>1, AppendIsConcat
    <3>2. MessagesOf(Append(r, t)) = Join(MessagesOf(r), <<>>)
      BY <1>3, <1>6, MessagesAppend DEF Join
    <3> QED
      BY <1>6, <3>1, <3>2, JoinLaws
  <2>2. CASE turn = <<>>
    <3>1. r \o turn = r
      BY <1>6, <2>2, ConcatEmptySeq
    <3> QED
      BY <3>1
  <2> QED
    BY <1>4, <2>1, <2>2
<1> QED
  BY <1>6, <1>7, <1>8 DEF q, said2

LEMMA HostHeard ==
  ASSUME TypeOK, ChairNow, NEW p \in Participants, HeardNow(p), HostActs PROVE HeardNow(p)'
<1>1. Handles(Host, "token") /\ buf' = [buf EXCEPT ![Host] = <<>>] /\ heard' = heard
  BY DEF HostActs, Terminate, Dispatch, Decline, HostRest, partVars
<1>2. buf'[p] = buf[p] /\ step'[p] = step[p]
  <2>1. buf \in [Nodes -> Seq(Messages)] /\ p \in Nodes /\ p # Host /\ Host \in Nodes
    BY TypeParts, Names DEF Fields
  <2> QED
    BY <1>1, <2>1, HandlesFirst
<1>3. CASE Terminate
  <2>1. inbox' = inbox /\ aired' = aired
    BY <1>3 DEF Terminate
  <2> QED
    BY <1>1, <1>2, <2>1 DEF HeardNow, Heard
<1>4. CASE ~Terminate
  <2> DEFINE new == buf[Host]
             i == MessagesOf(inbox[p])
             x == Join(Join(heard[p], buf[p]), MessagesOf(step[p]))
             more == IF speaker = p THEN <<>> ELSE new
             a == aired
  <2>1. new \in Talk /\ i \in Talk /\ x \in Talk /\ a \in Talk /\ more \in Talk
    BY Hearing, Sequences, JoinLaws
  <2>2. aired' = Join(a, new) /\ \E next : Broadcast(new, next)
    BY <1>4 DEF HostActs, Dispatch, Decline, Join
  <2>3. MessagesOf(inbox'[p]) = Join(i, more)
    <3>1. PICK next : Broadcast(new, next)
      BY <2>2
    <3> HIDE DEF new
    <3> QED
      BY <2>1, <3>1, BroadcastHeard
  <2>4. AllBy(new, speaker)
    BY DEF ChairNow, Chair
  <2>5. NotBy(p, Join(a, new)) = Join(NotBy(p, a), more)
    <3> HIDE DEF new, a
    <3> QED
      BY <2>1, <2>4, NotByMore
  <2>6. Join(x, i) = NotBy(p, a)
    BY DEF HeardNow, Heard
  <2>7. Join(x, Join(i, more)) = Join(NotBy(p, a), more)
    <3> HIDE DEF x, i, more, a
    <3> QED
      BY <2>1, <2>6, JoinLaws
  <2> HIDE DEF more, a
  <2> QED
    BY <1>1, <1>2, <2>2, <2>3, <2>5, <2>7 DEF HeardNow, Heard
<1> QED
  BY <1>3, <1>4

\* The agent is given what its participant has buffered.
LEMMA TakeHeard ==
  ASSUME TypeOK, NEW p \in Participants, HeardNow(p), NEW q \in Participants, TakeTurn(q) \/ TakeAnswer(q)
  PROVE  HeardNow(p)'
<1>1. p \in Nodes /\ q \in Nodes /\ p # Host /\ held[q] \in BOOLEAN
  BY TypeParts, Names DEF Fields
<1>2. PICK answers : \E holds \in BOOLEAN : RunAgent(q, answers, holds)
  BY <1>1 DEF TakeTurn, TakeAnswer
<1>3. PICK holds \in BOOLEAN : RunAgent(q, answers, holds)
  BY <1>2
<1>4. inbox'[p] = inbox[p]
  BY <1>1, <1>3, RunAgentEffect
<1>5. /\ heard' = [heard EXCEPT ![q] = Join(heard[q], buf[q])] /\ buf' = [buf EXCEPT ![q] = <<>>]
      /\ aired' = aired
  BY <1>3 DEF RunAgent, hostVars, Join
<1>6. buf \in [Nodes -> Seq(Messages)] /\ heard \in [Participants -> Seq(Messages)]
  BY TypeParts DEF Fields
<1>7. MessagesOf(step'[p]) = MessagesOf(step[p])
  <2>1. PICK kind \in {"token", "response"} : Handles(q, kind)
    BY DEF TakeTurn, TakeAnswer
  <2>2. CASE p = q
    BY <1>1, <2>1, <2>2, HandlesFirst
  <2>3. CASE p # q
    BY <1>1, <2>1, <2>3, HandlesFirst
  <2> QED
    BY <2>2, <2>3
<1>8. Join(heard'[p], buf'[p]) = Join(heard[p], buf[p])
  <2>1. CASE p # q
    BY <1>1, <1>5, <1>6, <2>1
  <2>2. CASE p = q
    <3>1. heard'[p] = Join(heard[p], buf[p]) /\ buf'[p] = <<>>
      BY <1>1, <1>5, <1>6, <2>2
    <3>2. Join(heard[p], buf[p]) \in Talk
      BY Hearing, JoinLaws
    <3> QED
      BY <3>1, <3>2, JoinLaws
  <2> QED
    BY <2>1, <2>2
<1> QED
  BY <1>4, <1>5, <1>7, <1>8 DEF HeardNow, Heard

LEMMA HeardNowStep ==
  ASSUME TypeOK, HeardInv, ~hosted, [Next]_vars, NEW p \in Participants PROVE HeardNow(p)'
<1>1. HeardNow(p) /\ HeardSaved(p) /\ ChairNow /\ (running \/ step = Empty)
  BY DEF HeardInv
<1>2. CASE Quiet \/ EndStep
  <2>1. UNCHANGED <<heard, buf, step, inbox, aired>>
    BY <1>2 DEF Quiet, Ask, Answer, AgentTurn, CloseRun, EndStep, vars, hostVars, partVars
  <2> QED
    BY <1>1, <2>1 DEF HeardNow
<1>3. CASE Restore \/ AbortRun
  <2>1. /\ inbox' = saved.inbox /\ step' = Empty /\ heard' = saved.heard /\ buf' = saved.buf
        /\ aired' = saved.aired /\ Empty[p] = <<>>
    BY <1>3, Names DEF Restore, AbortRun, Rewind, Empty
  <2> QED
    BY <1>1, <2>1 DEF HeardNow, HeardSaved
<1>4. CASE Deliver
  BY <1>1, <1>4, DeliverHeard
<1>5. CASE BeginStep
  BY <1>1, <1>5, BeginHeard DEF BeginStep
<1>6. CASE \E x \in Nodes : Accumulate(x)
  BY <1>1, <1>6, AccumulateHeard
<1>7. CASE HostActs
  BY <1>1, <1>7, HostHeard
<1>8. CASE \E q \in Participants : TakeTurn(q) \/ TakeAnswer(q)
  BY <1>1, <1>8, TakeHeard
<1> QED
  BY <1>2, <1>3, <1>4, <1>5, <1>6, <1>7, <1>8 DEF Next, Step, Quiet, HostActs

LEMMA ChairNowStep ==
  ASSUME TypeOK, TurnInv, WaitInv, HeardInv, ~hosted, [Next]_vars PROVE ChairNow'
<1>1. ChairNow /\ ChairSaved /\ NowOne /\ AliveNow /\ (running \/ step = Empty)
  BY DEF HeardInv, TurnInv, NowOne, WaitInv
<1>2. CASE UNCHANGED vars
  BY <1>1, <1>2 DEF vars, hostVars, ChairNow
<1>3. CASE EndStep
  <2>1. UNCHANGED <<buf, step, inbox, deliveries, speaker>>
    BY <1>3 DEF EndStep, hostVars
  <2> QED
    BY <1>1, <2>1 DEF ChairNow
<1>4. CASE Restore
  <2>1. /\ inbox' = saved.inbox /\ step'[Host] = <<>> /\ buf' = saved.buf /\ speaker' = saved.speaker
        /\ deliveries' = <<>>
    BY <1>4, Empties DEF Restore, Rewind
  <2> QED
    BY <1>1, <2>1, PostedNone DEF ChairNow, ChairSaved
<1>5. CASE Deliver
  BY <1>1, <1>5, DeliverChair
<1>6. CASE BeginStep
  BY <1>1, <1>6, BeginChair DEF BeginStep
<1>7. CASE \E x \in Nodes : Accumulate(x)
  BY <1>1, <1>7, AccumulateChair
<1>8. CASE HostActs
  BY <1>1, <1>8, HostChair
<1>9. CASE \E p \in Participants : TakeTurn(p) \/ TakeAnswer(p)
  BY <1>1, <1>9, TakeChair
<1>10. CASE Ask \/ \E r \in Requests : Answer(r)
  BY <1>1, <1>10, AskChair, AnswerChair
<1>11. ~(\E new \in BOOLEAN, answers \in SetToAllKPermutations(Requests) : AgentTurn(new, answers))
       /\ ~CloseRun /\ ~AbortRun
  BY DEF AgentTurn, CloseRun, AbortRun
<1> QED
  BY <1>2, <1>3, <1>4, <1>5, <1>6, <1>7, <1>8, <1>9, <1>10, <1>11 DEF Next, Step, HostActs

\* A checkpoint is taken when every queue of the superstep is empty.
LEMMA HeardSavedStep ==
  ASSUME HeardInv, ~hosted, [Next]_vars
  PROVE  ChairSaved' /\ \A p \in Participants : HeardSaved(p)'
<1>1. ChairNow /\ ChairSaved /\ \A p \in Participants : HeardNow(p) /\ HeardSaved(p)
  BY DEF HeardInv
<1>2. CASE saved' = saved
  BY <1>1, <1>2 DEF ChairSaved, HeardSaved
<1>3. CASE EndStep /\ saved' = Snapshot
  <2>1. /\ saved'.inbox = inbox /\ saved'.heard = heard /\ saved'.buf = buf /\ saved'.speaker = speaker
        /\ saved'.aired = aired /\ step[Host] = <<>> /\ \A p \in Participants : step[p] = <<>>
    BY <1>3, Names DEF Snapshot, EndStep, Empty
  <2>2. ChairSaved'
    <3>1. Chair(buf[Host], <<>>, inbox[Host], <<>>, speaker)
      BY <1>1, ChairEnds DEF ChairNow
    <3> QED
      BY <2>1, <3>1 DEF ChairSaved
  <2>3. \A p \in Participants : HeardSaved(p)'
    BY <1>1, <2>1 DEF HeardNow, HeardSaved
  <2> QED
    BY <2>2, <2>3
<1> QED
  BY <1>2, <1>3, SavedSteps

LEMMA HeardStep == TypeOK /\ TurnInv /\ WaitInv /\ HeardInv /\ [Next]_vars => HeardInv'
<1> SUFFICES ASSUME TypeOK, TurnInv, WaitInv, HeardInv, [Next]_vars PROVE HeardInv'
  OBVIOUS
<1>1. (running \/ step = Empty)'
  BY BetweenSteps DEF HeardInv
<1>2. hosted' = hosted
  BY DEF hosted, Next, Step, Deliver, BeginStep, EndStep, Accumulate, Terminate, Dispatch, Decline, HostRest,
         TakeTurn, TakeAnswer, RunAgent, Ask, Answer, Restore, AgentTurn, CloseRun, AbortRun, Rewind, vars
<1>3. ~hosted => ChairNow' /\ ChairSaved' /\ \A p \in Participants : HeardNow(p)' /\ HeardSaved(p)'
  BY ChairNowStep, HeardNowStep, HeardSavedStep
<1> QED
  BY <1>1, <1>2, <1>3 DEF HeardInv

\* In a chat somebody drives himself every participant hears what the others and the caller
\* said, each message once and in the order of the chat, over supersteps, chats, waits for
\* answers and restores; a host that forgot to broadcast before it chooses the next speaker,
\* or told a speaker what he said himself, would break it.
THEOREM EverybodyHearsTheChat == Spec => []HeardInOrder
<1>1. Init => TypeOK /\ TurnInv /\ WaitInv /\ HeardInv
  BY TypeInit, TurnInit, BooksInit, ChairInit, HeardInit DEF Init, HeardInv
<1>2. TypeOK /\ TurnInv /\ WaitInv /\ HeardInv /\ [Next]_vars
        => (TypeOK /\ TurnInv /\ WaitInv /\ HeardInv)'
  BY TypeStep, TurnStep, WaitStep, HeardStep
<1>3. HeardInv => HeardInOrder
  BY DEF HeardInv, HeardNow, Heard, Join, HeardInOrder
<1> QED
  BY <1>1, <1>2, <1>3, PTL DEF Spec

-----------------------------------------------------------------------------
(* The chat is a conversation: the refinement of Conversation, for a caller *)
(* who drives the run himself.                                              *)

\* Whether x has the turn: the token is sent to it, or it holds it.
With(x, ib, st, hd) ==
  \/ Has(ib[x], Token) \/ Has(st[x], Token)
  \/ x \in Participants /\ hd[x] = TRUE
WithNow(x) == With(x, inbox, step, held)
TurnNow    == TurnAt(inbox, step, held)

LEMMA InQueue == ASSUME NEW q, NEW r, NEW e PROVE e \in Range(q) \cup Range(r) <=> Has(q, e) \/ Has(r, e)
  BY DEF Range, Has

LEMMA TurnIs ==
  ASSUME NEW ib, NEW st, NEW hd \in [Participants -> BOOLEAN],
         \A x, y \in Nodes : With(x, ib, st, hd) /\ With(y, ib, st, hd) => x = y
  PROVE  /\ \A x \in Nodes : With(x, ib, st, hd) => TurnAt(ib, st, hd) = x
         /\ (\A x \in Nodes : ~With(x, ib, st, hd)) => TurnAt(ib, st, hd) = None
         /\ \A x \in Nodes : TurnAt(ib, st, hd) = x => With(x, ib, st, hd)
<1> DEFINE at(x) == Token \in Range(ib[x]) \cup Range(st[x])
           has   == {p \in Participants : hd[p] \/ at(p)}
<1>1. Participants \subseteq Nodes /\ Host \in Nodes /\ Host \notin Participants /\ None \notin Nodes
  BY Names DEF Nodes
<1>2. \A x \in Nodes : at(x) <=> Has(ib[x], Token) \/ Has(st[x], Token)
  BY InQueue
<1>3. TurnAt(ib, st, hd) = IF at(Host) THEN Host ELSE IF has # {} THEN CHOOSE p \in has : TRUE ELSE None
  BY DEF TurnAt
<1>4. has = {p \in Participants : With(p, ib, st, hd)} /\ (at(Host) <=> With(Host, ib, st, hd))
  <2>1. ASSUME NEW p \in Participants PROVE hd[p] \/ at(p) <=> With(p, ib, st, hd)
    <3> HIDE DEF at
    <3> QED
      BY <1>1, <1>2, <2>1 DEF With
  <2>2. at(Host) <=> With(Host, ib, st, hd)
    <3> HIDE DEF at
    <3> QED
      BY <1>1, <1>2 DEF With
  <2> HIDE DEF at
  <2> QED
    BY <2>1, <2>2
<1> HIDE DEF at, has
<1>5. CASE With(Host, ib, st, hd)
  BY <1>1, <1>3, <1>4, <1>5
<1>6. CASE ~With(Host, ib, st, hd) /\ has # {}
  <2>1. PICK p \in Participants : With(p, ib, st, hd)
    BY <1>4, <1>6
  <2>2. has = {p}
    BY <1>1, <1>4, <2>1
  <2>3. TurnAt(ib, st, hd) = p
    BY <1>3, <1>4, <1>6, <2>2
  <2> QED
    BY <1>1, <2>1, <2>3
<1>7. CASE ~With(Host, ib, st, hd) /\ has = {}
  <2>1. TurnAt(ib, st, hd) = None
    BY <1>3, <1>4, <1>7
  <2>2. \A x \in Nodes : ~With(x, ib, st, hd)
    BY <1>4, <1>7 DEF Nodes
  <2> QED
    BY <1>1, <2>1, <2>2
<1> QED
  BY <1>5, <1>6, <1>7

\* One has it, who is the speaker unless it is the host; and nobody while the caller is to send it.
LEMMA WithOne ==
  ASSUME NEW sent, NEW ib, NEW st, NEW hd, NEW k, One(sent, ib, st, hd, k)
  PROVE  /\ \A x, y \in Nodes : With(x, ib, st, hd) /\ With(y, ib, st, hd) => x = y
         /\ \A p \in Participants : With(p, ib, st, hd) => k = p
         /\ Has(sent, ToHost(Token)) => \A x \in Nodes : ~With(x, ib, st, hd)
<1> DEFINE A(t) == At(t, sent, ib, st, hd)
<1>1. \A t, u \in Places : A(t) /\ A(u) => t = u
  BY DEF One
<1>2. ASSUME NEW x \in Nodes, With(x, ib, st, hd)
      PROVE  \E t \in Places : A(t) /\ t[1] # "caller" /\ t[2] = x /\ (x \in Participants => t \in Of(x))
  <2>1. <<"inbox", x>> \in Places /\ <<"step", x>> \in Places /\ <<"held", x>> \in Places
    BY DEF Places
  <2>2. CASE Has(ib[x], Token)
    BY <2>1, <2>2, AtEach DEF Of
  <2>3. CASE Has(st[x], Token)
    BY <2>1, <2>3, AtEach DEF Of
  <2>4. CASE x \in Participants /\ hd[x] = TRUE
    BY <2>1, <2>4, AtEach DEF Of
  <2> QED
    BY <1>2, <2>2, <2>3, <2>4 DEF With
<1>3. \A x, y \in Nodes : With(x, ib, st, hd) /\ With(y, ib, st, hd) => x = y
  <2> HIDE DEF A
  <2> QED
    BY <1>1, <1>2
<1>4. ASSUME NEW p \in Participants, With(p, ib, st, hd) PROVE k = p
  BY <1>2, <1>4, Names DEF One
<1>5. ASSUME Has(sent, ToHost(Token)) PROVE \A x \in Nodes : ~With(x, ib, st, hd)
  <2>1. <<"caller", Host>> \in Places /\ A(<<"caller", Host>>)
    BY <1>5, AtEach, Names DEF Places
  <2>2. <<"caller", Host>>[1] = "caller"
    OBVIOUS
  <2> HIDE DEF A
  <2> QED
    BY <1>1, <1>2, <2>1, <2>2
<1> QED
  BY <1>3, <1>4, <1>5

\* Where the turn is, now and after a step.
LEMMA TurnIsNow ==
  ASSUME TypeOK, NowOne
  PROVE  /\ \A x \in Nodes : WithNow(x) <=> TurnNow = x
         /\ (\A x \in Nodes : ~WithNow(x)) => TurnNow = None
         /\ \A p \in Participants : WithNow(p) => speaker = p
         /\ Has(deliveries, ToHost(Token)) => TurnNow = None
<1>1. held \in [Participants -> BOOLEAN]
  BY TypeParts DEF Fields
<1>2. /\ \A x, y \in Nodes : WithNow(x) /\ WithNow(y) => x = y
      /\ \A p \in Participants : WithNow(p) => speaker = p
      /\ Has(deliveries, ToHost(Token)) => \A x \in Nodes : ~WithNow(x)
  BY WithOne DEF NowOne, WithNow
<1>3. /\ \A x \in Nodes : WithNow(x) => TurnNow = x
      /\ (\A x \in Nodes : ~WithNow(x)) => TurnNow = None
      /\ \A x \in Nodes : TurnNow = x => WithNow(x)
  BY <1>1, <1>2, TurnIs DEF WithNow, TurnNow
<1> QED
  BY <1>2, <1>3

LEMMA TurnIsThen ==
  ASSUME TypeOK', NowOne'
  PROVE  /\ \A x \in Nodes : With(x, inbox', step', held') => TurnNow' = x
         /\ (\A x \in Nodes : ~With(x, inbox', step', held')) => TurnNow' = None
<1>1. held' \in [Participants -> BOOLEAN]
  BY TypePartsNext DEF Fields
<1>2. \A x, y \in Nodes : With(x, inbox', step', held') /\ With(y, inbox', step', held') => x = y
  BY WithOne DEF NowOne
<1> QED
  BY <1>1, <1>2, TurnIs DEF TurnNow

\* A step that leaves the token where it is leaves the turn.
LEMMA TurnStays ==
  ASSUME TypeOK, NowOne, TypeOK', NowOne',
         \A x \in Nodes : With(x, inbox', step', held') <=> WithNow(x)
  PROVE  TurnNow' = TurnNow
<1>1. CASE \E x \in Nodes : WithNow(x)
  BY <1>1, TurnIsNow, TurnIsThen
<1>2. CASE \A x \in Nodes : ~WithNow(x)
  BY <1>2, TurnIsNow, TurnIsThen
<1> QED
  BY <1>1, <1>2

\* What was said in the chat, now.
Talked(h, b, st, ib) == Join(Join(Join(h, b), MessagesOf(st)), MessagesOf(ib))
TalkNow == Talked(history, buf[Host], step[Host], inbox[Host])

LEMMA SilentNothing == ASSUME NEW s \in Seq(ItemTypes), Silent(s) PROVE MessagesOf(s) = <<>>
<1> DEFINE T == {n \in Nat : \E q \in Seq(ItemTypes) : Len(q) = n /\ Silent(q) /\ MessagesOf(q) # <<>>}
<1>1. T = {}
  <2> SUFFICES ASSUME T # {} PROVE FALSE
    OBVIOUS
  <2>1. PICK n \in T : \A i \in T : n <= i
    <3>1. T \subseteq Nat
      OBVIOUS
    <3> HIDE DEF T
    <3> QED
      BY <3>1, Least
  <2>2. PICK q \in Seq(ItemTypes) : Len(q) = n /\ Silent(q) /\ MessagesOf(q) # <<>>
    BY <2>1
  <2>3. q # <<>>
    BY <2>2, MessagesNone
  <2>4. Silent(Tail(q)) /\ Head(q).body = <<>>
    BY <2>2, <2>3, SaidTail
  <2>5. Tail(q) \in Seq(ItemTypes) /\ Len(Tail(q)) = n - 1 /\ n \in Nat /\ n # 0
    BY <2>2, <2>3
  <2>6. MessagesOf(q) = Join(<<>>, MessagesOf(Tail(q))) /\ MessagesOf(Tail(q)) \in Talk
    BY <2>3, <2>4, <2>5, MessagesHead, Bodies DEF Join, Talk
  <2>7. MessagesOf(Tail(q)) # <<>>
    BY <2>2, <2>6, JoinLaws
  <2> DEFINE r == Tail(q)
  <2>8. r \in Seq(ItemTypes) /\ Silent(r) /\ MessagesOf(r) # <<>> /\ Len(r) = n - 1
    BY <2>4, <2>5, <2>7
  <2> HIDE DEF r
  <2>9. n - 1 \in Nat /\ ~(n <= n - 1)
    BY <2>5
  <2>10. n - 1 \in T
    BY <2>8, <2>9
  <2> HIDE DEF T
  <2> QED
    BY <2>1, <2>9, <2>10
<1>2. Len(s) \in Nat
  OBVIOUS
<1> QED
  BY <1>1, <1>2

LEMMA TalkType == TypeOK => TalkNow \in Talk
  BY Sequences, JoinLaws DEF TalkNow, Talked

\* What a queue of the host's or its buffer takes over from another is still said.
LEMMA BeginTalk == TypeOK /\ step = Empty /\ BeginStep => TalkNow' = TalkNow
<1> SUFFICES ASSUME TypeOK, step = Empty, BeginStep PROVE TalkNow' = TalkNow
  OBVIOUS
<1>1. step[Host] = <<>> /\ step'[Host] = inbox[Host] /\ inbox'[Host] = <<>> /\ UNCHANGED <<history, buf>>
  BY Empties DEF BeginStep, hostVars
<1> DEFINE x == Join(history, buf[Host])
           i == MessagesOf(inbox[Host])
<1>2. x \in Talk /\ i \in Talk /\ Join(x, i) \in Talk
  BY Sequences, JoinLaws
<1>3. Join(Join(x, <<>>), i) = Join(Join(x, i), <<>>)
  <2> HIDE DEF x, i
  <2> QED
    BY <1>2, JoinLaws
<1> QED
  BY <1>1, <1>3, MessagesNone DEF TalkNow, Talked

LEMMA AccumulateTalk == ASSUME TypeOK, NEW x \in Nodes, Accumulate(x) PROVE TalkNow' = TalkNow
<1>1. /\ Handles(x, "messages") /\ buf' = [buf EXCEPT ![x] = Join(buf[x], Head(step[x]).body)]
      /\ UNCHANGED <<history, inbox>> /\ Host \in Nodes
  BY Names DEF Accumulate, hostVars, Join
<1>2. buf \in [Nodes -> Seq(Messages)]
  BY TypeParts DEF Fields
<1>3. CASE x # Host
  <2>1. buf'[Host] = buf[Host] /\ step'[Host] = step[Host]
    BY <1>1, <1>2, <1>3, HandlesFirst
  <2> QED
    BY <1>1, <2>1 DEF TalkNow, Talked
<1>4. CASE x = Host
  <2> DEFINE y == history
             b == buf[Host]
             m == Head(step[Host]).body
             c == MessagesOf(step'[Host])
  <2>1. buf'[Host] = Join(b, m)
    BY <1>1, <1>2, <1>4
  <2>2. m \in Talk /\ c \in Talk /\ MessagesOf(step[Host]) = Join(m, c)
    BY <1>1, <1>4, HandlesFirst
  <2>3. y \in Talk /\ b \in Talk
    BY Sequences
  <2>4. Join(Join(y, b), Join(m, c)) = Join(Join(y, Join(b, m)), c)
    <3> HIDE DEF y, b, m, c
    <3> QED
      BY <2>2, <2>3, Handled
  <2> QED
    BY <1>1, <2>1, <2>2, <2>4 DEF TalkNow, Talked
<1> QED
  BY <1>3, <1>4

\* The host takes its buffer over, and nothing that was said is behind the token.
LEMMA HostTalk ==
  ASSUME TypeOK, ChairNow, HostActs
  PROVE  /\ TalkNow = Transcript /\ Transcript \in Talk
         /\ history' = Transcript => TalkNow' = Transcript
         /\ history' = <<>> => TalkNow' = <<>>
<1>1. Handles(Host, "token") /\ buf' = [buf EXCEPT ![Host] = <<>>]
  BY DEF HostActs, Terminate, Dispatch, Decline, HostRest
<1>2. buf'[Host] = <<>>
  <2>1. buf \in [Nodes -> Seq(Messages)]
    BY TypeParts DEF Fields
  <2> QED
    BY <1>1, <2>1, Names
<1>3. inbox'[Host] = inbox[Host]
  <2>1. inbox' = inbox \/ \E next \in Participants \cup {None} : Broadcast(buf[Host], next)
    BY DEF HostActs, Terminate, Dispatch, Decline
  <2> QED
    BY <2>1, BroadcastHost
<1>4. /\ step[Host] \in Seq(ItemTypes) /\ step[Host] # <<>> /\ step'[Host] = Tail(step[Host])
      /\ Head(step[Host]) = Token /\ MessagesOf(step[Host]) = MessagesOf(step'[Host])
  BY <1>1, Names, HandlesFirst
<1>5. MessagesOf(step'[Host]) = <<>> /\ MessagesOf(inbox[Host]) = <<>>
  <2>1. Behind(step[Host]) /\ (Has(step[Host], Token) => Silent(inbox[Host]))
    BY DEF ChairNow, Chair
  <2>2. Silent(step'[Host]) /\ Silent(inbox[Host])
    BY <1>4, <2>1, SaidTail
  <2>3. Tail(step[Host]) \in Seq(ItemTypes) /\ inbox[Host] \in Seq(ItemTypes)
    BY <1>4, Sequences
  <2> QED
    BY <1>4, <2>2, <2>3, SilentNothing
<1>6. Transcript = Join(history, buf[Host]) /\ Transcript \in Talk
  BY Sequences, JoinLaws DEF Transcript, Join
<1>7. \A h, b \in Talk : Talked(h, b, step[Host], inbox[Host]) = Join(h, b)
  BY <1>4, <1>5, JoinLaws DEF Talked
<1>8. \A h \in Talk : Talked(h, <<>>, step'[Host], inbox[Host]) = h
  BY <1>5, JoinLaws DEF Talked
<1>9. history \in Talk /\ buf[Host] \in Talk /\ <<>> \in Talk
  BY Sequences, JoinLaws
<1> QED
  BY <1>2, <1>3, <1>6, <1>7, <1>8, <1>9 DEF TalkNow

\* A participant's message is the next thing that is said.
LEMMA TakeTalk ==
  ASSUME TypeOK, NEW p \in Participants, TakeTurn(p) \/ TakeAnswer(p)
  PROVE  TalkNow' = Append(TalkNow, Message(p))
<1>1. p \in Nodes /\ p # Host /\ p # None /\ held[p] \in BOOLEAN
  BY TypeParts, Names DEF Fields
<1>2. PICK answers : \E holds \in BOOLEAN : RunAgent(p, answers, holds)
  BY <1>1 DEF TakeTurn, TakeAnswer
<1>3. PICK holds \in BOOLEAN : RunAgent(p, answers, holds)
  BY <1>2
<1> DEFINE m == <<Message(p)>>
           e == Items(m)
           ib == inbox[Host]
           t == Token
<1>4. PICK back \in {<<t>>, <<>>} : inbox'[Host] = ib \o <<e>> \o back
  BY <1>3, RunAgentEffect
<1>5. buf'[Host] = buf[Host] /\ step'[Host] = step[Host] /\ history' = history
  <2>1. buf \in [Nodes -> Seq(Messages)] /\ buf' = [buf EXCEPT ![p] = <<>>] /\ history' = history
    BY <1>3, TypeParts DEF Fields, RunAgent, hostVars
  <2>2. Handles(p, "token") \/ Handles(p, "response")
    BY DEF TakeTurn, TakeAnswer
  <2> QED
    BY <1>1, <2>1, <2>2, Names, HandlesFirst
<1>6. m \in Talk /\ e \in ItemTypes /\ e.body = m
  <2>1. Message(p) \in Messages
    BY TypeParts DEF Fields, Message, Messages
  <2>2. m \in Seq(Messages)
    BY <2>1
  <2>3. e.body = m
    BY DEF Items
  <2> QED
    BY <2>2, <2>3, ItemsTyped DEF Talk
<1>7. ib \in Seq(ItemTypes) /\ MessagesOf(ib) \in Talk /\ t \in ItemTypes /\ t.body = <<>>
  BY Sequences, ItemsTyped DEF Token
<1>8. MessagesOf(inbox'[Host]) = Join(MessagesOf(ib), m)
  <2> HIDE DEF e, ib, t, m
  <2> DEFINE r == Append(ib, e)
  <2>1. ib \o <<e>> = r /\ r \in Seq(ItemTypes)
    BY <1>6, <1>7, AppendIsConcat
  <2>2. MessagesOf(r) = Join(MessagesOf(ib), m) /\ MessagesOf(r) \in Talk
    BY <1>6, <1>7, MessagesAppend, JoinLaws DEF Join
  <2>3. inbox'[Host] = r \o back
    BY <1>4, <2>1
  <2> HIDE DEF r
  <2>4. CASE back = <<t>>
    <3>1. r \o back = Append(r, t)
      BY <1>7, <2>1, <2>4, AppendIsConcat
    <3>2. MessagesOf(Append(r, t)) = Join(MessagesOf(r), <<>>)
      BY <1>7, <2>1, MessagesAppend DEF Join
    <3> QED
      BY <2>2, <2>3, <3>1, <3>2, JoinLaws
  <2>5. CASE back = <<>>
    <3>1. r \o back = r
      BY <2>1, <2>5, ConcatEmptySeq
    <3> QED
      BY <2>2, <2>3, <3>1
  <2> QED
    BY <2>4, <2>5
<1> DEFINE x == Join(Join(history, buf[Host]), MessagesOf(step[Host]))
           i == MessagesOf(ib)
<1>9. x \in Talk /\ i \in Talk /\ Join(x, i) \in Talk
  BY <1>7, Sequences, JoinLaws
<1>10. TalkNow' = Join(x, Join(i, m)) /\ TalkNow = Join(x, i)
  BY <1>5, <1>8 DEF TalkNow, Talked
<1>11. Join(x, Join(i, m)) = Join(Join(x, i), m)
  <2> HIDE DEF x, i, m
  <2> QED
    BY <1>6, <1>9, JoinLaws
<1>12. Append(TalkNow, Message(p)) = Join(TalkNow, m)
  <2>1. Message(p) \in Messages /\ TalkNow \in Seq(Messages)
    BY <1>6, <1>9, <1>10 DEF Talk
  <2> QED
    BY <2>1, AppendIsConcat DEF Join
<1> QED
  BY <1>10, <1>11, <1>12

\* What the caller says is at the head of what he has sent, and the token behind it.
Starts(q) ==
  \A i \in 1 .. Len(q) : q[i].item.kind = "messages" =>
    /\ i = 1 /\ Len(q) >= 2 /\ q[2] = ToHost(Token)
    /\ \E n \in Nat : q[1].item.body = <<[by |-> None, n |-> n]>>
Asked == ~hosted => Starts(deliveries)

LEMMA StartsTail == ASSUME NEW q \in Seq(Sent), q # <<>>, Starts(q) PROVE Starts(Tail(q))
<1>1. Len(q) \in Nat \ {0}
  BY EmptySeq
<1>2. Len(Tail(q)) = Len(q) - 1 /\ \A i \in 1 .. Len(q) - 1 : Tail(q)[i] = q[i + 1]
  OBVIOUS
<1>3. \A i \in 1 .. Len(Tail(q)) : Tail(q)[i].item.kind # "messages"
  <2> TAKE i \in 1 .. Len(Tail(q))
  <2>1. i + 1 \in 1 .. Len(q) /\ i + 1 # 1 /\ Tail(q)[i] = q[i + 1]
    BY <1>1, <1>2
  <2> QED
    BY <2>1 DEF Starts
<1> QED
  BY <1>3 DEF Starts

LEMMA HostedStays == [Next]_vars => hosted' = hosted
  BY DEF hosted, Next, Step, Deliver, BeginStep, EndStep, Accumulate, Terminate, Dispatch, Decline, HostRest,
         TakeTurn, TakeAnswer, RunAgent, Ask, Answer, Restore, AgentTurn, CloseRun, AbortRun, Rewind, vars

LEMMA AskedStep == TypeOK /\ Asked /\ [Next]_vars => Asked'
<1> SUFFICES ASSUME TypeOK, Asked, [Next]_vars, ~hosted PROVE Starts(deliveries')
  BY HostedStays DEF Asked
<1>1. deliveries \in Seq(Sent) /\ Starts(deliveries)
  BY PostedNow DEF Asked
<1>2. CASE deliveries' = deliveries
  BY <1>1, <1>2
<1>3. CASE Deliver
  BY <1>1, <1>3, StartsTail DEF Deliver
<1>4. CASE Ask
  <2>1. deliveries' = <<Input, ToHost(Token)>> /\ inputs + 1 \in Nat
    BY <1>4, TypeParts DEF Ask, Others
  <2>2. Input.item.body = <<[by |-> None, n |-> inputs + 1]>>
    BY DEF Input, ToHost, Items
  <2>3. ToHost(Token).item.kind # "messages"
    BY DEF ToHost, Token
  <2> HIDE DEF Input
  <2> QED
    BY <2>1, <2>2, <2>3 DEF Starts
<1>5. CASE \E r \in Requests : Answer(r)
  <2>1. PICK r \in Requests : deliveries' = Append(deliveries, ToHost(Response(r)))
    BY <1>5 DEF Answer
  <2> DEFINE d == ToHost(Response(r))
  <2>2. d.item.kind # "messages"
    BY DEF ToHost, Response
  <2> HIDE DEF d
  <2>3. /\ Len(deliveries') = Len(deliveries) + 1 /\ Len(deliveries) \in Nat
        /\ deliveries'[Len(deliveries) + 1] = d /\ \A i \in 1 .. Len(deliveries) : deliveries'[i] = deliveries[i]
    BY <1>1, <2>1 DEF d
  <2>4. ASSUME NEW i \in 1 .. Len(deliveries'), deliveries'[i].item.kind = "messages"
        PROVE  /\ i = 1 /\ Len(deliveries') >= 2 /\ deliveries'[2] = ToHost(Token)
               /\ \E n \in Nat : deliveries'[1].item.body = <<[by |-> None, n |-> n]>>
    <3>1. i \in 1 .. Len(deliveries)
      BY <2>2, <2>3, <2>4
    <3>2. deliveries[i].item.kind = "messages"
      BY <2>3, <2>4, <3>1
    <3>3. /\ i = 1 /\ Len(deliveries) >= 2 /\ deliveries[2] = ToHost(Token)
          /\ \E n \in Nat : deliveries[1].item.body = <<[by |-> None, n |-> n]>>
      BY <1>1, <3>1, <3>2 DEF Starts
    <3>4. 1 \in 1 .. Len(deliveries) /\ 2 \in 1 .. Len(deliveries)
      BY <2>3, <3>3
    <3>5. deliveries'[1] = deliveries[1] /\ deliveries'[2] = deliveries[2] /\ Len(deliveries') >= 2
      BY <2>3, <3>3, <3>4
    <3> QED
      BY <3>3, <3>5
  <2> QED
    BY <2>4 DEF Starts
<1>6. CASE Restore
  BY <1>6 DEF Restore, Rewind, Starts
<1>7. ~(\E new \in BOOLEAN, answers \in SetToAllKPermutations(Requests) : AgentTurn(new, answers))
      /\ ~CloseRun /\ ~AbortRun
  BY DEF AgentTurn, CloseRun, AbortRun
<1>8. BeginStep \/ EndStep \/ (\E x \in Nodes : Accumulate(x)) \/ Terminate
        \/ (\E next \in Participants : Dispatch(next)) \/ (\E next \in Participants \cup {None} : Decline(next))
        \/ (\E p \in Participants : TakeTurn(p) \/ TakeAnswer(p)) \/ UNCHANGED vars => deliveries' = deliveries
  BY DEF BeginStep, EndStep, Accumulate, Terminate, Dispatch, Decline, HostRest, TakeTurn, TakeAnswer, RunAgent, vars
<1> QED
  BY <1>2, <1>3, <1>4, <1>5, <1>6, <1>7, <1>8 DEF Next, Step

\* What the conversation is, and what of it a checkpoint holds.
PastNow == [turn |-> TurnAt(saved.inbox, Empty, saved.held),
            talk |-> Spoken(saved.history, saved.buf, saved.inbox, Empty),
            last |-> saved.speaker, told |-> saved.yielded]
Shown == <<TurnNow, TalkNow, speaker, yielded, PastNow, hosted>>

LEMMA Shows == Promised!vars = Shown /\ Promised!vars' = Shown'
  BY DEF Promised!vars, Shown, TurnNow, TalkNow, Talked, Join, Spoken, PastNow

\* The steps of the conversation, as steps of the chat show them.
LEMMA Steps ==
  /\ TurnNow = None /\ (\E m : m.by = None /\ TalkNow' = Append(TalkNow, m)) /\ TalkNow \in Talk
       /\ UNCHANGED <<TurnNow, speaker, yielded, PastNow>> => Promised!CallerSpeaks
  /\ TurnNow = None /\ TurnNow' = Host /\ UNCHANGED <<TalkNow, speaker, yielded, PastNow>> => Promised!HandOver
  /\ \A p : TurnNow = Host /\ p # speaker /\ TurnNow' = p /\ speaker' = p
              /\ UNCHANGED <<TalkNow, yielded, PastNow>> => Promised!Pass(p)
  /\ \A p : TurnNow = p /\ (\E m : m.by = p /\ TalkNow' = Append(TalkNow, m)) /\ TalkNow \in Talk
              /\ TurnNow' \in {p, Host} /\ UNCHANGED <<speaker, yielded, PastNow>> => Promised!Speak(p)
  /\ TurnNow = Host /\ TurnNow' = None /\ TalkNow' = <<>> /\ speaker' = None /\ UNCHANGED PastNow
       /\ (yielded' = Append(yielded, TalkNow) \/ yielded' = Append(Append(yielded, TalkNow), <<>>))
       => Promised!Finish
  /\ PastNow' = [turn |-> TurnNow, talk |-> TalkNow, last |-> speaker, told |-> yielded]
       /\ UNCHANGED <<TurnNow, TalkNow, speaker, yielded>> => Promised!Save
  /\ TurnNow' = PastNow.turn /\ TalkNow' = PastNow.talk /\ speaker' = PastNow.last
       /\ yielded' = PastNow.told /\ UNCHANGED PastNow => Promised!GoBack
<1> DEFINE S == Spoken(history, buf, inbox, step)
<1>1. TalkNow = S /\ TurnNow = TurnAt(inbox, step, held)
  BY DEF TurnNow, TalkNow, Talked, Join, Spoken
<1>2. TalkNow' = S' /\ TurnNow' = TurnAt(inbox, step, held)'
  BY DEF TurnNow, TalkNow, Talked, Join, Spoken
<1>3. PastNow = [turn |-> TurnAt(saved.inbox, Empty, saved.held),
            talk |-> Spoken(saved.history, saved.buf, saved.inbox, Empty),
            last |-> saved.speaker, told |-> saved.yielded]
  BY DEF PastNow
<1>4. PastNow' = [turn |-> TurnAt(saved.inbox, Empty, saved.held),
            talk |-> Spoken(saved.history, saved.buf, saved.inbox, Empty),
            last |-> saved.speaker, told |-> saved.yielded]'
  BY DEF PastNow
<1>5. ASSUME TalkNow \in Talk, NEW m, TalkNow' = Append(TalkNow, m)
      PROVE  /\ Len(TalkNow') = Len(TalkNow) + 1 /\ TalkNow'[Len(TalkNow')] = m
  BY <1>5 DEF Talk
<1>6. ASSUME NEW p, (\E m : m.by = p /\ TalkNow' = Append(TalkNow, m)) /\ TalkNow \in Talk
      PROVE  Promised!Says(p)
  BY <1>1, <1>2, <1>5, <1>6 DEF Promised!Says
<1> HIDE DEF S
<1>7. TurnNow = None /\ (\E m : m.by = None /\ TalkNow' = Append(TalkNow, m)) /\ TalkNow \in Talk
       /\ UNCHANGED <<TurnNow, speaker, yielded, PastNow>> => Promised!CallerSpeaks
  BY <1>1, <1>2, <1>3, <1>4, <1>6 DEF Promised!CallerSpeaks, S
<1>8. TurnNow = None /\ TurnNow' = Host /\ UNCHANGED <<TalkNow, speaker, yielded, PastNow>> => Promised!HandOver
  BY <1>1, <1>2, <1>3, <1>4 DEF Promised!HandOver, S
<1>9. \A p : TurnNow = Host /\ p # speaker /\ TurnNow' = p /\ speaker' = p
              /\ UNCHANGED <<TalkNow, yielded, PastNow>> => Promised!Pass(p)
  BY <1>1, <1>2, <1>3, <1>4 DEF Promised!Pass, S
<1>10. \A p : TurnNow = p /\ (\E m : m.by = p /\ TalkNow' = Append(TalkNow, m)) /\ TalkNow \in Talk
              /\ TurnNow' \in {p, Host} /\ UNCHANGED <<speaker, yielded, PastNow>> => Promised!Speak(p)
  BY <1>1, <1>2, <1>3, <1>4, <1>6 DEF Promised!Speak, S
<1>11. TurnNow = Host /\ TurnNow' = None /\ TalkNow' = <<>> /\ speaker' = None /\ UNCHANGED PastNow
       /\ (yielded' = Append(yielded, TalkNow) \/ yielded' = Append(Append(yielded, TalkNow), <<>>))
       => Promised!Finish
  BY <1>1, <1>2, <1>3, <1>4 DEF Promised!Finish, S
<1>12. PastNow' = [turn |-> TurnNow, talk |-> TalkNow, last |-> speaker, told |-> yielded]
       /\ UNCHANGED <<TurnNow, TalkNow, speaker, yielded>> => Promised!Save
  BY <1>1, <1>2, <1>3, <1>4 DEF Promised!Save, Promised!Now, S
<1>13. TurnNow' = PastNow.turn /\ TalkNow' = PastNow.talk /\ speaker' = PastNow.last
       /\ yielded' = PastNow.told /\ UNCHANGED PastNow => Promised!GoBack
  BY <1>1, <1>2, <1>3, <1>4 DEF Promised!GoBack, S
<1> QED
  BY <1>7, <1>8, <1>9, <1>10, <1>11, <1>12, <1>13

\* Every step of the chat is one of the conversation, or none.
Same == UNCHANGED <<TurnNow, TalkNow, speaker, yielded, PastNow>>
Turnings == TypeOK /\ NowOne /\ ChairNow /\ AliveNow /\ TypeOK' /\ NowOne'

LEMMA PastStays == saved' = saved => UNCHANGED PastNow
  BY DEF PastNow

LEMMA DeliverTalks ==
  ASSUME Turnings, Starts(deliveries), Deliver
  PROVE  Same \/ Promised!CallerSpeaks \/ Promised!HandOver
<1> USE DEF Turnings
<1> DEFINE d == Head(deliveries)
           o == IF d.item.req = None THEN d.to ELSE owner[d.item.req]
<1>1. deliveries \in Seq(Sent) /\ deliveries # <<>> /\ Fields
  BY TypeParts DEF Others, Sent, Deliver
<1>2. d.item \in ItemTypes /\ d.to = Host /\ d \in Sent /\ d = ToHost(d.item)
  <2>1. d \in Sent
    BY <1>1
  <2> QED
    BY <2>1 DEF Sent, ToHost
<1>3. o \in Nodes
  BY <1>1, <1>2, ItemParts, Names DEF Fields, Deliver
<1>4. inbox' = [inbox EXCEPT ![o] = Append(inbox[o], d.item)] /\ inbox \in [Nodes -> Seq(ItemTypes)]
  BY <1>1 DEF Deliver, Fields, Queues
<1>5. /\ \A x \in Nodes : Has(inbox'[x], Token) <=> Has(inbox[x], Token) \/ (x = o /\ d.item = Token)
      /\ MessagesOf(inbox'[Host]) = IF o = Host THEN Join(MessagesOf(inbox[Host]), d.item.body)
                                                ELSE MessagesOf(inbox[Host])
  <2>1. inbox[o] \in Seq(ItemTypes) /\ inbox'[o] = Append(inbox[o], d.item)
    BY <1>3, <1>4
  <2>2. \A x \in Nodes : x # o => inbox'[x] = inbox[x]
    BY <1>4
  <2> HIDE DEF d, o
  <2>3. Has(inbox'[o], Token) <=> Has(inbox[o], Token) \/ d.item = Token
    BY <1>2, <2>1, HasAppend
  <2>4. MessagesOf(inbox'[o]) = Join(MessagesOf(inbox[o]), d.item.body)
    BY <1>2, <2>1, MessagesAppend DEF Join
  <2> QED
    BY <2>2, <2>3, <2>4, Names
<1>6. UNCHANGED <<step, history, speaker, held, buf, yielded, saved>>
  BY DEF Deliver, hostVars, partVars
<1>7. UNCHANGED PastNow
  BY <1>6, PastStays
<1>8. d.item # Token => TurnNow' = TurnNow
  <2>1. ASSUME d.item # Token, NEW x \in Nodes PROVE With(x, inbox', step', held') <=> WithNow(x)
    BY <1>5, <1>6, <2>1 DEF With, WithNow
  <2> QED
    BY <2>1, TurnStays
<1>9. TalkNow' = IF o = Host THEN Join(TalkNow, d.item.body) ELSE TalkNow
  <2>1. CASE o = Host
    <3> DEFINE x == Join(Join(history, buf[Host]), MessagesOf(step[Host]))
               i == MessagesOf(inbox[Host])
               b == d.item.body
    <3>1. x \in Talk /\ i \in Talk /\ b \in Talk
      BY <1>2, ItemParts, Sequences, JoinLaws DEF Talk
    <3>2. TalkNow' = Join(x, Join(i, b)) /\ TalkNow = Join(x, i)
      BY <1>5, <1>6, <2>1 DEF TalkNow, Talked
    <3> HIDE DEF x, i, b, o
    <3>3. TalkNow' = Join(TalkNow, b)
      BY <3>1, <3>2, JoinLaws
    <3> QED
      BY <2>1, <3>3 DEF b
  <2>2. CASE o # Host
    BY <1>5, <1>6, <2>2 DEF TalkNow, Talked
  <2> QED
    BY <2>1, <2>2
<1>10. d = deliveries[1] /\ 1 \in 1 .. Len(deliveries)
  <2>1. Len(deliveries) \in Nat \ {0}
    BY <1>1, EmptySeq
  <2> QED
    BY <1>1, <2>1
<1>11. CASE d.item.kind = "messages"
  <2>1. /\ d.item.req = None /\ o = Host /\ d.item # Token
    BY <1>2, <1>11, ItemParts DEF Token
  <2>2. PICK n \in Nat : d.item.body = <<[by |-> None, n |-> n]>>
    BY <1>10, <1>11 DEF Starts
  <2>3. Has(deliveries, ToHost(Token))
    <3>1. Len(deliveries) >= 2 /\ deliveries[2] = ToHost(Token)
      BY <1>10, <1>11 DEF Starts
    <3>2. 2 \in DOMAIN deliveries
      BY <1>1, <3>1
    <3> QED
      BY <3>1, <3>2 DEF Has
  <2>4. TurnNow = None
    BY <2>3, TurnIsNow
  <2> DEFINE m == [by |-> None, n |-> n]
  <2>5. TalkNow' = Append(TalkNow, m) /\ TalkNow \in Talk
    <3>1. m \in Messages /\ m.by = None
      BY DEF Messages
    <3>2. TalkNow \in Seq(Messages)
      BY TalkType DEF Talk
    <3> HIDE DEF m, o, d
    <3>3. Append(TalkNow, m) = TalkNow \o <<m>>
      BY <3>1, <3>2, AppendIsConcat
    <3> QED
      BY <1>9, <2>1, <2>2, <3>2, <3>3 DEF Join, Talk, m
  <2>6. m.by = None
    OBVIOUS
  <2> HIDE DEF m
  <2> QED
    BY <1>6, <1>7, <1>8, <2>1, <2>4, <2>5, <2>6, Steps
<1>12. CASE d.item = Token
  <2>1. o = Host /\ d.item.body = <<>>
    BY <1>2, <1>12 DEF Token
  <2>2. Has(deliveries, ToHost(Token))
    BY <1>1, <1>2, <1>10, <1>12 DEF Has
  <2>3. TurnNow = None
    BY <2>2, TurnIsNow
  <2>4. TurnNow' = Host
    <3>1. With(Host, inbox', step', held')
      BY <1>5, <1>12, <2>1, Names DEF With
    <3> QED
      BY <3>1, TurnIsThen, Names
  <2>5. TalkNow' = TalkNow
    BY <1>9, <2>1, TalkType, JoinLaws
  <2> QED
    BY <1>6, <1>7, <2>3, <2>4, <2>5, Steps
<1>13. CASE d.item.kind = "response"
  <2>1. d.item.req \in Requests /\ d.item # Token
    BY <1>2, <1>13, ItemParts DEF Token
  <2>2. o = owner[d.item.req] /\ o # None
    BY <2>1, Names DEF Deliver
  <2>3. o # Host
    BY <1>1, <2>1, <2>2, Names DEF Fields
  <2> QED
    BY <1>6, <1>7, <1>8, <1>9, <2>1, <2>3 DEF Same
<1> QED
  <2>1. d.item.kind = "messages" \/ d.item = Token \/ d.item.kind = "response"
    <3>1. d.item \in ItemTypes
      BY <1>2
    <3> HIDE DEF d
    <3>2. CASE d.item \in [kind : {"messages"}, body : Seq(Messages), req : {None}]
      BY <3>2
    <3>3. CASE \E r \in Requests : d.item = Response(r)
      BY <3>3 DEF Response
    <3> QED
      BY <3>1, <3>2, <3>3 DEF ItemTypes
  <2> QED
    BY <1>11, <1>12, <1>13, <2>1

LEMMA QueuesTalk ==
  ASSUME Turnings, step = Empty, BeginStep PROVE Same
<1> USE DEF Turnings
<1>1. step'= inbox /\ inbox' = Empty /\ UNCHANGED <<speaker, yielded, saved, held>>
  BY DEF BeginStep, hostVars, partVars
<1>2. \A x \in Nodes : With(x, inbox', step', held') <=> WithNow(x)
  BY <1>1, AtEmpty DEF With, WithNow
<1> QED
  BY <1>1, <1>2, TurnStays, BeginTalk, PastStays DEF Same

LEMMA HearsTalk ==
  ASSUME Turnings, NEW x \in Nodes, Accumulate(x) PROVE Same
<1> USE DEF Turnings
<1>1. UNCHANGED <<inbox, speaker, yielded, saved, held>> /\ Handles(x, "messages")
  BY DEF Accumulate, hostVars, partVars
<1>2. \A y \in Nodes : With(y, inbox', step', held') <=> WithNow(y)
  BY <1>1, TokensStay DEF With, WithNow
<1> QED
  BY <1>1, <1>2, TurnStays, AccumulateTalk, PastStays DEF Same

\* A checkpoint is the conversation as it is.
LEMMA SaveTalks == ASSUME EndStep PROVE Same \/ Promised!Save
<1>1. UNCHANGED <<inbox, step, held, history, buf, speaker, yielded>> /\ step = Empty
  BY DEF EndStep, hostVars, partVars
<1>2. UNCHANGED <<TurnNow, TalkNow>>
  BY <1>1 DEF TurnNow, TalkNow
<1>3. CASE saved' = saved
  BY <1>1, <1>2, <1>3, PastStays DEF Same
<1>4. CASE saved' = Snapshot
  <2>1. /\ saved'.inbox = inbox /\ saved'.held = held /\ saved'.history = history /\ saved'.buf = buf
        /\ saved'.speaker = speaker /\ saved'.yielded = yielded
    BY <1>4 DEF Snapshot
  <2>2. TurnNow = TurnAt(inbox, Empty, held) /\ TalkNow = Spoken(history, buf, inbox, Empty)
    BY <1>1 DEF TurnNow, TalkNow, Talked, Join, Spoken
  <2>3. PastNow' = [turn |-> TurnNow, talk |-> TalkNow, last |-> speaker, told |-> yielded]
    BY <2>1, <2>2 DEF PastNow
  <2> QED
    BY <1>1, <1>2, <2>3, Steps
<1> QED
  BY <1>3, <1>4 DEF EndStep

LEMMA RestoreTalks == ASSUME Restore PROVE Promised!GoBack
<1>1. /\ inbox' = saved.inbox /\ step' = Empty /\ held' = saved.held /\ history' = saved.history
      /\ buf' = saved.buf /\ speaker' = saved.speaker /\ yielded' = saved.yielded /\ saved' = saved
  BY DEF Restore, Rewind, RestoredToken
<1>2. TurnNow' = TurnAt(saved.inbox, Empty, saved.held)
      /\ TalkNow' = Spoken(saved.history, saved.buf, saved.inbox, Empty)
  BY <1>1 DEF TurnNow, TalkNow, Talked, Join, Spoken
<1> QED
  BY <1>1, <1>2, PastStays, Steps DEF PastNow

LEMMA AskTalks == ASSUME Ask \/ (\E r \in Requests : Answer(r)) \/ UNCHANGED vars PROVE Same
  BY PastStays DEF Ask, Answer, vars, hostVars, partVars, Same, TurnNow, TalkNow

\* The host has the turn and gives it to the next or, with the transcript, to the caller.
LEMMA HostTalks ==
  ASSUME Turnings, HostActs PROVE Promised!Finish \/ \E p \in Participants : Promised!Pass(p)
<1> USE DEF Turnings
<1>1. Handles(Host, "token") /\ UNCHANGED <<held, saved>>
  BY DEF HostActs, Terminate, Dispatch, Decline, HostRest, partVars
<1>2. /\ \A y \in Nodes : ~Has(inbox[y], Token) /\ ~Has(step'[y], Token)
      /\ \A p \in Participants : ~held[p]
  BY <1>1, Names, TokenHandled
<1>3. \A y \in Nodes : Single(inbox[y], Token)
  BY DEF NowOne, One, Once
<1>4. TurnNow = Host
  <2>1. step[Host] \in Seq(ItemTypes) /\ step[Host] # <<>> /\ Head(step[Host]) = Token
    BY <1>1, Names, HandlesFirst
  <2>2. Has(step[Host], Token)
    BY <2>1, ItemsTyped, HasHead
  <2> QED
    BY <2>2, TurnIsNow, Names DEF WithNow, With
<1>5. UNCHANGED PastNow
  BY <1>1, PastStays
<1>6. TalkNow = Transcript /\ (history' = Transcript => TalkNow' = TalkNow) /\ (history' = <<>> => TalkNow' = <<>>)
  BY HostTalk
<1>7. ASSUME \A x \in Nodes : ~Has(inbox'[x], Token) PROVE TurnNow' = None
  <2>1. \A x \in Nodes : ~With(x, inbox', step', held')
    BY <1>1, <1>2, <1>7 DEF With
  <2> QED
    BY <2>1, TurnIsThen
<1>8. CASE Terminate
  <2>1. /\ inbox' = inbox /\ yielded' = yielded \o <<Transcript>> /\ history' = <<>> /\ speaker' = None
    BY <1>8 DEF Terminate, Complete
  <2>2. yielded' = Append(yielded, TalkNow)
    <3>1. yielded \in Seq(Talk) /\ Transcript \in Talk
      BY Sequences, HostTalk
    <3> QED
      BY <1>6, <2>1, <3>1, AppendIsConcat
  <2> QED
    BY <1>2, <1>4, <1>5, <1>6, <1>7, <2>1, <2>2, Steps
<1>9. CASE \E next \in Participants : Dispatch(next)
  <2>1. PICK next \in Participants : Dispatch(next)
    BY <1>9
  <2>2. Fields /\ buf[Host] \in Seq(Messages) /\ Broadcast(buf[Host], next) /\ next \in Nodes
    BY <2>1, TypeParts, TranscriptType, Names DEF Dispatch
  <2>3. Has(inbox'[next], Token)
    BY <2>2, BroadcastItems
  <2>4. TurnNow' = next
    BY <2>2, <2>3, TurnIsThen DEF With
  <2>5. next # speaker /\ speaker' = next /\ yielded' = yielded /\ history' = Transcript
    BY <2>1 DEF Dispatch, MayTurn
  <2>6. Promised!Pass(next)
    BY <1>4, <1>5, <1>6, <2>4, <2>5, Steps
  <2> QED
    BY <2>6
<1>10. CASE \E next \in Participants \cup {None} : Decline(next)
  <2>1. PICK next \in Participants \cup {None} : Decline(next)
    BY <1>10
  <2>2. Fields /\ buf[Host] \in Seq(Messages) /\ Broadcast(buf[Host], None)
    BY <2>1, TypeParts, TranscriptType DEF Decline
  <2>3. \A x \in Nodes : ~Has(inbox'[x], Token)
    <3>1. \A x \in Nodes : Has(inbox'[x], Token) => x = None
      BY <1>2, <1>3, <2>2, BroadcastTurn
    <3> QED
      BY <3>1, Names DEF Nodes
  <2>4. history' = <<>> /\ speaker' = None
        /\ yielded' = yielded \o (<<Transcript>> \o (IF next = None THEN <<>> ELSE << <<>> >>))
    BY <2>1 DEF Decline, Complete
  <2>5. yielded' = Append(yielded, TalkNow) \/ yielded' = Append(Append(yielded, TalkNow), <<>>)
    <3> DEFINE t == Transcript
               e == <<>>
    <3>1. yielded \in Seq(Talk) /\ t \in Talk /\ e \in Talk
      BY Sequences, HostTalk, JoinLaws
    <3>2. yielded' = yielded \o (<<t>> \o <<>>) \/ yielded' = yielded \o (<<t>> \o <<e>>)
      BY <2>4
    <3>3. t = TalkNow
      BY <1>6
    <3> HIDE DEF t, e
    <3>4. <<t>> \o <<>> = <<t>> /\ <<t>> \in Seq(Talk) /\ <<e>> \in Seq(Talk)
      BY <3>1
    <3>5. yielded \o <<t>> = Append(yielded, t) /\ Append(yielded, t) \in Seq(Talk)
      BY <3>1, AppendIsConcat
    <3>6. yielded \o (<<t>> \o <<e>>) = (yielded \o <<t>>) \o <<e>>
      BY <3>1, <3>4, Associative
    <3> DEFINE r == Append(yielded, t)
    <3>7. r \o <<e>> = Append(r, e)
      <4>1. r \in Seq(Talk)
        BY <3>5
      <4> HIDE DEF r
      <4> QED
        BY <3>1, <4>1, AppendIsConcat
    <3> QED
      BY <3>2, <3>3, <3>4, <3>5, <3>6, <3>7 DEF e
  <2> QED
    BY <1>4, <1>5, <1>6, <1>7, <2>3, <2>4, <2>5, Steps
<1> QED
  BY <1>8, <1>9, <1>10 DEF HostActs

\* Who runs his agent has the turn, and keeps it or gives it back to the host.
LEMMA TakeTalks ==
  ASSUME Turnings, NEW p \in Participants, TakeTurn(p) \/ TakeAnswer(p) PROVE Promised!Speak(p)
<1> USE DEF Turnings
<1>1. p \in Nodes /\ p # Host /\ Host \in Nodes /\ held \in [Participants -> BOOLEAN]
  BY TypeParts, Names DEF Fields
<1>2. PICK answers : \E holds \in BOOLEAN : holds /\ RunAgent(p, answers, holds)
  BY RunsWithToken
<1>3. RunAgent(p, answers, TRUE)
  BY <1>2
<1>4. PICK release \in BOOLEAN :
        /\ held'[p] = (TRUE /\ ~release)
        /\ inbox'[Host] = inbox[Host] \o <<Items(<<Message(p)>>)>> \o (IF release THEN <<Token>> ELSE <<>>)
        /\ UNCHANGED <<deliveries, speaker>>
  BY <1>3, RunAgentEffect
<1>5. UNCHANGED <<yielded, saved>>
  BY <1>3 DEF RunAgent, hostVars
<1>6. TurnNow = p
  <2>1. CASE TakeTurn(p)
    <3>1. step[p] \in Seq(ItemTypes) /\ step[p] # <<>> /\ Head(step[p]) = Token
      BY <1>1, <2>1, HandlesFirst DEF TakeTurn
    <3>2. Has(step[p], Token)
      BY <3>1, ItemsTyped, HasHead
    <3> QED
      BY <1>1, <3>2, TurnIsNow DEF WithNow, With
  <2>2. CASE TakeAnswer(p)
    <3>1. held[p]
      BY <2>2 DEF TakeAnswer, AliveNow, Alive
    <3> QED
      BY <1>1, <3>1, TurnIsNow DEF WithNow, With
  <2> QED
    BY <2>1, <2>2
<1>7. TurnNow' \in {p, Host}
  <2>1. CASE ~release
    <3>1. With(p, inbox', step', held')
      BY <1>4, <2>1 DEF With
    <3> QED
      BY <1>1, <3>1, TurnIsThen
  <2>2. CASE release
    <3> DEFINE q == inbox[Host] \o <<Items(<<Message(p)>>)>>
               t == Token
    <3>1. q \in Seq(ItemTypes) /\ t \in ItemTypes
      <4>1. Message(p) \in Messages
        BY TypeParts DEF Fields, Message, Messages
      <4>2. <<Message(p)>> \in Seq(Messages)
        BY <4>1
      <4>3. Items(<<Message(p)>>) \in ItemTypes /\ t \in ItemTypes /\ inbox[Host] \in Seq(ItemTypes)
        BY <4>2, ItemsTyped, Sequences
      <4> QED
        BY <4>3
    <3>2. inbox'[Host] = q \o <<t>>
      BY <1>4, <2>2
    <3> HIDE DEF q, t
    <3>3. Has(inbox'[Host], t)
      <4>1. inbox'[Host] = Append(q, t)
        BY <3>1, <3>2, AppendIsConcat
      <4> QED
        BY <3>1, <4>1, HasAppend
    <3> QED
      BY <1>1, <3>3, TurnIsThen DEF With, t
  <2> QED
    BY <2>1, <2>2
<1>8. TalkNow' = Append(TalkNow, Message(p)) /\ TalkNow \in Talk /\ Message(p).by = p
  BY TakeTalk, TalkType DEF Message
<1> QED
  BY <1>4, <1>5, <1>6, <1>7, <1>8, PastStays, Steps

LEMMA TurnsStep ==
  TypeOK /\ TurnInv /\ WaitInv /\ HeardInv /\ Asked /\ [Next]_vars
    => [Promised!Next]_(Promised!vars)
<1> SUFFICES ASSUME TypeOK, TurnInv, WaitInv, HeardInv, Asked, [Next]_vars
             PROVE  Promised!Next \/ UNCHANGED Promised!vars
  OBVIOUS
<1>1. hosted' = hosted
  BY HostedStays
<1>2. CASE hosted
  BY <1>1, <1>2 DEF Promised!Next
<1>3. CASE ~hosted
  <2>1. Turnings /\ Starts(deliveries) /\ (running \/ step = Empty)
    <3>1. TypeOK' /\ TurnInv'
      BY TypeStep, TurnStep
    <3> QED
      BY <1>1, <1>3, <3>1 DEF Turnings, TurnInv, NowOne, WaitInv, HeardInv, Asked
  <2>2. Same => UNCHANGED Promised!vars
    BY <1>1, Shows DEF Same, Shown
  <2>3. Promised!CallerSpeaks \/ Promised!HandOver \/ Promised!Finish \/ Promised!Save \/ Promised!GoBack
          \/ (\E p \in Participants : Promised!Pass(p) \/ Promised!Speak(p)) => Promised!Next
    BY <1>1 DEF Promised!Next
  <2>4. CASE Deliver
    BY <2>1, <2>2, <2>3, <2>4, DeliverTalks
  <2>5. CASE BeginStep
    <3>1. step = Empty
      BY <2>1, <2>5 DEF BeginStep
    <3> QED
      BY <2>1, <2>2, <2>5, <3>1, QueuesTalk
  <2>6. CASE EndStep
    BY <2>2, <2>3, <2>6, SaveTalks
  <2>7. CASE \E x \in Nodes : Accumulate(x)
    BY <2>1, <2>2, <2>7, HearsTalk
  <2>8. CASE HostActs
    BY <2>1, <2>3, <2>8, HostTalks
  <2>9. CASE \E p \in Participants : TakeTurn(p) \/ TakeAnswer(p)
    BY <2>1, <2>3, <2>9, TakeTalks
  <2>10. CASE Ask \/ (\E r \in Requests : Answer(r)) \/ UNCHANGED vars
    BY <2>2, <2>10, AskTalks
  <2>11. CASE Restore
    BY <2>3, <2>11, RestoreTalks
  <2>12. ~(\E new \in BOOLEAN, answers \in SetToAllKPermutations(Requests) : AgentTurn(new, answers))
         /\ ~CloseRun /\ ~AbortRun
    BY <1>3 DEF AgentTurn, CloseRun, AbortRun
  <2> QED
    BY <2>4, <2>5, <2>6, <2>7, <2>8, <2>9, <2>10, <2>11, <2>12 DEF Next, Step, HostActs
<1> QED
  BY <1>2, <1>3

\* The conversation starts with the caller, and nothing said.
LEMMA TurnsInit == Init => Promised!Init /\ Asked
<1> SUFFICES ASSUME Init PROVE Promised!Init /\ Asked
  OBVIOUS
<1>1. /\ inbox = Empty /\ step = Empty /\ held = [p \in Participants |-> FALSE] /\ history = <<>>
      /\ buf[Host] = <<>> /\ speaker = None /\ yielded = <<>> /\ deliveries = <<>>
      /\ saved.inbox = Empty /\ saved.held = held /\ saved.history = history /\ saved.buf = buf
      /\ saved.speaker = speaker /\ saved.yielded = yielded
  BY Empties DEF Init, Snapshot
<1>2. TurnNow = None
  <2>1. held \in [Participants -> BOOLEAN] /\ \A x \in Nodes : ~With(x, inbox, step, held)
    BY <1>1, AtEmpty DEF With
  <2> QED
    BY <2>1, TurnIs DEF TurnNow
<1>3. TalkNow = <<>>
  BY <1>1, Empties, JoinLaws DEF TalkNow, Talked
<1>4. PastNow = [turn |-> TurnNow, talk |-> TalkNow, last |-> speaker, told |-> yielded]
  BY <1>1 DEF PastNow, TurnNow, TalkNow, Talked, Join, Spoken
<1>5. Promised!Init
  BY <1>1, <1>2, <1>3, <1>4
     DEF Promised!Init, Promised!Now, TurnNow, TalkNow, Talked, Join, Spoken, PastNow
<1>6. Asked
  BY <1>1 DEF Asked, Starts
<1> QED
  BY <1>5, <1>6

\* To a caller who drives the run himself the group chat is one conversation in turns: nobody
\* speaks out of turn, the host lets nobody speak twice running, every transcript is all that
\* was said, and a restore takes the conversation back to its checkpoint, however the
\* executors' items interleave in the supersteps (groupchat.go, hosting.go).
THEOREM ChatIsAConversation == Spec => IsAConversation
<1>1. Init => TypeOK /\ TurnInv /\ WaitInv /\ HeardInv
  BY TypeInit, TurnInit, BooksInit, ChairInit, HeardInit DEF Init, HeardInv
<1>2. Init => Promised!Init /\ Asked
  BY TurnsInit
<1>3. TypeOK /\ TurnInv /\ WaitInv /\ HeardInv /\ Asked /\ [Next]_vars
        => (TypeOK /\ TurnInv /\ WaitInv /\ HeardInv /\ Asked)'
  BY TypeStep, TurnStep, WaitStep, HeardStep, AskedStep
<1> QED
  BY <1>1, <1>2, <1>3, TurnsStep, PTL DEF Spec, IsAConversation, Promised!Spec

=============================================================================
