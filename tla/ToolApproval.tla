------------------------------ MODULE ToolApproval ------------------------------
(***************************************************************************)
(* What the approval middleware (agent/harness/toolapproval) computes in a   *)
(* turn from its state in the session and what the caller sent. The state is *)
(* a record [rules, collected, queued]; the map of surfaced requests is kept *)
(* apart, because the middleware works on a copy of the record but on the    *)
(* session's own map (stateValue.readInto hands out the cached value).       *)
(*                                                                           *)
(* A request is named by the call it asks about (ficc_<call id>), a response *)
(* is <<call, approved>>. Rules are per tool: one for a tool with given      *)
(* arguments is a rule for a tool of its own.                                *)
(***************************************************************************)
EXTENDS Sequences, FiniteSets, Integers

CONSTANTS Calls,    \* function calls the model may make, each once
          Tools,    \* tools they name, all of them offered to the model
          ToolOf,   \* call -> its tool
          Guarded,  \* tools that require approval
          AutoRule  \* calls a configured AutoApprovalRule approves

ASSUME ToolsAssumption ==
  /\ IsFiniteSet(Calls)
  /\ ToolOf \in [Calls -> Tools]
  /\ Guarded \subseteq Tools
  /\ AutoRule \subseteq Calls

Kinds == {"yes", "no", "always"}

NoState == [rules |-> {}, collected |-> {}, queued |-> <<>>]

InQueue(queue) == {queue[k] : k \in DOMAIN queue}
CallsOf(responses) == {r[1] : r \in responses}
GuardedCall(c) == ToolOf[c] \in Guarded

\* isAutoApprovable
Approvable(rules, c) ==
  \/ ToolOf[c] \in rules
  \/ ~GuardedCall(c)
  \/ c \in AutoRule

\* bindApprovalResponse: an answer counts if its request is a surfaced one.
Bound(answers, surfaced) ==
  {<<c, answers[c] # "no">> : c \in DOMAIN answers \cap surfaced}

\* addApprovalRuleFromResponse
NewRules(answers, surfaced) ==
  {ToolOf[c] : c \in {d \in DOMAIN answers \cap surfaced : answers[d] = "always"}}

\* Mutant: the responses always stay in the caller's messages.
CollectsNever(s) == FALSE

\* prepareInbound: while requests are queued or responses held back, the
\* turn's responses join them; otherwise they stay in the caller's messages.
Collects(s) == s.queued # <<>> \/ s.collected # {}

PrepareInbound(s, answers, surfaced) ==
  [rules     |-> s.rules \cup NewRules(answers, surfaced),
   collected |-> s.collected \cup (IF Collects(s) THEN Bound(answers, surfaced) ELSE {}),
   queued    |-> s.queued]

KeptInMessages(s, answers, surfaced) ==
  IF Collects(s) THEN {} ELSE Bound(answers, surfaced)

\* The queue without the calls in D, in its order (SelectSeq, as a function that
\* a proof can follow).
Without(queue, D) ==
  LET kept[k \in 0..Len(queue)] ==
        IF k = 0 THEN <<>>
        ELSE IF queue[k] \in D THEN kept[k - 1] ELSE Append(kept[k - 1], queue[k])
  IN kept[Len(queue)]

\* The requests among these that somebody has to be asked about, in order.
NeedsApproval(s, requests) == Without(requests, {c \in Calls : Approvable(s.rules, c)})

\* The approvals for the others.
Approvals(s, requests) ==
  {<<c, TRUE>> : c \in {d \in InQueue(requests) : Approvable(s.rules, d)}}

\* Mutant: the queue is not looked at again.
DrainNot(s) == s

\* drainAutoApprovable
Drain(s) ==
  [rules     |-> s.rules,
   collected |-> s.collected \cup Approvals(s, s.queued),
   queued    |-> NeedsApproval(s, s.queued)]

\* Mutant: the surfaced request waits in the queue too.
WaitingAll(s, requests) == s.queued \o NeedsApproval(s, requests)

\* The classification of the requests an inner run came back with: the first
\* that needs approval is surfaced, the others wait in the queue.
Waiting(s, requests) ==
  LET needs == NeedsApproval(s, requests)
  IN IF needs = <<>> THEN s.queued ELSE s.queued \o Tail(needs)

Classified(s, requests) ==
  [rules     |-> s.rules,
   collected |-> s.collected \cup Approvals(s, requests),
   queued    |-> Waiting(s, requests)]
=============================================================================
