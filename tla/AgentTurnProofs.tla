----------------------------- MODULE AgentTurnProofs -----------------------------
(***************************************************************************)
(* The safety of AgentTurn for any calls, tools, rules and bounds. OneOutcome *)
(* follows from where a call may be: the books of the inner middleware, the   *)
(* batch and what was done are disjoint. ConsentedOnly follows from what an   *)
(* approval in any of the books goes back to. The others rest on what a       *)
(* queue has left when calls are taken out of it (WithoutIsFilter).           *)
(***************************************************************************)
EXTENDS AgentTurn, FiniteSetTheorems, WellFoundedInduction, TLAPS

-----------------------------------------------------------------------------
(* One outcome                                                             *)

\* A call is in one place: it waits for its answer, beside others that do, for
\* its invocation, or it was invoked or refused.
OneInv ==
  /\ ran \in [Calls -> {0, 1}]
  /\ called \subseteq Calls
  /\ pending \cup auto \cup todo \cup refused \subseteq called
  /\ \A c \in Calls : ran[c] = 1 => c \in called \ (pending \cup auto \cup todo \cup refused)
  /\ refused \cap (pending \cup auto \cup todo) = {}
  /\ pending \cap (auto \cup todo) = {}
  /\ auto \cap todo = {}

\* The initial state has no calls.
LEMMA OneInit == Init => OneInv
  BY DEF Init, OneInv

\* Every action leaves a call in one place (autocall.run and what it calls).
LEMMA OneStep == OneInv /\ [Next]_vars => OneInv'
<1> SUFFICES ASSUME OneInv, [Next]_vars PROVE OneInv'
  OBVIOUS
<1> USE DEF OneInv
<1>1. CASE UNCHANGED vars
  BY <1>1 DEF vars, session, history, batch, caller, doings, inject, run
<1>2. ASSUME NEW answers \in Answers, Receive(answers) PROVE OneInv'
  BY <1>2 DEF Receive, history, doings
<1>3. CASE Surface
  BY <1>3 DEF Surface, Ends, history, doings
<1>4. CASE Enter
  BY <1>4 DEF Enter, session, history, batch, doings
<1>5. CASE RuleFails
  BY <1>5 DEF RuleFails, EndsInError, Ends, history, doings
<1>6. CASE Classify
  BY <1>6 DEF Classify, Ends, history, doings, batch
<1>7. CASE InnerFails
  BY <1>7 DEF InnerFails, EndsInError, Ends, history, doings
<1>8. CASE Bind
  BY <1>8 DEF Bind, StillPending, StillAuto, history
<1>9. ASSUME NEW c \in Calls, NEW how \in {"ok", "error", "terminate"}, RunTool(c, how)
      PROVE OneInv'
  BY <1>9 DEF RunTool, session, history
<1>10. CASE EndBatch
  BY <1>10 DEF EndBatch, session, history, doings
<1>11. CASE BatchFails
  BY <1>11 DEF BatchFails, Ends, session, history, doings
<1>12. CASE Terminate
  BY <1>12 DEF Terminate, Ends, history, doings
<1>13. CASE CallModel
  BY <1>13 DEF CallModel, session, history, batch, doings
<1>14. CASE ModelFails
  BY <1>14 DEF ModelFails, EndsInError, Ends, history, doings
<1>15. CASE ModelText
  BY <1>15 DEF ModelText, Persist, Ends, doings
<1>16. ASSUME NEW new \in SUBSET Calls, ModelCalls(new) PROVE OneInv'
  BY <1>16 DEF ModelCalls, Persist, RecordSafe, doings
<1>17. ASSUME NEW new \in SUBSET Calls, NEW read \in SUBSET new, Abandon(new, read)
       PROVE OneInv'
  BY <1>17 DEF Abandon, Persist, Ends, RecordSafe, doings
<1>18. CASE Enqueue
  BY <1>18 DEF Enqueue, session, history, batch, doings
<1>19. CASE Cancel
  BY <1>19 DEF Cancel, session, history, batch, doings
<1>20. CASE Reload
  BY <1>20 DEF Reload, history, batch, doings
<1> QED
  BY <1>1, <1>2, <1>3, <1>4, <1>5, <1>6, <1>7, <1>8, <1>9, <1>10, <1>11, <1>12, <1>13, <1>14,
     <1>15, <1>16, <1>17, <1>18, <1>19, <1>20 DEF Next

\* OneOutcome: a call is invoked at most once and never after a refusal, in any
\* number of turns, failures, cancellations, abandoned streams and reloads.
THEOREM CallsHaveOneOutcome == Spec => []OneOutcome
<1>1. OneInv => OneOutcome
  BY DEF OneInv, OneOutcome
<1> QED
  BY OneInit, OneStep, <1>1, PTL DEF Spec

-----------------------------------------------------------------------------
(* Consent                                                                 *)

\* A state of the approval middleware is the record of its three books.
IsState(s) == s = [rules |-> s.rules, collected |-> s.collected, queued |-> s.queued]

\* A call that may run: its tool is safe, or it was agreed to.
Cleared(c) == GuardedCall(c) => Agreed(c)

\* Rules go back to a promise, approvals and calls on their way to their tool
\* to an agreement.
ConsentInv ==
  /\ IsState(saved) /\ IsState(st)
  /\ saved.rules \cup st.rules \subseteq promised
  /\ \A c \in Calls : <<c, TRUE>> \in saved.collected \cup st.collected \cup mine => Cleared(c)
  /\ \A c \in auto \cup todo : Cleared(c)
  /\ auto \cup todo \cup pending \subseteq Calls
  /\ ran \in [Calls -> Nat]
  /\ \A c \in Calls : ran[c] > 0 => Cleared(c)

\* Nothing is approved in the initial state.
LEMMA ConsentInit == Init => ConsentInv
  BY DEF Init, ConsentInv, NoState, IsState

\* What a turn collects from its caller goes back to his answers.
LEMMA InboundIsAgreed ==
  ASSUME NEW s, IsState(s), NEW answers \in Answers, NEW known
  PROVE  /\ IsState(PrepareInbound(s, answers, known))
         /\ PrepareInbound(s, answers, known).rules = s.rules \cup NewRules(answers, known)
         /\ \A c : <<c, TRUE>> \in PrepareInbound(s, answers, known).collected
                           \cup KeptInMessages(s, answers, known) =>
              \/ <<c, TRUE>> \in s.collected
              \/ c \in {d \in DOMAIN answers : answers[d] # "no"}
  BY DEF PrepareInbound, KeptInMessages, Bound, IsState

\* What is drained or classified as approved is covered by a rule.
LEMMA DrainedIsApprovable ==
  ASSUME NEW s, IsState(s)
  PROVE  /\ IsState(Drain(s)) /\ Drain(s).rules = s.rules
         /\ \A c : <<c, TRUE>> \in Drain(s).collected =>
              <<c, TRUE>> \in s.collected \/ Approvable(s.rules, c)
  BY DEF Drain, Approvals, IsState

\* A call that Classify approves is approvable.
LEMMA ClassifiedIsApprovable ==
  ASSUME NEW s, IsState(s), NEW requests
  PROVE  /\ IsState(Classified(s, requests)) /\ Classified(s, requests).rules = s.rules
         /\ \A c : <<c, TRUE>> \in Classified(s, requests).collected =>
              <<c, TRUE>> \in s.collected \/ Approvable(s.rules, c)
  BY DEF Classified, Approvals, IsState

\* Nobody's agreement is taken back.
LEMMA AgreementStays ==
  ASSUME NEW c, Cleared(c), consent \subseteq consent', promised \subseteq promised'
  PROVE  Cleared(c)'
  BY DEF Cleared, Agreed, GuardedCall

\* What the rules of a state approve is cleared.
LEMMA ApprovableIsCleared ==
  ASSUME NEW c, NEW rules, rules \subseteq promised, Approvable(rules, c)
  PROVE  Cleared(c)
  BY DEF Approvable, Cleared, Agreed

\* Steps that leave the approval books as they are and clear nothing less.
LEMMA ConsentStep == ConsentInv /\ OneInv /\ [Next]_vars => ConsentInv'
<1> SUFFICES ASSUME ConsentInv, OneInv, [Next]_vars PROVE ConsentInv'
  OBVIOUS
<1> USE DEF ConsentInv, OneInv
<1>a. \A c : Cleared(c) /\ consent \subseteq consent' /\ promised \subseteq promised' => Cleared(c)'
  BY AgreementStays
<1>b. \A c, rules : rules \subseteq promised /\ Approvable(rules, c) => Cleared(c)
  BY ApprovableIsCleared
<1>c. /\ IsState(Drain(st)) /\ Drain(st).rules = st.rules
      /\ \A c \in Calls : <<c, TRUE>> \in Drain(st).collected => Cleared(c)
  BY DrainedIsApprovable, <1>b
<1>1. CASE UNCHANGED vars
  BY <1>1, <1>a DEF vars, session, history, batch, caller, doings, inject, run
<1>2. ASSUME NEW answers \in Answers, Receive(answers) PROVE ConsentInv'
  <2>1. consent \subseteq consent' /\ promised \subseteq promised'
    BY <1>2 DEF Receive
  <2>2. st'.rules \subseteq promised' /\ IsState(st')
    BY <1>2, InboundIsAgreed DEF Receive
  <2>3. \A c \in Calls : <<c, TRUE>> \in st'.collected \cup mine' =>
          <<c, TRUE>> \in saved.collected \/ c \in consent'
    <3>1. \A c : <<c, TRUE>> \in PrepareInbound(saved, answers, surfaced).collected
                                \cup KeptInMessages(saved, answers, surfaced) =>
                   \/ <<c, TRUE>> \in saved.collected
                   \/ c \in {d \in DOMAIN answers : answers[d] # "no"}
      BY InboundIsAgreed
    <3>2. /\ st' = PrepareInbound(saved, answers, surfaced)
          /\ mine' = KeptInMessages(saved, answers, surfaced)
          /\ consent' = consent \cup {c \in DOMAIN answers : answers[c] # "no"}
      BY <1>2 DEF Receive
    <3> QED
      BY ONLY <3>1, <3>2
  <2>4. \A c : c \in consent' => Cleared(c)'
    BY DEF Cleared, Agreed
  <2> QED
    BY <1>2, <1>a, <2>1, <2>2, <2>3, <2>4 DEF Receive, doings, history
<1>3. CASE Surface
  <2>1. /\ saved' = [Drain(st) EXCEPT !.queued = Tail(@)]
        /\ st' = saved'
    BY <1>3 DEF Surface, Save
  <2>2. /\ IsState(saved') /\ saved'.rules = st.rules
        /\ saved'.collected = Drain(st).collected
    BY <2>1, <1>c DEF IsState
  <2> QED
    BY <1>3, <1>a, <1>c, <2>1, <2>2 DEF Surface, Ends, doings
<1>4. CASE Enter
  BY <1>4, <1>a, <1>c DEF Enter, session, batch, caller, doings
<1>5. CASE RuleFails
  BY <1>5, <1>a DEF RuleFails, EndsInError, Ends, doings
<1>6. CASE Classify
  <2> DEFINE s == Classified(st, asked)
  <2>1. /\ IsState(s) /\ s.rules = st.rules
        /\ \A c \in Calls : <<c, TRUE>> \in s.collected => Cleared(c)
    BY ClassifiedIsApprovable, <1>b
  <2>2. st' \in {st, s} /\ saved' \in {saved, st'} /\ mine' \subseteq mine
    BY <1>6 DEF Classify, Save, Ends
  <2>3. auto' = auto /\ todo' \subseteq todo /\ pending' = pending
        /\ ran' = ran /\ consent' = consent /\ promised' = promised
    BY <1>6 DEF Classify, Ends, doings, batch
  <2> QED
    BY <1>a, <2>1, <2>2, <2>3
<1>7. CASE InnerFails
  BY <1>7, <1>a DEF InnerFails, EndsInError, Ends, doings
<1>8. CASE Bind
  <2>1. /\ IsState(st') /\ st'.rules = st.rules /\ st'.collected = {}
    BY <1>8 DEF Bind, IsState
  <2>2. \A c \in todo' : c \in Calls /\ Cleared(c)
    BY <1>8 DEF Bind
  <2> QED
    BY <1>8, <1>a, <2>1, <2>2 DEF Bind, StillPending, StillAuto, caller
<1>9. ASSUME NEW c \in Calls, NEW how \in {"ok", "error", "terminate"}, RunTool(c, how)
      PROVE ConsentInv'
  <2>1. /\ ran' \in [Calls -> Nat] /\ Cleared(c)
        /\ \A d \in Calls : ran'[d] > 0 => d = c \/ ran[d] > 0
    BY <1>9 DEF RunTool
  <2>2. todo' \subseteq todo /\ mine' = mine
        /\ UNCHANGED <<saved, st, auto, pending, consent, promised>>
    BY <1>9 DEF RunTool, session, run, caller
  <2> QED
    BY <1>a, <2>1, <2>2
<1>10. CASE EndBatch
  BY <1>10, <1>a DEF EndBatch, session, run, caller, doings
<1>11. CASE BatchFails
  BY <1>11, <1>a DEF BatchFails, Ends, session, doings
<1>12. CASE Terminate
  BY <1>12, <1>a DEF Terminate, Save, Ends, doings
<1>13. CASE CallModel
  BY <1>13, <1>a DEF CallModel, session, batch, caller, doings
<1>14. CASE ModelFails
  BY <1>14, <1>a DEF ModelFails, EndsInError, Ends, doings
<1>15. CASE ModelText
  BY <1>15, <1>a DEF ModelText, Save, Ends, doings
<1>16. ASSUME NEW new \in SUBSET Calls, ModelCalls(new) PROVE ConsentInv'
  <2>1. \A c \in new : ~GuardedCall(c) => Cleared(c)
    BY DEF Cleared
  <2> QED
    BY <1>16, <1>a, <2>1 DEF ModelCalls, RecordSafe, caller, doings
<1>17. ASSUME NEW new \in SUBSET Calls, NEW read \in SUBSET new, Abandon(new, read)
       PROVE ConsentInv'
  <2>1. \A c \in new : ~GuardedCall(c) => Cleared(c)
    BY DEF Cleared
  <2> QED
    BY <1>17, <1>a, <2>1 DEF Abandon, Save, Ends, RecordSafe, doings
<1>18. CASE Enqueue
  BY <1>18, <1>a DEF Enqueue, session, batch, run, caller, doings
<1>19. CASE Cancel
  BY <1>19, <1>a DEF Cancel, session, batch, caller, doings
<1>20. CASE Reload
  BY <1>20, <1>a DEF Reload, batch, run, caller, doings
<1> QED
  BY <1>1, <1>2, <1>3, <1>4, <1>5, <1>6, <1>7, <1>8, <1>9, <1>10, <1>11, <1>12, <1>13, <1>14,
     <1>15, <1>16, <1>17, <1>18, <1>19, <1>20 DEF Next

\* ConsentedOnly: a guarded tool is called only for a call that the caller, a
\* promise of his, or a configured rule agreed to.
THEOREM GuardedCallsHaveConsent == Spec => []ConsentedOnly
<1>1. ConsentInv => ConsentedOnly
  BY DEF ConsentInv, ConsentedOnly, Cleared
<1> QED
  BY OneInit, OneStep, ConsentInit, ConsentStep, <1>1, PTL DEF Spec

-----------------------------------------------------------------------------
(* Queues                                                                  *)

\* Every nonempty set of naturals has a least element.
LEMMA Least ==
  ASSUME NEW T, T \subseteq Nat, T # {}
  PROVE  \E x \in T : \A y \in T : x <= y
<1>1. PICK less : /\ IsWellFoundedOn(less, Nat)
                  /\ \A x, y \in Nat : <<x, y>> \in less <=> x < y
  <2>1. \A x, y \in Nat : <<x, y>> \in OpToRel(<, Nat) <=> x < y
    BY DEF OpToRel
  <2> QED
    BY <2>1, NatLessThanWellFounded
<1>2. IsWellFoundedOn(less, Nat)
  BY <1>1
<1>3. \E x \in T : \A y \in T : ~ (<<y, x>> \in less)
  BY ONLY <1>2, WFMin, T \subseteq Nat, T # {}
<1>4. PICK x \in T : \A y \in T : <<y, x>> \notin less
  BY <1>3
<1>5. ASSUME NEW y \in T PROVE x <= y
  <2>1. x \in Nat /\ y \in Nat
    OBVIOUS
  <2>2. <<y, x>> \in less <=> y < x
    BY <1>1, <2>1, Zenon
  <2>3. ~(y < x)
    BY <2>2, <1>4, Zenon
  <2> QED
    BY <2>1, <2>3
<1> QED
  BY <1>5

\* f is the function by which Without is defined, for the first n of s.
Up(f, s, D, n) ==
  f = [k \in 0..n |->
         IF k = 0 THEN <<>> ELSE IF s[k] \in D THEN f[k - 1] ELSE Append(f[k - 1], s[k])]

\* There is such a function.
LEMMA UpExists ==
  ASSUME NEW s, NEW D, NEW n \in Nat PROVE \E f : Up(f, s, D, n)
<1> DEFINE T == {m \in Nat : ~ \E f : Up(f, s, D, m)}
<1>1. SUFFICES ASSUME T # {} PROVE FALSE
  OBVIOUS
<1>2. PICK m \in T : \A k \in T : m <= k
  <2>1. T \subseteq Nat OBVIOUS
  <2> HIDE DEF T
  <2> QED BY <1>1, <2>1, Least
<1>3. m # 0
  <2> DEFINE f == [k \in 0..0 |-> <<>>]
  <2>1. Up(f, s, D, 0)
    BY DEF Up
  <2> QED BY <2>1
<1>4. PICK g : Up(g, s, D, m - 1)
  BY <1>2, <1>3
<1> DEFINE f == [k \in 0..m |-> IF k < m THEN g[k] ELSE IF s[m] \in D THEN g[m - 1] ELSE Append(g[m - 1], s[m])]
<1>5. m \in Nat \ {0} /\ m - 1 \in 0..m /\ m - 1 < m
  BY <1>3
<1>6. \A k \in 0..m : k # m => f[k] = g[k]
  OBVIOUS
<1>7. \A k \in 0..m : f[k] = IF k = 0 THEN <<>> ELSE IF s[k] \in D THEN f[k - 1] ELSE Append(f[k - 1], s[k])
  <2> SUFFICES ASSUME NEW k \in 0..m
               PROVE  f[k] = IF k = 0 THEN <<>> ELSE IF s[k] \in D THEN f[k - 1] ELSE Append(f[k - 1], s[k])
    OBVIOUS
  <2>1. CASE k = m
    <3>1. f[k - 1] = g[k - 1] BY <2>1, <1>5
    <3> QED BY <3>1, <2>1, <1>5
  <2>2. CASE k # m
    <3>0. k \in 0..(m-1) /\ k < m BY <2>2
    <3>1. f[k] = g[k] BY <3>0
    <3>2. k # 0 => f[k - 1] = g[k - 1] BY <3>0
    <3>3. g[k] = IF k = 0 THEN <<>> ELSE IF s[k] \in D THEN g[k - 1] ELSE Append(g[k - 1], s[k])
      BY <1>4, <3>0 DEF Up
    <3> HIDE DEF f
    <3> QED BY <3>1, <3>2, <3>3
  <2> QED BY <2>1, <2>2
<1>8. f = [k \in 0..m |-> f[k]]
  OBVIOUS
<1> HIDE DEF f
<1>9. Up(f, s, D, m) BY <1>7, <1>8 DEF Up
<1> QED BY <1>9

\* A queue with one call more.
LEMMA AppendQueue ==
  ASSUME NEW S, NEW q \in Seq(S), NEW c \in S
  PROVE  Append(q, c) \in Seq(S) /\ InQueue(Append(q, c)) = InQueue(q) \cup {c}
<1>1. /\ Len(q) \in Nat /\ DOMAIN q = 1..Len(q) /\ DOMAIN Append(q, c) = 1..(Len(q) + 1)
      /\ \A k \in 1..Len(q) : Append(q, c)[k] = q[k]
      /\ Append(q, c)[Len(q) + 1] = c
  OBVIOUS
<1>2. 1..(Len(q) + 1) = 1..Len(q) \cup {Len(q) + 1}
  BY <1>1
<1> QED
  BY <1>1, <1>2 DEF InQueue

\* A queue of nothing.
LEMMA EmptyQueue ==
  ASSUME NEW S, NEW q \in Seq(S)
  PROVE  InQueue(q) = {} <=> q = <<>>
<1>1. DOMAIN q = 1..Len(q) /\ Len(q) \in Nat /\ (q = <<>> <=> Len(q) = 0)
  OBVIOUS
<1>2. Len(q) # 0 => q[1] \in InQueue(q)
  BY <1>1 DEF InQueue
<1>3. Len(q) = 0 => DOMAIN q = {}
  BY <1>1
<1>4. DOMAIN q = {} => InQueue(q) = {}
  BY DEF InQueue
<1> QED
  BY <1>1, <1>2, <1>3, <1>4

\* A queue is its head and the rest.
LEMMA HeadAndTail ==
  ASSUME NEW S, NEW q \in Seq(S), q # <<>>
  PROVE  /\ Head(q) \in S /\ Tail(q) \in Seq(S) /\ <<>> \o Tail(q) = Tail(q)
         /\ InQueue(q) = {Head(q)} \cup InQueue(Tail(q))
<1>1. /\ Len(q) \in Nat \ {0} /\ DOMAIN q = 1..Len(q) /\ Head(q) = q[1] /\ Head(q) \in S
      /\ Tail(q) \in Seq(S) /\ DOMAIN Tail(q) = 1..(Len(q) - 1)
      /\ \A k \in 1..(Len(q) - 1) : Tail(q)[k] = q[k + 1]
  OBVIOUS
<1>2. <<>> \o Tail(q) = Tail(q)
  BY <1>1
<1>3. InQueue(q) \subseteq {Head(q)} \cup InQueue(Tail(q))
  <2> SUFFICES ASSUME NEW k \in 1..Len(q) PROVE q[k] \in {Head(q)} \cup InQueue(Tail(q))
    BY <1>1 DEF InQueue
  <2>1. CASE k = 1
    BY <1>1, <2>1
  <2>2. CASE k # 1
    <3>1. k - 1 \in 1..(Len(q) - 1) /\ Tail(q)[k - 1] = q[k]
      BY <1>1, <2>2
    <3> QED
      BY <1>1, <3>1 DEF InQueue
  <2> QED
    BY <2>1, <2>2
<1>4. {Head(q)} \cup InQueue(Tail(q)) \subseteq InQueue(q)
  <2>1. \A k \in 1..(Len(q) - 1) : k + 1 \in 1..Len(q)
    BY <1>1
  <2>2. 1 \in 1..Len(q)
    BY <1>1
  <2> QED
    BY <1>1, <2>1, <2>2 DEF InQueue
<1> QED
  BY <1>1, <1>2, <1>3, <1>4

\* What is left of a queue: a queue of the calls that were not to be taken out.
LEMMA WithoutIsFilter ==
  ASSUME NEW S, NEW s \in Seq(S), NEW D
  PROVE  Without(s, D) \in Seq(S) /\ InQueue(Without(s, D)) = InQueue(s) \ D
<1> DEFINE f == CHOOSE g : Up(g, s, D, Len(s))
           First(k) == {s[i] : i \in 1..k}
           Right(k) == f[k] \in Seq(S) /\ InQueue(f[k]) = First(k) \ D
           T == {k \in 0..Len(s) : ~Right(k)}
<1>1. Len(s) \in Nat /\ DOMAIN s = 1..Len(s) /\ \A k \in 1..Len(s) : s[k] \in S
  OBVIOUS
<1>2. Up(f, s, D, Len(s))
  BY <1>1, UpExists
<1>3. Without(s, D) = f[Len(s)]
  BY DEF Without, Up
<1>4. \A k \in 0..Len(s) : f[k] = IF k = 0 THEN <<>> ELSE IF s[k] \in D THEN f[k - 1] ELSE Append(f[k - 1], s[k])
  BY <1>2 DEF Up
<1> HIDE DEF f
<1>5. T = {}
  <2> SUFFICES ASSUME T # {} PROVE FALSE
    OBVIOUS
  <2>1. PICK m \in T : \A k \in T : m <= k
    <3>1. T \subseteq Nat BY <1>1
    <3> HIDE DEF T
    <3> QED BY <3>1, Least
  <2>2. m \in 0..Len(s) /\ ~Right(m)
    OBVIOUS
  <2>3. m # 0
    <3>1. f[0] = <<>> BY <1>1, <1>4
    <3>2. First(0) = {} OBVIOUS
    <3>3. Right(0) BY <3>1, <3>2 DEF InQueue
    <3> QED BY <3>3, <2>2
  <2>4. m - 1 \in 0..Len(s) /\ m \in 1..Len(s) /\ ~(m <= m - 1)
    BY <2>2, <2>3, <1>1
  <2>5. Right(m - 1)
    BY <2>1, <2>4
  <2>6. First(m) = First(m - 1) \cup {s[m]}
    <3>1. 1..m = 1..(m - 1) \cup {m} BY <2>4
    <3> QED BY <3>1
  <2>7. s[m] \in S BY <1>1, <2>4
  <2>8. f[m] = IF s[m] \in D THEN f[m - 1] ELSE Append(f[m - 1], s[m])
    BY <1>4, <2>2, <2>3
  <2> HIDE DEF First
  <2>9. CASE s[m] \in D
    BY <2>5, <2>6, <2>8, <2>9, <2>2
  <2>10. CASE s[m] \notin D
    <3>1. /\ Append(f[m - 1], s[m]) \in Seq(S)
          /\ InQueue(Append(f[m - 1], s[m])) = InQueue(f[m - 1]) \cup {s[m]}
      BY <2>5, <2>7, AppendQueue
    <3> QED BY <3>1, <2>5, <2>6, <2>8, <2>10, <2>2
  <2> QED BY <2>9, <2>10
<1>6. Right(Len(s))
  <2>1. Len(s) \in 0..Len(s)
    BY <1>1
  <2> HIDE DEF Right
  <2> QED
    BY <2>1, <1>5
<1>7. First(Len(s)) = InQueue(s)
  BY <1>1 DEF InQueue
<1> QED
  BY <1>3, <1>6, <1>7

-----------------------------------------------------------------------------
(* Types                                                                   *)

\* The calls a state approves by itself.
Passed(s) == {c \in Calls : Approvable(s.rules, c)}

\* The approvals it gives them.
LEMMA ApprovalsOfPassed ==
  ASSUME NEW s, NEW q \in Seq(Calls)
  PROVE  /\ InQueue(q) \subseteq Calls
         /\ Approvals(s, q) = {<<c, TRUE>> : c \in InQueue(q) \cap Passed(s)}
         /\ Approvals(s, q) \subseteq Calls \X BOOLEAN
         /\ CallsOf(Approvals(s, q)) = InQueue(q) \cap Passed(s)
<1>1. InQueue(q) \subseteq Calls
  BY DEF InQueue
<1>2. Approvals(s, q) = {<<c, TRUE>> : c \in InQueue(q) \cap Passed(s)}
  BY <1>1 DEF Approvals, Passed
<1>3. ASSUME NEW A PROVE CallsOf({<<c, TRUE>> : c \in A}) = A
  <2> DEFINE P == {<<c, TRUE>> : c \in A}
  <2>1. ASSUME NEW r \in P PROVE r[1] \in A
    <3>1. PICK c \in A : r = <<c, TRUE>>
      BY Zenon
    <3> QED
      BY <3>1
  <2>2. \A c \in A : <<c, TRUE>> \in P /\ <<c, TRUE>>[1] = c
    OBVIOUS
  <2> HIDE DEF P
  <2>3. CallsOf(P) = A
    BY <2>1, <2>2 DEF CallsOf
  <2> QED
    BY <2>3 DEF P
<1>4. ASSUME NEW A, A \subseteq Calls PROVE {<<c, TRUE>> : c \in A} \subseteq Calls \X BOOLEAN
  <2>1. \A c \in A : <<c, TRUE>> \in Calls \X BOOLEAN
    BY <1>4
  <2> QED
    BY <2>1, Zenon
<1> QED
  BY <1>1, <1>2, <1>3, <1>4

\* Draining takes what the rules approve from the queue to the responses.
LEMMA DrainMoves ==
  ASSUME NEW s \in StateTypes
  PROVE  /\ Drain(s) \in StateTypes /\ Drain(s).rules = s.rules
         /\ InQueue(Drain(s).queued) = InQueue(s.queued) \ Passed(s)
         /\ CallsOf(Drain(s).collected) = CallsOf(s.collected) \cup (InQueue(s.queued) \cap Passed(s))
         /\ s.queued = <<>> => Drain(s).queued = <<>>
<1>1. /\ s.queued \in Seq(Calls) /\ s.collected \subseteq Calls \X BOOLEAN /\ s.rules \subseteq Tools
  BY DEF StateTypes
<1>2. /\ NeedsApproval(s, s.queued) \in Seq(Calls)
      /\ InQueue(NeedsApproval(s, s.queued)) = InQueue(s.queued) \ Passed(s)
  BY <1>1, WithoutIsFilter DEF NeedsApproval, Passed
<1>3. /\ Approvals(s, s.queued) \subseteq Calls \X BOOLEAN
      /\ CallsOf(Approvals(s, s.queued)) = InQueue(s.queued) \cap Passed(s)
  BY <1>1, ApprovalsOfPassed
<1>4. \A r1, r2 : CallsOf(r1 \cup r2) = CallsOf(r1) \cup CallsOf(r2)
  BY DEF CallsOf
<1>5. s.queued = <<>> => NeedsApproval(s, s.queued) = <<>>
  <2>1. s.queued = <<>> => InQueue(s.queued) = {}
    BY <1>1, EmptyQueue
  <2>2. InQueue(NeedsApproval(s, s.queued)) = {} => NeedsApproval(s, s.queued) = <<>>
    BY <1>2, EmptyQueue
  <2> QED
    BY <1>2, <2>1, <2>2
<1>6. /\ Drain(s).rules = s.rules /\ Drain(s).queued = NeedsApproval(s, s.queued)
      /\ Drain(s).collected = s.collected \cup Approvals(s, s.queued)
      /\ Drain(s) = [rules |-> Drain(s).rules, collected |-> Drain(s).collected, queued |-> Drain(s).queued]
  BY DEF Drain
<1> QED
  BY <1>1, <1>2, <1>3, <1>4, <1>5, <1>6 DEF StateTypes

\* Classifying splits the requests of a run the same way: the first that is left is
\* to be surfaced, the others are queued.
LEMMA ClassifyMoves ==
  ASSUME NEW s \in StateTypes, NEW q \in Seq(Calls), s.queued = <<>>
  PROVE  LET needs == NeedsApproval(s, q)
         IN /\ needs \in Seq(Calls) /\ InQueue(needs) = InQueue(q) \ Passed(s)
            /\ Classified(s, q) \in StateTypes /\ Classified(s, q).rules = s.rules
            /\ CallsOf(Classified(s, q).collected) = CallsOf(s.collected) \cup (InQueue(q) \cap Passed(s))
            /\ needs = <<>> => Classified(s, q).queued = <<>>
            /\ needs # <<>> => /\ Classified(s, q).queued = Tail(needs)
                               /\ InQueue(needs) = {Head(needs)} \cup InQueue(Tail(needs))
                               /\ Head(needs) \in Calls
<1> DEFINE needs == NeedsApproval(s, q)
<1>1. /\ s.collected \subseteq Calls \X BOOLEAN /\ s.rules \subseteq Tools
  BY DEF StateTypes
<1>2. /\ needs \in Seq(Calls)
      /\ InQueue(needs) = InQueue(q) \ Passed(s)
  BY <1>1, WithoutIsFilter DEF NeedsApproval, Passed
<1>3. /\ Approvals(s, q) \subseteq Calls \X BOOLEAN
      /\ CallsOf(Approvals(s, q)) = InQueue(q) \cap Passed(s)
  BY <1>1, ApprovalsOfPassed
<1>4. \A r1, r2 : CallsOf(r1 \cup r2) = CallsOf(r1) \cup CallsOf(r2)
  BY DEF CallsOf
<1>5. /\ Classified(s, q).rules = s.rules
      /\ Classified(s, q).queued = IF needs = <<>> THEN <<>> ELSE <<>> \o Tail(needs)
      /\ Classified(s, q).collected = s.collected \cup Approvals(s, q)
      /\ Classified(s, q) = [rules |-> Classified(s, q).rules, collected |-> Classified(s, q).collected,
                             queued |-> Classified(s, q).queued]
  BY DEF Classified, Waiting
<1> HIDE DEF needs
<1>6. needs # <<>> => /\ Tail(needs) \in Seq(Calls) /\ <<>> \o Tail(needs) = Tail(needs)
                      /\ InQueue(needs) = {Head(needs)} \cup InQueue(Tail(needs))
                      /\ Head(needs) \in Calls
  BY <1>2, HeadAndTail
<1>7. Classified(s, q).queued \in Seq(Calls)
  BY <1>5, <1>6
<1>8. Classified(s, q) \in StateTypes
  BY <1>1, <1>3, <1>5, <1>7 DEF StateTypes
<1> QED
  BY <1>2, <1>3, <1>4, <1>5, <1>6, <1>8 DEF needs

\* Where a run keeps what, at each point of it.
PhaseInv ==
  /\ pc # "tools" => todo = {}
  /\ pc # "idle" => handed = {}
  /\ pc # "classify" => asked = <<>>
  /\ pc = "idle" => st = saved /\ mine = {} /\ results = {}
  /\ pc \in {"tools", "model", "calling", "classify"} => mine = {} /\ st.collected = {}
  /\ pc \notin {"idle", "turn"} => st.queued = <<>>
  /\ mine # {} => st.queued = <<>>
  /\ pc = "classify" => results = {}
  /\ erred => pc = "tools" /\ (cancelled \/ failures < MaxFailures)

\* What the books of a session and of a run have to do with each other: the caller was
\* shown what is surfaced, also according to the JSON, and a run queues nothing that it
\* does not save.
BookInv ==
  /\ results \cup handed \subseteq called
  /\ surfaced \cup UNION raw \subseteq shown
  /\ raw # {} => surfaced \subseteq UNION raw
  /\ InQueue(st.queued) \subseteq InQueue(saved.queued)
  /\ cancelled => failures > 0

\* The invariant of the types: one outcome, types, phases and books.
TInv == OneInv /\ TypeOK /\ PhaseInv /\ BookInv

\* What the caller's answers bring into the books.
LEMMA InboundMoves ==
  ASSUME NEW s \in StateTypes, NEW answers \in Answers, NEW known, known \subseteq Calls
  PROVE  LET t    == PrepareInbound(s, answers, known)
             kept == KeptInMessages(s, answers, known)
         IN /\ t \in StateTypes /\ t.queued = s.queued
            /\ t.rules = s.rules \cup NewRules(answers, known)
            /\ kept \subseteq Calls \X BOOLEAN
            /\ kept # {} => s.queued = <<>>
            /\ CallsOf(s.collected) \cup (known \cap DOMAIN answers) \subseteq CallsOf(t.collected \cup kept)
<1> DEFINE bound == Bound(answers, known)
           t == PrepareInbound(s, answers, known)
           kept == KeptInMessages(s, answers, known)
<1>1. /\ s.queued \in Seq(Calls) /\ s.collected \subseteq Calls \X BOOLEAN /\ s.rules \subseteq Tools
  BY DEF StateTypes
<1>2. \A c \in DOMAIN answers \cap known : <<c, answers[c] # "no">> \in Calls \X BOOLEAN
  OBVIOUS
<1>3. bound \subseteq Calls \X BOOLEAN
  BY <1>2, Zenon DEF Bound
<1>4. \A c \in DOMAIN answers \cap known : c \in CallsOf(bound)
  <2> SUFFICES ASSUME NEW c \in DOMAIN answers \cap known PROVE c \in CallsOf(bound)
    OBVIOUS
  <2>1. <<c, answers[c] # "no">> \in bound /\ <<c, answers[c] # "no">>[1] = c
    BY DEF Bound
  <2> HIDE DEF bound
  <2> QED
    BY <2>1, Zenon DEF CallsOf
<1>5. NewRules(answers, known) \subseteq Tools
  BY ToolsAssumption DEF NewRules
<1>6. /\ t.rules = s.rules \cup NewRules(answers, known) /\ t.queued = s.queued
      /\ t.collected = s.collected \cup (IF Collects(s) THEN bound ELSE {})
      /\ t = [rules |-> t.rules, collected |-> t.collected, queued |-> t.queued]
      /\ kept = IF Collects(s) THEN {} ELSE bound
  BY DEF PrepareInbound, KeptInMessages
<1> HIDE DEF bound, t, kept
<1>7. s.collected \cup bound = t.collected \cup kept
  BY <1>6
<1>8. kept # {} => s.queued = <<>>
  BY <1>6 DEF Collects
<1>9. \A r1, r2 : CallsOf(r1 \cup r2) = CallsOf(r1) \cup CallsOf(r2)
  BY DEF CallsOf
<1>10. t \in StateTypes /\ kept \subseteq Calls \X BOOLEAN
  BY <1>1, <1>3, <1>5, <1>6 DEF StateTypes
<1> QED
  BY <1>4, <1>6, <1>7, <1>8, <1>9, <1>10 DEF t, kept

\* An order of calls is a queue of them.
LEMMA OrdersAreQueues ==
  ASSUME NEW A \in SUBSET Calls, NEW q \in Orders(A)
  PROVE  q \in Seq(Calls) /\ InQueue(q) = A
<1>1. Cardinality(A) \in Nat
  BY ToolsAssumption, FS_Subset, FS_CardinalityType
<1>2. q \in [1..Cardinality(A) -> A] /\ \A c \in A : c \in InQueue(q)
  BY DEF Orders
<1> QED
  BY <1>1, <1>2 DEF InQueue

\* The empty books have their types.
LEMMA TInit == Init => TInv
<1>1. Cardinality({}) = 0
  BY FS_EmptySet
<1>2. Init => OneInv
  BY OneInit
<1>3. Init => TypeOK
  BY <1>1, AgentTurnAssumption DEF Init, TypeOK, StateTypes, NoState
<1>4. Init => PhaseInv /\ BookInv
  BY DEF Init, PhaseInv, BookInv, NoState
<1> QED
  BY <1>2, <1>3, <1>4 DEF TInv

\* Every action keeps types, phases and books.
LEMMA TStep == TInv /\ [Next]_vars => TInv'
<1> SUFFICES ASSUME TInv, [Next]_vars PROVE TInv'
  OBVIOUS
<1>0. OneInv'
  BY OneStep DEF TInv
<1>a. Cardinality({}) <= 1 /\ \A x : Cardinality({x}) <= 1
  <2>1. Cardinality({}) = 0
    BY FS_EmptySet
  <2>2. \A x : Cardinality({x}) = 1
    BY FS_Singleton
  <2> QED
    BY <2>1, <2>2
<1>b. MaxFailures \in Nat
  BY AgentTurnAssumption
<1>c. SUFFICES TypeOK' /\ PhaseInv' /\ BookInv'
  BY <1>0 DEF TInv
<1> USE <1>0 DEF TInv
<1>1. CASE UNCHANGED vars
  <2>1. TypeOK'
    BY <1>1, <1>a, <1>b DEF vars, session, history, batch, caller, doings, inject, run, TypeOK, PhaseInv, BookInv, OneInv
  <2>2. PhaseInv'
    BY <1>1, <1>a, <1>b DEF vars, session, history, batch, caller, doings, inject, run, TypeOK, PhaseInv
  <2>3. BookInv'
    BY <1>1, <1>a, <1>b DEF vars, session, history, batch, caller, doings, inject, run, TypeOK, PhaseInv, BookInv, OneInv
  <2> QED
    BY <2>1, <2>2, <2>3
<1>2. ASSUME NEW answers \in Answers, Receive(answers)
      PROVE  TypeOK' /\ PhaseInv' /\ BookInv'
  <2> DEFINE t    == PrepareInbound(saved, answers, surfaced)
             kept == KeptInMessages(saved, answers, surfaced)
  <2>1. surfaced \subseteq Calls /\ saved \in StateTypes
    BY DEF TypeOK
  <2>2. /\ t \in StateTypes /\ t.queued = saved.queued
        /\ kept \subseteq Calls \X BOOLEAN /\ (kept # {} => saved.queued = <<>>)
    BY <2>1, InboundMoves
  <2>3. st' = t /\ mine' = kept
    BY <1>2 DEF Receive
  <2> HIDE DEF t, kept
  <2>4. TypeOK'
    BY <1>2, <2>2, <2>3 DEF Receive, history, doings, inject, TypeOK
  <2>5. PhaseInv'
    BY <1>2, <2>2, <2>3 DEF Receive, history, doings, inject, PhaseInv
  <2>6. BookInv'
    BY <1>2, <2>2, <2>3 DEF Receive, history, doings, inject, PhaseInv, BookInv
  <2> QED
    BY <2>4, <2>5, <2>6
<1>3. CASE Surface
  <2> DEFINE s == Drain(st)
  <2>1. s \in StateTypes /\ s.queued # <<>> /\ s.queued \in Seq(Calls)
    BY <1>3, DrainMoves DEF Surface, TypeOK, StateTypes
  <2>2. /\ saved' = [s EXCEPT !.queued = Tail(@)] /\ st' = saved' /\ raw' = {}
        /\ surfaced' = surfaced \cup {Head(s.queued)} /\ shown' = shown \cup {Head(s.queued)}
    BY <1>3 DEF Surface, Save
  <2> HIDE DEF s
  <2>3. Head(s.queued) \in Calls /\ Tail(s.queued) \in Seq(Calls)
    BY <2>1, HeadAndTail
  <2>4. saved' \in StateTypes
    BY <2>1, <2>2, <2>3 DEF StateTypes
  <2>5. TypeOK'
    BY <1>3, <1>a, <2>2, <2>3, <2>4 DEF Surface, Ends, history, doings, inject, TypeOK
  <2>6. PhaseInv'
    BY <1>3, <2>2 DEF Surface, Ends, history, doings, inject, PhaseInv
  <2>7. BookInv'
    BY <1>3, <2>2 DEF Surface, Ends, history, doings, inject, PhaseInv, BookInv
  <2> QED
    BY <2>5, <2>6, <2>7
<1>4. CASE Enter
  <2>1. st' \in StateTypes /\ st'.queued = <<>>
    BY <1>4, DrainMoves DEF Enter, TypeOK
  <2>2. TypeOK'
    BY <1>4, <2>1 DEF Enter, session, history, batch, caller, doings, inject, TypeOK
  <2>3. PhaseInv'
    BY <1>4, <2>1 DEF Enter, session, history, batch, caller, doings, inject, PhaseInv
  <2>4. InQueue(<<>>) = {}
    BY EmptyQueue, <<>> \in Seq(Calls)
  <2>5. BookInv'
    BY <1>4, <2>1, <2>4 DEF Enter, session, history, batch, caller, doings, inject, BookInv
  <2> QED
    BY <2>2, <2>3, <2>5
<1>5. CASE RuleFails
  <2>1. TypeOK'
    BY <1>5, <1>a, <1>b DEF RuleFails, Fails, EndsInError, Ends, history, doings, inject, TypeOK, PhaseInv, BookInv, OneInv
  <2>2. PhaseInv'
    BY <1>5, <1>a, <1>b DEF RuleFails, Fails, EndsInError, Ends, history, doings, inject, TypeOK, PhaseInv
  <2>3. BookInv'
    BY <1>5, <1>a, <1>b DEF RuleFails, Fails, EndsInError, Ends, history, doings, inject, TypeOK, PhaseInv, BookInv, OneInv
  <2> QED
    BY <2>1, <2>2, <2>3
<1>6. CASE Classify
  <2> DEFINE s     == Classified(st, asked)
             needs == NeedsApproval(st, asked)
             show  == IF round >= MaxRounds THEN InQueue(asked) ELSE IF needs = <<>> THEN {} ELSE {Head(needs)}
  <2>1. st \in StateTypes /\ st.queued = <<>> /\ asked \in Seq(Calls) /\ pc = "classify"
    BY <1>6 DEF Classify, TypeOK, PhaseInv
  <2>2. /\ s \in StateTypes /\ InQueue(asked) \subseteq Calls
        /\ needs # <<>> => Head(needs) \in Calls
        /\ needs = <<>> => s.queued = <<>>
    BY <2>1, ClassifyMoves, ApprovalsOfPassed
  <2>4. /\ surfaced' = surfaced \cup show /\ shown' = shown \cup show /\ show \subseteq Calls
        /\ \/ /\ show # {} /\ saved' \in {s, st} /\ st' = saved' /\ raw' = {} /\ Ends({})
           \/ /\ show = {} /\ st' = s /\ pc' = "inner" /\ asked' = <<>>
              /\ UNCHANGED <<saved, raw, mine, inflight, batch, handed>>
    BY <1>6, <2>2 DEF Classify, Save
  <2>5. UNCHANGED <<pending, auto, history, cancelled, consent, promised, dropped, doings, inject, concurrent, failures>>
    BY <1>6 DEF Classify
  <2>6. show = {} => s.queued = <<>>
    <3>1. round >= MaxRounds /\ InQueue(asked) = {} => needs = <<>>
      <4>1. needs \in Seq(Calls) /\ InQueue(needs) \subseteq InQueue(asked)
        BY <2>1, ClassifyMoves
      <4> QED
        BY <4>1, EmptyQueue
    <3> QED
      BY <2>2, <3>1
  <2> HIDE DEF s, needs, show
  <2>7. InQueue(<<>>) = {}
    BY EmptyQueue, <<>> \in Seq(Calls)
  <2>8. TypeOK'
    <3>1. CASE Ends({}) /\ raw' = {} /\ saved' \in {s, st} /\ st' = saved'
      BY <1>a, <2>1, <2>2, <2>4, <2>5, <3>1 DEF Ends, history, doings, TypeOK
    <3>2. CASE st' = s /\ pc' = "inner" /\ asked' = <<>> /\ UNCHANGED <<saved, raw, mine, inflight, batch, handed>>
      BY <2>2, <2>4, <2>5, <3>2 DEF history, doings, batch, TypeOK
    <3> QED
      BY <2>4, <3>1, <3>2
  <2>9. PhaseInv'
    BY <2>1, <2>4, <2>5, <2>6 DEF Ends, history, doings, batch, PhaseInv
  <2>10. BookInv'
    BY <2>1, <2>4, <2>5, <2>6, <2>7 DEF Ends, history, doings, batch, PhaseInv, BookInv
  <2> QED
    BY <2>8, <2>9, <2>10
<1>7. CASE InnerFails
  <2>1. TypeOK'
    BY <1>7, <1>a, <1>b DEF InnerFails, BreaksOff, Fails, EndsInError, Ends, history, doings, inject, TypeOK, PhaseInv, BookInv, OneInv
  <2>2. PhaseInv'
    BY <1>7, <1>a, <1>b DEF InnerFails, BreaksOff, Fails, EndsInError, Ends, history, doings, inject, TypeOK, PhaseInv
  <2>3. BookInv'
    BY <1>7, <1>a, <1>b DEF InnerFails, BreaksOff, Fails, EndsInError, Ends, history, doings, inject, TypeOK, PhaseInv, BookInv, OneInv
  <2> QED
    BY <2>1, <2>2, <2>3
<1>8. CASE Bind
  <2> DEFINE responses == mine \cup st.collected
             bound == (CallsOf(responses) \cap pending) \ results
             yes   == {c \in bound : <<c, TRUE>> \in responses}
  <2>1. /\ bound \subseteq pending /\ yes \subseteq bound
        /\ pending' = pending \ bound /\ auto' = {}
        /\ results' = results \cup (bound \ yes) /\ todo' = yes \cup auto
        /\ pc' = IF yes \cup auto = {} THEN "model" ELSE "tools"
        /\ st' = [st EXCEPT !.collected = {}] /\ mine' = {} /\ errs' = 0 /\ pc = "inner"
        /\ UNCHANGED <<saved, surfaced, raw, history, erred, halt, round, asked, inflight, cancelled,
                       caller, ran, inject, concurrent, failures>>
    BY <1>8 DEF Bind, StillPending, StillAuto
  <2> HIDE DEF bound, yes
  <2>2. st' \in StateTypes /\ st'.queued = st.queued /\ st'.collected = {}
    BY <2>1 DEF TypeOK, StateTypes
  <2>3. TypeOK'
    BY <2>1, <2>2 DEF history, caller, TypeOK
  <2>4. PhaseInv'
    BY <2>1, <2>2 DEF history, caller, PhaseInv
  <2>5. BookInv'
    BY <2>1, <2>2 DEF history, caller, OneInv, BookInv
  <2> QED
    BY <2>3, <2>4, <2>5
<1>9. ASSUME NEW c \in Calls, NEW how \in {"ok", "error", "terminate"}, RunTool(c, how)
      PROVE  TypeOK' /\ PhaseInv' /\ BookInv'
  <2>1. TypeOK'
    BY <1>9, <1>a, <1>b DEF RunTool, session, history, run, caller, inject, TypeOK, PhaseInv, BookInv, OneInv
  <2>2. PhaseInv'
    BY <1>9, <1>a, <1>b DEF RunTool, session, history, run, caller, inject, TypeOK, PhaseInv
  <2>3. BookInv'
    BY <1>9, <1>a, <1>b DEF RunTool, session, history, run, caller, inject, TypeOK, PhaseInv, BookInv, OneInv
  <2> QED
    BY <2>1, <2>2, <2>3
<1>10. CASE EndBatch
  <2>1. TypeOK'
    BY <1>10, <1>a, <1>b DEF EndBatch, session, history, run, caller, doings, inject, TypeOK, PhaseInv, BookInv, OneInv
  <2>2. PhaseInv'
    BY <1>10, <1>a, <1>b DEF EndBatch, session, history, run, caller, doings, inject, TypeOK, PhaseInv
  <2>3. BookInv'
    BY <1>10, <1>a, <1>b DEF EndBatch, session, history, run, caller, doings, inject, TypeOK, PhaseInv, BookInv, OneInv
  <2> QED
    BY <2>1, <2>2, <2>3
<1>11. CASE BatchFails
  <2>1. TypeOK'
    BY <1>11, <1>b DEF BatchFails, TooManyErrors, Ends, session, history, doings, inject, TypeOK, PhaseInv, BookInv, OneInv
  <2>2. PhaseInv'
    BY <1>11, <1>a, <1>b DEF BatchFails, Ends, session, history, doings, inject, TypeOK, PhaseInv
  <2>3. BookInv'
    BY <1>11, <1>a, <1>b DEF BatchFails, Ends, session, history, doings, inject, TypeOK, PhaseInv, BookInv, OneInv
  <2> QED
    BY <2>1, <2>2, <2>3
<1>12. CASE Terminate
  <2>1. TypeOK'
    BY <1>12, <1>a, <1>b DEF Terminate, Save, Ends, history, doings, inject, TypeOK, PhaseInv, BookInv, OneInv
  <2>2. PhaseInv'
    BY <1>12, <1>a, <1>b DEF Terminate, Save, Ends, history, doings, inject, TypeOK, PhaseInv
  <2>3. BookInv'
    BY <1>12, <1>a, <1>b DEF Terminate, Save, Ends, history, doings, inject, TypeOK, PhaseInv, BookInv, OneInv
  <2> QED
    BY <2>1, <2>2, <2>3
<1>13. CASE CallModel
  <2>1. TypeOK'
    BY <1>13, <1>a, <1>b DEF CallModel, DrainInjected, session, history, batch, caller, doings, TypeOK, PhaseInv, BookInv, OneInv
  <2>2. PhaseInv'
    BY <1>13, <1>a, <1>b DEF CallModel, DrainInjected, session, history, batch, caller, doings, TypeOK, PhaseInv
  <2>3. BookInv'
    BY <1>13, <1>a, <1>b DEF CallModel, DrainInjected, session, history, batch, caller, doings, TypeOK, PhaseInv, BookInv, OneInv
  <2> QED
    BY <2>1, <2>2, <2>3
<1>14. CASE ModelFails
  <2>1. TypeOK'
    BY <1>14, <1>a, <1>b DEF ModelFails, BreaksOff, Fails, EndsInError, Ends, history, doings, inject, TypeOK, PhaseInv, BookInv, OneInv
  <2>2. PhaseInv'
    BY <1>14, <1>a, <1>b DEF ModelFails, BreaksOff, Fails, EndsInError, Ends, history, doings, inject, TypeOK, PhaseInv
  <2>3. BookInv'
    BY <1>14, <1>a, <1>b DEF ModelFails, BreaksOff, Fails, EndsInError, Ends, history, doings, inject, TypeOK, PhaseInv, BookInv, OneInv
  <2> QED
    BY <2>1, <2>2, <2>3
<1>15. CASE ModelText
  <2>1. /\ called' = called /\ answered' = answered \cup results /\ pc = "calling"
        /\ UNCHANGED <<surfaced, pending, auto, cancelled, shown, consent, promised, dropped, doings, sent,
                       concurrent, failures>>
        /\ \/ /\ results' = {}
              /\ UNCHANGED <<saved, raw, st, pc, handed, mine, asked, todo, erred, halt>>
           \/ Ends({}) /\ Save(st)
    BY <1>15 DEF ModelText, Persist
  <2>2. TypeOK'
    <3>1. CASE Ends({}) /\ Save(st)
      BY <1>a, <2>1, <3>1 DEF Ends, Save, doings, TypeOK, BookInv
    <3>2. CASE results' = {} /\ UNCHANGED <<saved, raw, st, pc, handed, mine, asked, todo, erred, halt>>
      BY <2>1, <3>2 DEF doings, TypeOK, BookInv
    <3> QED
      BY <2>1, <3>1, <3>2
  <2>3. PhaseInv'
    BY <2>1 DEF Ends, Save, doings, PhaseInv
  <2>4. BookInv'
    BY <2>1 DEF Ends, Save, doings, PhaseInv, BookInv
  <2> QED
    BY <2>2, <2>3, <2>4
<1>16. ASSUME NEW new \in SUBSET Calls, ModelCalls(new)
       PROVE  TypeOK' /\ PhaseInv' /\ BookInv'
  <2>1. TypeOK'
    <3> DEFINE guarded == {c \in new : GuardedCall(c)}
    <3>1. asked' \in Seq(Calls)
      <4>1. asked' = asked \/ asked' \in Orders(guarded)
        BY <1>16 DEF ModelCalls
      <4>2. guarded \in SUBSET Calls
        OBVIOUS
      <4> HIDE DEF guarded
      <4> QED
        BY <4>1, <4>2, OrdersAreQueues DEF TypeOK
    <3> QED
      BY <1>16, <3>1 DEF ModelCalls, Persist, RecordSafe, caller, doings, TypeOK, BookInv
  <2>2. PhaseInv'
    BY <1>16, <1>a, <1>b DEF ModelCalls, Persist, RecordSafe, caller, doings, TypeOK, PhaseInv
  <2>3. BookInv'
    BY <1>16, <1>a, <1>b DEF ModelCalls, Persist, RecordSafe, caller, doings, TypeOK, PhaseInv, BookInv, OneInv
  <2> QED
    BY <2>1, <2>2, <2>3
<1>17. ASSUME NEW new \in SUBSET Calls, NEW read \in SUBSET new, Abandon(new, read)
       PROVE  TypeOK' /\ PhaseInv' /\ BookInv'
  <2>1. TypeOK'
    BY <1>17, <1>a, <1>b DEF Abandon, Fails, Persist, Save, Ends, RecordSafe, doings, TypeOK, PhaseInv, BookInv, OneInv
  <2>2. PhaseInv'
    BY <1>17, <1>a, <1>b DEF Abandon, Fails, Persist, Save, Ends, RecordSafe, doings, TypeOK, PhaseInv
  <2>3. BookInv'
    BY <1>17, <1>a, <1>b DEF Abandon, Fails, Persist, Save, Ends, RecordSafe, doings, TypeOK, PhaseInv, BookInv, OneInv
  <2> QED
    BY <2>1, <2>2, <2>3
<1>18. CASE Enqueue
  <2>1. TypeOK'
    BY <1>18, <1>a, <1>b DEF Enqueue, session, history, batch, run, caller, doings, TypeOK, PhaseInv, BookInv, OneInv
  <2>2. PhaseInv'
    BY <1>18, <1>a, <1>b DEF Enqueue, session, history, batch, run, caller, doings, TypeOK, PhaseInv
  <2>3. BookInv'
    BY <1>18, <1>a, <1>b DEF Enqueue, session, history, batch, run, caller, doings, TypeOK, PhaseInv, BookInv, OneInv
  <2> QED
    BY <2>1, <2>2, <2>3
<1>19. CASE Cancel
  <2>1. TypeOK'
    BY <1>19, <1>a, <1>b DEF Cancel, Fails, session, history, batch, caller, doings, inject, TypeOK, PhaseInv, BookInv, OneInv
  <2>2. PhaseInv'
    BY <1>19, <1>a, <1>b DEF Cancel, Fails, session, history, batch, caller, doings, inject, TypeOK, PhaseInv
  <2>3. BookInv'
    BY <1>19, <1>a, <1>b DEF Cancel, Fails, session, history, batch, caller, doings, inject, TypeOK, PhaseInv, BookInv, OneInv
  <2> QED
    BY <2>1, <2>2, <2>3
<1>20. CASE Reload
  <2>1. TypeOK'
    <3>1. surfaced' \subseteq Calls /\ raw' = {surfaced'}
      BY <1>20 DEF Reload, TypeOK
    <3> QED
      BY <1>20, <1>a, <3>1 DEF Reload, history, batch, run, caller, doings, inject, TypeOK
  <2>2. PhaseInv'
    BY <1>20, <1>a, <1>b DEF Reload, history, batch, run, caller, doings, inject, TypeOK, PhaseInv
  <2>3. BookInv'
    BY <1>20, <1>a, <1>b DEF Reload, history, batch, run, caller, doings, inject, TypeOK, PhaseInv, BookInv, OneInv
  <2> QED
    BY <2>1, <2>2, <2>3
<1> QED
  BY <1>1, <1>2, <1>3, <1>4, <1>5, <1>6, <1>7, <1>8, <1>9, <1>10, <1>11, <1>12, <1>13, <1>14,
     <1>15, <1>16, <1>17, <1>18, <1>19, <1>20 DEF Next

\* TypeOK: the books keep their types in any order of turns, answers, failures,
\* cancellations, abandoned streams and reloads.
THEOREM TypeCorrect == Spec => []TypeOK
<1>1. TInv => TypeOK
  BY DEF TInv
<1> QED
  BY TInit, TStep, <1>1, PTL DEF Spec

-----------------------------------------------------------------------------
(* Nothing is forgotten                                                    *)

\* While requests are queued the caller has no results to bring, unless a run failed:
\* the turn that surfaces the next one would ignore them.
HandsInv == failures = 0 /\ st.queued # <<>> => results = {} /\ handed = {}

\* Where the request of a call can be, for its answer to find it.
Held ==
  (surfaced \cap shown) \cup InQueue(st.queued) \cup CallsOf(st.collected) \cup CallsOf(mine)
    \cup InQueue(asked)

\* Where a call without a result can be.
Somewhere == auto \cup todo \cup results \cup handed \cup (pending \cap Held) \cup dropped

\* The invariant of what is not forgotten.
ForgetInv ==
  /\ called \ answered \subseteq Somewhere
  /\ failures = 0 => dropped = {}
  /\ HandsInv

\* Empty books, and books put together.
LEMMA BooksOfNothing ==
  /\ InQueue(<<>>) = {} /\ CallsOf({}) = {}
  /\ \A r1, r2 : CallsOf(r1 \cup r2) = CallsOf(r1) \cup CallsOf(r2)
<1>1. InQueue(<<>>) = {}
  BY EmptyQueue, <<>> \in Seq(Calls)
<1> QED
  BY <1>1 DEF CallsOf

\* A run that ends in an error drops what only it knew.
LEMMA ErrorDrops ==
  ASSUME TInv, ForgetInv, EndsInError, todo = {},
         UNCHANGED <<surfaced, pending, auto, called, answered, shown>>
  PROVE  called' \ answered' \subseteq Somewhere'
<1>1. /\ handed' = handed \cup results /\ st' = saved /\ saved' = saved
      /\ dropped' = dropped \cup ((CallsOf(mine \cup st.collected) \cup InQueue(asked)) \ Known)
  BY DEF EndsInError, Ends
<1>2. Known \subseteq Held'
  BY <1>1 DEF Known, Held, TInv, BookInv
<1>3. Held \subseteq Held' \cup dropped'
  <2>1. InQueue(st.queued) \subseteq Known
    BY DEF TInv, BookInv, Known
  <2>2. CallsOf(mine \cup st.collected) = CallsOf(mine) \cup CallsOf(st.collected)
    BY BooksOfNothing
  <2>3. surfaced \subseteq Known
    BY DEF Known
  <2>4. CallsOf(mine) \cup CallsOf(st.collected) \cup InQueue(asked) \subseteq Known \cup dropped'
    BY <1>1, <2>2
  <2>5. Held \subseteq Known \cup dropped'
    BY <2>1, <2>3, <2>4 DEF Held
  <2> QED
    BY <1>2, <2>5
<1> QED
  BY <1>1, <1>3 DEF ForgetInv, Somewhere

\* At first there is nothing to forget.
LEMMA ForgetInit == Init => ForgetInv
  BY DEF Init, ForgetInv, HandsInv

\* No action leaves a call without a result to nobody.
LEMMA ForgetStep == TInv /\ TInv' /\ ForgetInv /\ [Next]_vars => ForgetInv'
<1> SUFFICES ASSUME TInv, TInv', ForgetInv, [Next]_vars PROVE ForgetInv'
  OBVIOUS
<1>a. /\ InQueue(<<>>) = {} /\ CallsOf({}) = {}
      /\ \A r1, r2 : CallsOf(r1 \cup r2) = CallsOf(r1) \cup CallsOf(r2)
  BY BooksOfNothing
<1>b. failures \in Nat
  BY AgentTurnAssumption DEF TInv, TypeOK
<1>1. CASE UNCHANGED vars
  <2>1. called' \ answered' \subseteq Somewhere'
    BY <1>1, <1>a DEF vars, session, history, batch, caller, doings, inject, run, TInv, PhaseInv, BookInv, ForgetInv, Somewhere, Held
  <2>2. (failures' = 0 => dropped' = {}) /\ HandsInv'
    BY <1>1, <1>b DEF vars, session, history, batch, caller, doings, inject, run, TInv, PhaseInv, BookInv, ForgetInv, HandsInv
  <2> QED
    BY <2>1, <2>2 DEF ForgetInv
<1>2. ASSUME NEW answers \in Answers, Receive(answers)
      PROVE  ForgetInv'
  <2> DEFINE t    == PrepareInbound(saved, answers, surfaced)
             kept == KeptInMessages(saved, answers, surfaced)
  <2>1. surfaced \subseteq Calls /\ saved \in StateTypes
    BY DEF TInv, TypeOK
  <2>2. /\ t.queued = saved.queued
        /\ CallsOf(saved.collected) \cup (surfaced \cap DOMAIN answers) \subseteq CallsOf(t.collected \cup kept)
    BY <2>1, InboundMoves
  <2>3. /\ st' = t /\ mine' = kept /\ surfaced' = surfaced \ DOMAIN answers
        /\ results' = handed /\ handed' = {} /\ pc = "idle"
        /\ UNCHANGED <<pending, auto, called, answered, todo, asked, shown, dropped, failures>>
    BY <1>2 DEF Receive, history
  <2>4. st = saved /\ mine = {}
    BY <2>3 DEF TInv, PhaseInv
  <2> HIDE DEF t, kept
  <2>5. Held \subseteq Held'
    BY <1>a, <2>2, <2>3, <2>4 DEF Held
  <2>6. called' \ answered' \subseteq Somewhere'
    BY <2>3, <2>4, <2>5 DEF ForgetInv, Somewhere, TInv, PhaseInv
  <2> QED
    BY <2>2, <2>3, <2>4, <2>6 DEF ForgetInv, HandsInv
<1>3. CASE Surface
  <2> DEFINE s == Drain(st)
  <2>1. st \in StateTypes
    BY DEF TInv, TypeOK
  <2>2. /\ s \in StateTypes /\ s.queued # <<>> /\ s.queued \in Seq(Calls)
        /\ InQueue(st.queued) \cup CallsOf(st.collected) \subseteq InQueue(s.queued) \cup CallsOf(s.collected)
        /\ st.queued # <<>>
    BY <1>3, <2>1, DrainMoves DEF Surface, StateTypes
  <2>3. /\ saved' = [s EXCEPT !.queued = Tail(@)] /\ st' = saved'
        /\ surfaced' = surfaced \cup {Head(s.queued)} /\ shown' = shown \cup {Head(s.queued)}
        /\ dropped' = dropped \cup results /\ pc = "turn" /\ handed' = handed /\ results' = {} /\ mine' = {}
        /\ todo' = {} /\ asked' = <<>>
        /\ UNCHANGED <<pending, auto, called, answered, failures>>
    BY <1>3 DEF Surface, Save, Ends, history
  <2> HIDE DEF s
  <2>4. InQueue(s.queued) = {Head(s.queued)} \cup InQueue(Tail(s.queued))
    BY <2>2, HeadAndTail
  <2>5. st'.queued = Tail(s.queued) /\ st'.collected = s.collected
    BY <2>2, <2>3 DEF StateTypes
  <2>6. mine = {} /\ todo = {} /\ asked = <<>> /\ handed = {}
    BY <2>2, <2>3 DEF TInv, PhaseInv
  <2>7. Held \subseteq Held'
    BY <1>a, <2>2, <2>3, <2>4, <2>5, <2>6 DEF Held
  <2>8. called' \ answered' \subseteq Somewhere'
    BY <2>3, <2>6, <2>7 DEF ForgetInv, Somewhere
  <2>9. failures = 0 => results = {}
    BY <2>2 DEF ForgetInv, HandsInv
  <2> QED
    BY <2>3, <2>6, <2>8, <2>9 DEF ForgetInv, HandsInv
<1>4. CASE Enter
  <2>1. st \in StateTypes
    BY DEF TInv, TypeOK
  <2>2. /\ st'.queued = <<>>
        /\ InQueue(st.queued) \cup CallsOf(st.collected) \subseteq CallsOf(st'.collected)
    BY <1>4, <1>a, <2>1, DrainMoves DEF Enter
  <2>3. UNCHANGED <<auto, todo, results, handed, pending, dropped, called, answered, surfaced, shown, mine, asked, failures>>
    BY <1>4 DEF Enter, session, history, batch, caller
  <2>4. Held \subseteq Held'
    BY <2>2, <2>3 DEF Held
  <2> QED
    BY <2>2, <2>3, <2>4 DEF ForgetInv, Somewhere, HandsInv
<1>5. CASE RuleFails
  <2>1. EndsInError /\ todo = {} /\ UNCHANGED <<surfaced, pending, auto, called, answered, shown>>
    BY <1>5 DEF RuleFails, Fails, history, TInv, PhaseInv
  <2>2. failures' > 0
    BY <1>5, <1>b DEF RuleFails, Fails, history, TInv, BookInv
  <2>3. called' \ answered' \subseteq Somewhere'
    BY <2>1, ErrorDrops
  <2> QED
    BY <2>2, <2>3 DEF ForgetInv, HandsInv
<1>6. CASE Classify
  <2> DEFINE s     == Classified(st, asked)
             needs == NeedsApproval(st, asked)
             show  == IF round >= MaxRounds THEN InQueue(asked) ELSE IF needs = <<>> THEN {} ELSE {Head(needs)}
  <2>1. st \in StateTypes /\ st.queued = <<>> /\ asked \in Seq(Calls) /\ mine = {} /\ st.collected = {}
        /\ results = {} /\ handed = {} /\ todo = {}
    BY <1>6 DEF Classify, TInv, TypeOK, PhaseInv
  <2>2. /\ InQueue(asked) \subseteq CallsOf(s.collected) \cup InQueue(needs)
        /\ needs # <<>> => /\ s.queued = Tail(needs)
                           /\ InQueue(needs) = {Head(needs)} \cup InQueue(Tail(needs))
        /\ InQueue(needs) \subseteq InQueue(asked)
    BY <2>1, ClassifyMoves
  <2>3. /\ surfaced' = surfaced \cup show /\ shown' = shown \cup show
        /\ IF show # {} THEN st' = (IF round >= MaxRounds THEN st ELSE s) /\ Ends({})
                        ELSE st' = s /\ UNCHANGED <<handed, results, todo, mine>>
        /\ UNCHANGED <<pending, auto, called, answered, dropped, failures>>
    BY <1>6 DEF Classify, Save, batch, history
  <2>4. InQueue(asked) \subseteq (surfaced' \cap shown') \cup InQueue(st'.queued) \cup CallsOf(st'.collected)
    <3>1. CASE round >= MaxRounds
      BY <2>2, <2>3, <3>1
    <3>2. CASE ~(round >= MaxRounds) /\ needs # <<>>
      BY <2>2, <2>3, <3>2
    <3>3. CASE ~(round >= MaxRounds) /\ needs = <<>>
      BY <1>a, <2>2, <2>3, <3>3
    <3> QED
      BY <3>1, <3>2, <3>3
  <2>5. results' = {} /\ handed' = {} /\ todo' = {}
    BY <2>1, <2>3 DEF Ends
  <2> HIDE DEF s, needs, show
  <2>6. Held \subseteq Held'
    BY <1>a, <2>1, <2>3, <2>4 DEF Held
  <2> QED
    BY <2>1, <2>3, <2>5, <2>6 DEF ForgetInv, Somewhere, HandsInv
<1>7. CASE InnerFails
  <2>1. EndsInError /\ todo = {} /\ UNCHANGED <<surfaced, pending, auto, called, answered, shown>>
    BY <1>7 DEF InnerFails, BreaksOff, Fails, history, TInv, PhaseInv
  <2>2. failures' > 0
    BY <1>7, <1>b DEF InnerFails, BreaksOff, Fails, history, TInv, BookInv
  <2>3. called' \ answered' \subseteq Somewhere'
    BY <2>1, ErrorDrops
  <2> QED
    BY <2>2, <2>3 DEF ForgetInv, HandsInv
<1>8. CASE Bind
  <2> DEFINE responses == mine \cup st.collected
             bound == (CallsOf(responses) \cap pending) \ results
             yes   == {c \in bound : <<c, TRUE>> \in responses}
  <2>1. /\ yes \subseteq bound
        /\ pending' = pending \ bound /\ auto' = {}
        /\ results' = results \cup (bound \ yes) /\ todo' = yes \cup auto
        /\ st' = [st EXCEPT !.collected = {}] /\ pc = "inner"
        /\ UNCHANGED <<surfaced, called, answered, asked, shown, handed, dropped, failures>>
    BY <1>8 DEF Bind, StillPending, StillAuto, history, caller
  <2>2. CallsOf(responses) = CallsOf(mine) \cup CallsOf(st.collected)
    BY <1>a
  <2>3. st'.queued = st.queued /\ todo = {} /\ st.queued = <<>>
    BY <2>1 DEF TInv, TypeOK, StateTypes, PhaseInv
  <2>4. pending \cap Held \subseteq (pending' \cap Held') \cup todo' \cup results'
    BY <2>1, <2>2, <2>3 DEF Held
  <2> HIDE DEF bound, yes
  <2>5. called' \ answered' \subseteq Somewhere'
    BY <2>1, <2>3, <2>4 DEF ForgetInv, Somewhere
  <2> QED
    BY <2>1, <2>3, <2>5 DEF ForgetInv, HandsInv
<1>9. ASSUME NEW c \in Calls, NEW how \in {"ok", "error", "terminate"}, RunTool(c, how)
      PROVE  ForgetInv'
  <2>1. called' \ answered' \subseteq Somewhere'
    BY <1>9, <1>a DEF RunTool, session, history, run, caller, inject, TInv, PhaseInv, BookInv, ForgetInv, Somewhere, Held
  <2>2. (failures' = 0 => dropped' = {}) /\ HandsInv'
    BY <1>9, <1>b DEF RunTool, session, history, run, caller, inject, TInv, PhaseInv, BookInv, ForgetInv, HandsInv
  <2> QED
    BY <2>1, <2>2 DEF ForgetInv
<1>10. CASE EndBatch
  <2>1. called' \ answered' \subseteq Somewhere'
    BY <1>10, <1>a DEF EndBatch, session, history, run, caller, doings, inject, TInv, PhaseInv, BookInv, ForgetInv, Somewhere, Held
  <2>2. (failures' = 0 => dropped' = {}) /\ HandsInv'
    BY <1>10, <1>b DEF EndBatch, session, history, run, caller, doings, inject, TInv, PhaseInv, BookInv, ForgetInv, HandsInv
  <2> QED
    BY <2>1, <2>2 DEF ForgetInv
<1>11. CASE BatchFails
  <2>1. called' \ answered' \subseteq Somewhere'
    BY <1>11, <1>a DEF BatchFails, Ends, session, history, doings, inject, TInv, PhaseInv, BookInv, ForgetInv, Somewhere, Held
  <2>2. (failures' = 0 => dropped' = {}) /\ HandsInv'
    BY <1>11, <1>b DEF BatchFails, Ends, session, history, doings, inject, TInv, PhaseInv, BookInv, ForgetInv, HandsInv
  <2> QED
    BY <2>1, <2>2 DEF ForgetInv
<1>12. CASE Terminate
  <2>1. called' \ answered' \subseteq Somewhere'
    BY <1>12, <1>a DEF Terminate, Save, Ends, history, doings, inject, TInv, PhaseInv, BookInv, ForgetInv, Somewhere, Held
  <2>2. (failures' = 0 => dropped' = {}) /\ HandsInv'
    BY <1>12, <1>b DEF Terminate, Save, Ends, history, doings, inject, TInv, PhaseInv, BookInv, ForgetInv, HandsInv
  <2> QED
    BY <2>1, <2>2 DEF ForgetInv
<1>13. CASE CallModel
  <2>1. called' \ answered' \subseteq Somewhere'
    BY <1>13, <1>a DEF CallModel, DrainInjected, session, history, batch, caller, doings, TInv, PhaseInv, BookInv, ForgetInv, Somewhere, Held
  <2>2. (failures' = 0 => dropped' = {}) /\ HandsInv'
    BY <1>13, <1>b DEF CallModel, DrainInjected, session, history, batch, caller, doings, TInv, PhaseInv, BookInv, ForgetInv, HandsInv
  <2> QED
    BY <2>1, <2>2 DEF ForgetInv
<1>14. CASE ModelFails
  <2>1. EndsInError /\ todo = {} /\ UNCHANGED <<surfaced, pending, auto, called, answered, shown>>
    BY <1>14 DEF ModelFails, BreaksOff, Fails, history, TInv, PhaseInv
  <2>2. failures' > 0
    BY <1>14, <1>b DEF ModelFails, BreaksOff, Fails, history, TInv, BookInv
  <2>3. called' \ answered' \subseteq Somewhere'
    BY <2>1, ErrorDrops
  <2> QED
    BY <2>2, <2>3 DEF ForgetInv, HandsInv
<1>15. CASE ModelText
  <2>1. called' \ answered' \subseteq Somewhere'
    BY <1>15, <1>a DEF ModelText, Persist, DrainInjected, Save, Ends, doings, TInv, PhaseInv, BookInv, ForgetInv, Somewhere, Held
  <2>2. (failures' = 0 => dropped' = {}) /\ HandsInv'
    BY <1>15, <1>b DEF ModelText, Persist, DrainInjected, Save, Ends, doings, TInv, PhaseInv, BookInv, ForgetInv, HandsInv
  <2> QED
    BY <2>1, <2>2 DEF ForgetInv
<1>16. ASSUME NEW new \in SUBSET Calls, ModelCalls(new)
       PROVE  ForgetInv'
  <2>1. called' \ answered' \subseteq Somewhere'
    <3> DEFINE guarded == {c \in new : GuardedCall(c)}
    <3>1. /\ called' = called \cup new /\ answered' = answered \cup results /\ results' = {} /\ pc = "calling"
          /\ UNCHANGED <<surfaced, shown, st, mine, handed, dropped>>
          /\ \/ guarded = {} /\ todo' = new /\ UNCHANGED <<pending, auto, asked>>
             \/ /\ pending' = pending \cup guarded /\ auto' = auto \cup (new \ guarded)
                /\ asked' \in Orders(guarded) /\ UNCHANGED todo
      BY <1>16 DEF ModelCalls, Persist, RecordSafe, caller
    <3>2. guarded \in SUBSET Calls
      OBVIOUS
    <3> HIDE DEF guarded
    <3>3. todo = {} /\ asked = <<>> /\ InQueue(asked) = {}
      BY <1>a, <3>1 DEF TInv, PhaseInv
    <3>4. CASE todo' = new /\ UNCHANGED <<pending, auto, asked>>
      BY <3>1, <3>3, <3>4 DEF ForgetInv, Somewhere, Held
    <3>5. CASE /\ pending' = pending \cup guarded /\ auto' = auto \cup (new \ guarded)
               /\ asked' \in Orders(guarded) /\ UNCHANGED todo
      <4>1. InQueue(asked') = guarded
        BY <3>2, <3>5, OrdersAreQueues
      <4>2. guarded \subseteq Held' /\ Held \subseteq Held'
        BY <3>1, <3>3, <4>1 DEF Held
      <4> QED
        BY <3>1, <3>3, <3>5, <4>2 DEF ForgetInv, Somewhere
    <3> QED
      BY <3>1, <3>4, <3>5
  <2>2. (failures' = 0 => dropped' = {}) /\ HandsInv'
    BY <1>16, <1>b DEF ModelCalls, Persist, RecordSafe, caller, doings, TInv, PhaseInv, BookInv, ForgetInv, HandsInv
  <2> QED
    BY <2>1, <2>2 DEF ForgetInv
<1>17. ASSUME NEW new \in SUBSET Calls, NEW read \in SUBSET new, Abandon(new, read)
       PROVE  ForgetInv'
  <2>1. called' \ answered' \subseteq Somewhere'
    BY <1>17, <1>a DEF Abandon, Fails, Persist, Save, Ends, RecordSafe, doings, TInv, PhaseInv, BookInv, ForgetInv, Somewhere, Held
  <2>2. (failures' = 0 => dropped' = {}) /\ HandsInv'
    BY <1>17, <1>b DEF Abandon, Fails, Persist, Save, Ends, RecordSafe, doings, TInv, PhaseInv, BookInv, ForgetInv, HandsInv
  <2> QED
    BY <2>1, <2>2 DEF ForgetInv
<1>18. CASE Enqueue
  <2>1. called' \ answered' \subseteq Somewhere'
    BY <1>18, <1>a DEF Enqueue, session, history, batch, run, caller, doings, TInv, PhaseInv, BookInv, ForgetInv, Somewhere, Held
  <2>2. (failures' = 0 => dropped' = {}) /\ HandsInv'
    BY <1>18, <1>b DEF Enqueue, session, history, batch, run, caller, doings, TInv, PhaseInv, BookInv, ForgetInv, HandsInv
  <2> QED
    BY <2>1, <2>2 DEF ForgetInv
<1>19. CASE Cancel
  <2>1. called' \ answered' \subseteq Somewhere'
    BY <1>19, <1>a DEF Cancel, Fails, session, history, batch, caller, doings, inject, TInv, PhaseInv, BookInv, ForgetInv, Somewhere, Held
  <2>2. (failures' = 0 => dropped' = {}) /\ HandsInv'
    BY <1>19, <1>b DEF Cancel, Fails, session, history, batch, caller, doings, inject, TInv, PhaseInv, BookInv, ForgetInv, HandsInv
  <2> QED
    BY <2>1, <2>2 DEF ForgetInv
<1>20. CASE Reload
  <2>1. called' \ answered' \subseteq Somewhere'
    BY <1>20, <1>a DEF Reload, history, batch, run, caller, doings, inject, TInv, PhaseInv, BookInv, ForgetInv, Somewhere, Held
  <2>2. (failures' = 0 => dropped' = {}) /\ HandsInv'
    BY <1>20, <1>b DEF Reload, history, batch, run, caller, doings, inject, TInv, PhaseInv, BookInv, ForgetInv, HandsInv
  <2> QED
    BY <2>1, <2>2 DEF ForgetInv
<1> QED
  BY <1>1, <1>2, <1>3, <1>4, <1>5, <1>6, <1>7, <1>8, <1>9, <1>10, <1>11, <1>12, <1>13, <1>14,
     <1>15, <1>16, <1>17, <1>18, <1>19, <1>20 DEF Next

\* NothingForgotten: a call without a result is in the hands of the session, the run or
\* the caller, unless a failed or abandoned run dropped it, however turns go.
THEOREM NothingIsForgotten == Spec => []NothingForgotten
<1>1. TInv /\ ForgetInv => NothingForgotten
  BY DEF ForgetInv, Somewhere, Held, NothingForgotten, Answerable
<1> QED
  BY TInit, TStep, ForgetInit, ForgetStep, <1>1, PTL DEF Spec

-----------------------------------------------------------------------------
(* Standing rules                                                          *)

\* Without failures the rules in use are all the caller has given.
RulesInv ==
  /\ failures = 0 => promised \subseteq st.rules
  /\ round \in Nat

\* No rule is given at first.
LEMMA RulesInit == Init => RulesInv
  BY DEF Init, RulesInv, NoState

\* A turn that does not fail saves its rules.
LEMMA RulesStep == TInv /\ RulesInv /\ [Next]_vars => RulesInv'
<1> SUFFICES ASSUME TInv, RulesInv, [Next]_vars PROVE RulesInv'
  OBVIOUS
<1>a. failures \in Nat /\ (cancelled => failures > 0) /\ (pc = "idle" => st = saved)
  BY AgentTurnAssumption DEF TInv, TypeOK, BookInv, PhaseInv
<1>b. Drain(st).rules = st.rules /\ Classified(st, asked).rules = st.rules
  BY DEF Drain, Classified
<1>c. st \in StateTypes /\ Drain(st) \in StateTypes
  BY DrainMoves DEF TInv, TypeOK
<1>1. CASE UNCHANGED vars
  BY <1>1, <1>a, <1>b DEF vars, session, history, batch, caller, doings, inject, run, RulesInv
<1>2. ASSUME NEW answers \in Answers, Receive(answers)
      PROVE  RulesInv'
  <2>1. /\ st' = PrepareInbound(saved, answers, surfaced) /\ promised' = promised \cup NewRules(answers, surfaced)
        /\ st = saved /\ round' = round /\ failures' = failures
    BY <1>2, <1>a DEF Receive
  <2>2. st'.rules = st.rules \cup NewRules(answers, surfaced)
    BY <2>1 DEF PrepareInbound
  <2> QED
    BY <2>1, <2>2 DEF RulesInv
<1>3. CASE Surface
  <2>1. /\ st' = [Drain(st) EXCEPT !.queued = Tail(@)] /\ round' = 0
        /\ UNCHANGED <<promised, failures>>
    BY <1>3 DEF Surface, Save, Ends
  <2>2. st'.rules = st.rules
    BY <1>b, <1>c, <2>1 DEF StateTypes
  <2> QED
    BY <2>1, <2>2 DEF RulesInv
<1>4. CASE Enter
  BY <1>4, <1>a, <1>b DEF Enter, session, history, batch, caller, doings, inject, RulesInv
<1>5. CASE RuleFails
  BY <1>5, <1>a, <1>b DEF RuleFails, Fails, EndsInError, Ends, history, doings, inject, RulesInv
<1>6. CASE Classify
  <2>1. st' \in {st, Classified(st, asked)} /\ round' \in {0, round + 1} /\ UNCHANGED <<promised, failures>>
    BY <1>6 DEF Classify, Save, Ends
  <2> QED
    BY <1>b, <2>1 DEF RulesInv
<1>7. CASE InnerFails
  BY <1>7, <1>a, <1>b DEF InnerFails, BreaksOff, Fails, EndsInError, Ends, history, doings, inject, RulesInv
<1>8. CASE Bind
  <2>1. st' = [st EXCEPT !.collected = {}] /\ UNCHANGED <<promised, failures, round>>
    BY <1>8 DEF Bind, caller
  <2>2. st'.rules = st.rules
    BY <1>c, <2>1 DEF StateTypes
  <2> QED
    BY <2>1, <2>2 DEF RulesInv
<1>9. ASSUME NEW c \in Calls, NEW how \in {"ok", "error", "terminate"}, RunTool(c, how)
      PROVE  RulesInv'
  BY <1>9, <1>a, <1>b DEF RunTool, session, history, run, caller, inject, RulesInv
<1>10. CASE EndBatch
  BY <1>10, <1>a, <1>b DEF EndBatch, session, history, run, caller, doings, inject, RulesInv
<1>11. CASE BatchFails
  BY <1>11, <1>a, <1>b DEF BatchFails, Ends, session, history, doings, inject, RulesInv
<1>12. CASE Terminate
  BY <1>12, <1>a, <1>b DEF Terminate, Save, Ends, history, doings, inject, RulesInv
<1>13. CASE CallModel
  BY <1>13, <1>a, <1>b DEF CallModel, DrainInjected, session, history, batch, caller, doings, RulesInv
<1>14. CASE ModelFails
  BY <1>14, <1>a, <1>b DEF ModelFails, BreaksOff, Fails, EndsInError, Ends, history, doings, inject, RulesInv
<1>15. CASE ModelText
  BY <1>15, <1>a, <1>b DEF ModelText, Persist, DrainInjected, Save, Ends, doings, RulesInv
<1>16. ASSUME NEW new \in SUBSET Calls, ModelCalls(new)
       PROVE  RulesInv'
  BY <1>16, <1>a, <1>b DEF ModelCalls, Persist, RecordSafe, caller, doings, RulesInv
<1>17. ASSUME NEW new \in SUBSET Calls, NEW read \in SUBSET new, Abandon(new, read)
       PROVE  RulesInv'
  BY <1>17, <1>a, <1>b DEF Abandon, Fails, Persist, Save, Ends, RecordSafe, doings, RulesInv
<1>18. CASE Enqueue
  BY <1>18, <1>a, <1>b DEF Enqueue, session, history, batch, run, caller, doings, RulesInv
<1>19. CASE Cancel
  BY <1>19, <1>a, <1>b DEF Cancel, Fails, session, history, batch, caller, doings, inject, RulesInv
<1>20. CASE Reload
  BY <1>20, <1>a, <1>b DEF Reload, history, batch, run, caller, doings, inject, RulesInv
<1> QED
  BY <1>1, <1>2, <1>3, <1>4, <1>5, <1>6, <1>7, <1>8, <1>9, <1>10, <1>11, <1>12, <1>13, <1>14,
     <1>15, <1>16, <1>17, <1>18, <1>19, <1>20 DEF Next

\* RuleHolds: a caller who approved a tool for the session is not asked about it again,
\* for requests queued before too, unless a run failed or reached its limit of
\* automatic rounds.
THEOREM RulesHold == Spec => RuleHolds
<1> DEFINE Step == failures = 0 /\ round < MaxRounds => \A c \in shown' \ shown : ToolOf[c] \notin promised
<1>1. TInv /\ RulesInv /\ [Next]_vars => [Step]_vars
  <2> SUFFICES ASSUME TInv, RulesInv, Next, failures = 0, round < MaxRounds,
                      NEW c \in shown' \ shown
               PROVE  ToolOf[c] \notin promised
    OBVIOUS
  <2>1. ~(round >= MaxRounds)
    BY AgentTurnAssumption DEF RulesInv
  <2>2. st \in StateTypes /\ asked \in Seq(Calls) /\ promised \subseteq st.rules
    BY DEF TInv, TypeOK, RulesInv
  <2>3. \A d \in Calls \ Passed(st) : ToolOf[d] \notin promised
    BY <2>2 DEF Passed, Approvable
  <2>4. CASE Surface
    <3>1. Drain(st).queued # <<>> /\ c = Head(Drain(st).queued)
      BY <2>4 DEF Surface
    <3>2. Drain(st).queued \in Seq(Calls) /\ InQueue(Drain(st).queued) \subseteq Calls \ Passed(st)
      BY <2>2, DrainMoves, ApprovalsOfPassed DEF StateTypes
    <3>3. c \in InQueue(Drain(st).queued)
      BY <3>1, <3>2, HeadAndTail
    <3> QED
      BY <2>3, <3>2, <3>3
  <2>5. CASE Classify
    <3> DEFINE needs == NeedsApproval(st, asked)
    <3>1. needs # <<>> /\ c = Head(needs) /\ pc = "classify"
      BY <2>1, <2>5 DEF Classify
    <3>2. needs \in Seq(Calls) /\ InQueue(needs) \subseteq Calls \ Passed(st)
      <4>1. st.queued = <<>>
        BY <3>1 DEF TInv, PhaseInv
      <4>2. needs \in Seq(Calls) /\ InQueue(needs) = InQueue(asked) \ Passed(st)
        BY <2>2, <4>1, ClassifyMoves
      <4>3. InQueue(asked) \subseteq Calls
        BY <2>2 DEF InQueue
      <4> QED
        BY <4>2, <4>3
    <3>3. c \in InQueue(needs)
      BY <3>1, <3>2, HeadAndTail
    <3> QED
      BY <2>3, <3>2, <3>3
  <2>6. CASE shown' = shown
    BY <2>6
  <2>7. ASSUME NEW new \in SUBSET Calls, NEW read \in SUBSET new, Abandon(new, read)
        PROVE  shown' = shown
    BY <2>1, <2>7 DEF Abandon
  <2> QED
    BY <2>4, <2>5, <2>6, <2>7 DEF Next, Receive, Enter, RuleFails, InnerFails, Bind, RunTool, EndBatch,
       BatchFails, Terminate, CallModel, ModelFails, ModelText, ModelCalls, Enqueue, Cancel, Reload,
       session, history, batch, caller
<1> QED
  BY TInit, TStep, RulesInit, RulesStep, <1>1, PTL DEF Spec, RuleHolds

-----------------------------------------------------------------------------
(* Injected messages                                                       *)

\* Increasing, and not above n.
Rising(s, n) ==
  /\ \A i, j \in 1..Len(s) : i < j => s[i] < s[j]
  /\ \A i \in 1..Len(s) : s[i] <= n

\* A message more, above all others.
LEMMA RisesOn ==
  ASSUME NEW s \in Seq(Nat), NEW n \in Nat, Rising(s, n)
  PROVE  /\ Append(s, n + 1) \in Seq(Nat) /\ Rising(Append(s, n + 1), n + 1)
         /\ Len(Append(s, n + 1)) = Len(s) + 1
<1> DEFINE t == Append(s, n + 1)
<1>1. /\ t \in Seq(Nat) /\ Len(s) \in Nat /\ Len(t) = Len(s) + 1 /\ t[Len(s) + 1] = n + 1
      /\ \A i \in 1..Len(s) : t[i] = s[i] /\ s[i] \in Nat
  OBVIOUS
<1> HIDE DEF t
<1>2. \A i \in 1..(Len(s) + 1) : i \in 1..Len(s) \/ i = Len(s) + 1
  BY <1>1
<1>3. ASSUME NEW i \in 1..Len(t), NEW j \in 1..Len(t), i < j PROVE t[i] < t[j]
  <2>1. i \in 1..Len(s) /\ t[i] = s[i] /\ s[i] \in Nat /\ s[i] <= n
    BY <1>1, <1>3 DEF Rising
  <2>2. CASE j \in 1..Len(s)
    BY <1>1, <1>3, <2>1, <2>2 DEF Rising
  <2>3. CASE j = Len(s) + 1
    BY <1>1, <2>1, <2>3
  <2> QED
    BY <1>1, <1>2, <2>2, <2>3
<1>4. ASSUME NEW i \in 1..Len(t) PROVE t[i] <= n + 1
  <2>1. CASE i \in 1..Len(s)
    BY <1>1, <2>1 DEF Rising
  <2>2. CASE i = Len(s) + 1
    BY <1>1, <2>2
  <2> QED
    BY <1>1, <1>2, <2>1, <2>2
<1>5. Rising(t, n + 1)
  BY <1>3, <1>4 DEF Rising
<1> QED
  BY <1>1, <1>5 DEF t

\* Three queues, one after the other.
LEMMA Joined ==
  ASSUME NEW a \in Seq(Nat), NEW b \in Seq(Nat), NEW c \in Seq(Nat)
  PROVE  /\ a \o b \in Seq(Nat) /\ a \o b \o c \in Seq(Nat)
         /\ (a \o b) \o c = a \o (b \o c)
         /\ a \o <<>> = a /\ <<>> \o a = a
<1>1. a \o b \in Seq(Nat) /\ a \o b \o c \in Seq(Nat)
  OBVIOUS
<1>2. (a \o b) \o c = a \o (b \o c)
  OBVIOUS
<1>3. a \o <<>> = a /\ <<>> \o a = a
  OBVIOUS
<1> QED
  BY <1>1, <1>2, <1>3

\* Two queues, and one more at the end of the second.
LEMMA JoinedAppend ==
  ASSUME NEW a \in Seq(Nat), NEW b \in Seq(Nat), NEW x \in Nat
  PROVE  a \o Append(b, x) = Append(a \o b, x)
  OBVIOUS

\* What is left when those in the middle are lost still rises.
LEMMA RisesWithout ==
  ASSUME NEW a \in Seq(Nat), NEW b \in Seq(Nat), NEW c \in Seq(Nat), NEW n \in Nat,
         Rising(a \o b \o c, n)
  PROVE  Rising(a \o c, n)
<1> DEFINE all  == a \o b \o c
           rest == a \o c
           at(i) == IF i <= Len(a) THEN i ELSE i + Len(b)
<1>1. /\ Len(a) \in Nat /\ Len(b) \in Nat /\ Len(c) \in Nat
      /\ Len(all) = Len(a) + Len(b) + Len(c) /\ Len(rest) = Len(a) + Len(c)
  OBVIOUS
<1>2. \A i \in 1..Len(rest) : rest[i] = IF i <= Len(a) THEN a[i] ELSE c[i - Len(a)]
  OBVIOUS
<1>3. \A i \in 1..Len(a) : all[i] = a[i]
  OBVIOUS
<1>4. \A i \in 1..Len(c) : all[Len(a) + Len(b) + i] = c[i]
  OBVIOUS
<1> HIDE DEF all, rest
<1>5. \A i \in 1..Len(rest) : at(i) \in 1..Len(all) /\ rest[i] = all[at(i)]
  <2> SUFFICES ASSUME NEW i \in 1..Len(rest) PROVE at(i) \in 1..Len(all) /\ rest[i] = all[at(i)]
    OBVIOUS
  <2>1. CASE i <= Len(a)
    BY <1>1, <1>2, <1>3, <2>1
  <2>2. CASE ~(i <= Len(a))
    <3>1. i - Len(a) \in 1..Len(c) /\ Len(a) + Len(b) + (i - Len(a)) = i + Len(b)
      BY <1>1, <2>2
    <3>2. rest[i] = c[i - Len(a)]
      BY <1>2, <2>2
    <3>3. all[Len(a) + Len(b) + (i - Len(a))] = c[i - Len(a)]
      BY <1>4, <3>1
    <3>4. at(i) = i + Len(b) /\ i + Len(b) \in 1..Len(all)
      BY <1>1, <2>2
    <3> QED
      BY <3>1, <3>2, <3>3, <3>4
  <2> QED
    BY <2>1, <2>2
<1>6. \A i, j \in 1..Len(rest) : i < j => at(i) < at(j)
  BY <1>1
<1> HIDE DEF at
<1>7. Rising(all, n)
  BY DEF all
<1>8. Rising(rest, n)
  BY <1>5, <1>6, <1>7 DEF Rising
<1> QED
  BY <1>8 DEF rest

\* What was injected and not lost: what the model has heard, what goes along with the
\* call under way, and what waits.
InjectInv ==
  /\ heard \in Seq(Nat) /\ inflight \in Seq(Nat) /\ injected \in Seq(Nat) /\ sent \in Nat
  /\ Rising(heard \o inflight \o injected, sent)
  /\ failures = 0 => Len(heard \o inflight \o injected) = sent
  /\ pc # "calling" => inflight = <<>>

\* Nothing is injected at first.
LEMMA InjectInit == Init => InjectInv
  BY DEF Init, InjectInv, Rising

\* What leaves the three queues together as they are.
LEMMA InjectKeeps ==
  ASSUME InjectInv, heard' \in Seq(Nat), inflight' \in Seq(Nat), injected' \in Seq(Nat),
         heard' \o inflight' \o injected' = heard \o inflight \o injected,
         sent' = sent, failures' = 0 => failures = 0, pc' # "calling" => inflight' = <<>>
  PROVE  InjectInv'
  BY DEF InjectInv

\* What loses those that went with a call, with a failure.
LEMMA InjectLoses ==
  ASSUME InjectInv, UNCHANGED <<heard, injected, sent>>, inflight' = <<>>, failures' > 0
  PROVE  InjectInv'
<1>1. Rising(heard \o injected, sent)
  BY RisesWithout DEF InjectInv
<1>2. heard \o <<>> = heard
  BY Joined DEF InjectInv
<1> QED
  BY <1>1, <1>2 DEF InjectInv, Rising

\* Every action keeps the order and loses nothing without a failure.
LEMMA InjectStep == TInv /\ InjectInv /\ [Next]_vars => InjectInv'
<1> SUFFICES ASSUME TInv, InjectInv, [Next]_vars PROVE InjectInv'
  OBVIOUS
<1>a. failures \in Nat /\ (cancelled => failures > 0)
  BY AgentTurnAssumption DEF TInv, TypeOK, BookInv
<1>b. /\ heard \in Seq(Nat) /\ inflight \in Seq(Nat) /\ injected \in Seq(Nat) /\ <<>> \in Seq(Nat)
      /\ pc # "calling" => inflight = <<>>
  BY DEF InjectInv
<1>c. /\ (heard \o inflight) \o <<>> = heard \o inflight
      /\ heard \o <<>> = heard
      /\ heard \o inflight \in Seq(Nat)
      /\ heard \o injected \o <<>> = heard \o injected
      /\ (heard \o inflight) \o injected \o <<>> = (heard \o inflight) \o injected
  BY <1>b, Joined
<1>d. UNCHANGED <<heard, inflight, injected, sent>> /\ (failures' = 0 => failures = 0)
        /\ (pc' # "calling" => inflight = <<>>) => InjectInv'
  BY <1>b, InjectKeeps
<1>e. pc # "calling" /\ UNCHANGED <<heard, injected, sent>> /\ inflight' = <<>> /\ (failures' = 0 => failures = 0) => InjectInv'
  BY <1>b, InjectKeeps
<1>f. UNCHANGED <<heard, injected, sent>> /\ inflight' = <<>> /\ failures' > 0 => InjectInv'
  BY InjectLoses
<1>1. CASE UNCHANGED vars
  BY <1>1, <1>a, <1>b, <1>d DEF vars, session, history, batch, caller, doings, inject, run, InjectInv
<1>2. ASSUME NEW answers \in Answers, Receive(answers)
      PROVE  InjectInv'
  BY <1>2, <1>a, <1>b, <1>d DEF Receive, history, doings, inject, InjectInv
<1>3. CASE Surface
  BY <1>3, <1>a, <1>b, <1>e DEF Surface, Save, Ends, history, doings, inject
<1>4. CASE Enter
  BY <1>4, <1>a, <1>b, <1>d DEF Enter, session, history, batch, caller, doings, inject, InjectInv
<1>5. CASE RuleFails
  BY <1>5, <1>a, <1>b, <1>f DEF RuleFails, Fails, EndsInError, Ends, history, doings, inject
<1>6. CASE Classify
  BY <1>6, <1>a, <1>b, <1>d, <1>e DEF Classify, Save, Ends, history, batch, doings, inject
<1>7. CASE InnerFails
  BY <1>7, <1>a, <1>b, <1>f DEF InnerFails, BreaksOff, Fails, EndsInError, Ends, history, doings, inject
<1>8. CASE Bind
  BY <1>8, <1>a, <1>b, <1>d DEF Bind, StillPending, StillAuto, history, caller, inject, InjectInv
<1>9. ASSUME NEW c \in Calls, NEW how \in {"ok", "error", "terminate"}, RunTool(c, how)
      PROVE  InjectInv'
  BY <1>9, <1>a, <1>b, <1>d DEF RunTool, session, history, run, caller, inject, InjectInv
<1>10. CASE EndBatch
  BY <1>10, <1>a, <1>b, <1>d DEF EndBatch, session, history, run, caller, doings, inject, InjectInv
<1>11. CASE BatchFails
  BY <1>11, <1>a, <1>b, <1>e DEF BatchFails, Ends, session, history, doings, inject
<1>12. CASE Terminate
  BY <1>12, <1>a, <1>b, <1>e DEF Terminate, Save, Ends, history, doings, inject
<1>13. CASE CallModel
  <2>1. /\ inflight' = injected /\ injected' = <<>> /\ heard' = heard /\ sent' = sent /\ pc = "model"
        /\ pc' = "calling" /\ failures' = failures
    BY <1>13 DEF CallModel, DrainInjected
  <2>2. heard' \o inflight' \o injected' = heard \o inflight \o injected
    BY <1>b, <1>c, <2>1
  <2> QED
    BY <1>b, <2>1, <2>2, InjectKeeps
<1>14. CASE ModelFails
  BY <1>14, <1>a, <1>b, <1>f DEF ModelFails, BreaksOff, Fails, EndsInError, Ends, history, doings, inject
<1>15. CASE ModelText
  <2>1. /\ heard' = heard \o inflight /\ sent' = sent /\ failures' = failures /\ pc = "calling"
        /\ \/ injected # <<>> /\ inflight' = injected /\ injected' = <<>> /\ pc' = pc
           \/ injected = <<>> /\ inflight' = <<>> /\ injected' = injected
    BY <1>15 DEF ModelText, Persist, DrainInjected, Ends
  <2>2. heard' \o inflight' \o injected' = heard \o inflight \o injected
    BY <1>c, <2>1
  <2> QED
    BY <1>b, <1>c, <2>1, <2>2, InjectKeeps
<1>16. ASSUME NEW new \in SUBSET Calls, ModelCalls(new)
       PROVE  InjectInv'
  <2>1. /\ heard' = heard \o inflight /\ sent' = sent /\ injected' = injected /\ inflight' = <<>>
        /\ (failures' = 0 => failures = 0)
    BY <1>16, <1>a DEF ModelCalls, Persist
  <2>2. heard' \o inflight' \o injected' = heard \o inflight \o injected
    BY <1>c, <2>1
  <2> QED
    BY <1>b, <1>c, <2>1, <2>2, InjectKeeps
<1>17. ASSUME NEW new \in SUBSET Calls, NEW read \in SUBSET new, Abandon(new, read)
       PROVE  InjectInv'
  <2>1. /\ heard' = heard \o inflight /\ sent' = sent /\ injected' = injected /\ inflight' = <<>>
        /\ (failures' = 0 => failures = 0)
    BY <1>17, <1>a DEF Abandon, Persist, Ends, Fails
  <2>2. heard' \o inflight' \o injected' = heard \o inflight \o injected
    BY <1>c, <2>1
  <2> QED
    BY <1>b, <1>c, <2>1, <2>2, InjectKeeps
<1>18. CASE Enqueue
  <2>1. /\ sent' = sent + 1 /\ injected' = Append(injected, sent + 1)
        /\ UNCHANGED <<heard, inflight, pc, failures>>
    BY <1>18 DEF Enqueue, run
  <2> DEFINE first == heard \o inflight
             all   == first \o injected
  <2>2. sent \in Nat /\ sent + 1 \in Nat /\ first \in Seq(Nat) /\ all \in Seq(Nat)
    BY <1>b, Joined DEF InjectInv
  <2>3. Rising(all, sent) /\ (failures = 0 => Len(all) = sent)
    BY DEF InjectInv
  <2>4. heard' \o inflight' \o injected' = first \o Append(injected, sent + 1)
    BY <2>1
  <2> HIDE DEF first
  <2>5. first \o Append(injected, sent + 1) = Append(all, sent + 1)
    <3>1. first \o Append(injected, sent + 1) = Append(first \o injected, sent + 1)
      BY <1>b, <2>2, JoinedAppend
    <3> QED
      BY <3>1 DEF all
  <2> HIDE DEF all
  <2>6. heard' \o inflight' \o injected' = Append(all, sent + 1)
    BY <2>4, <2>5
  <2>7. Rising(Append(all, sent + 1), sent + 1) /\ Len(Append(all, sent + 1)) = Len(all) + 1
    BY <2>2, <2>3, RisesOn
  <2>8. /\ Rising(heard' \o inflight' \o injected', sent')
        /\ failures' = 0 => Len(heard' \o inflight' \o injected') = sent'
    BY <2>1, <2>3, <2>6, <2>7
  <2>9. /\ heard' \in Seq(Nat) /\ inflight' \in Seq(Nat) /\ injected' \in Seq(Nat) /\ sent' \in Nat
        /\ pc' # "calling" => inflight' = <<>>
    BY <1>b, <2>1, <2>2
  <2> QED
    BY <2>8, <2>9 DEF InjectInv
<1>19. CASE Cancel
  BY <1>19, <1>a, <1>b, <1>d DEF Cancel, Fails, session, history, batch, caller, doings, inject, InjectInv
<1>20. CASE Reload
  BY <1>20, <1>a, <1>b, <1>d DEF Reload, history, batch, run, caller, doings, inject, InjectInv
<1> QED
  BY <1>1, <1>2, <1>3, <1>4, <1>5, <1>6, <1>7, <1>8, <1>9, <1>10, <1>11, <1>12, <1>13, <1>14,
     <1>15, <1>16, <1>17, <1>18, <1>19, <1>20 DEF Next

\* InjectedOnce: injected messages reach the model once and in the order they came in,
\* and none is lost but by a run that fails.
THEOREM InjectedAreOnce == Spec => []InjectedOnce
<1>1. InjectInv => InjectedOnce
  <2> SUFFICES ASSUME InjectInv PROVE InjectedOnce
    OBVIOUS
  <2> DEFINE all == heard \o inflight \o injected
  <2>1. all \in Seq(Nat) /\ Rising(all, sent) /\ (failures = 0 => Len(all) = sent)
    BY Joined DEF InjectInv
  <2> HIDE DEF all
  <2>2. Len(all) \in Nat
    BY <2>1
  <2>3. \A k \in 2..Len(all) : all[k - 1] < all[k]
    <3> SUFFICES ASSUME NEW k \in 2..Len(all) PROVE all[k - 1] < all[k]
      OBVIOUS
    <3>1. k - 1 \in 1..Len(all) /\ k \in 1..Len(all) /\ k - 1 < k
      BY <2>2
    <3> QED
      BY <2>1, <3>1 DEF Rising
  <2> QED
    BY <2>1, <2>3 DEF InjectedOnce, all
<1> QED
  BY TInit, TStep, InjectInit, InjectStep, <1>1, PTL DEF Spec

-----------------------------------------------------------------------------
(* The books agree                                                         *)

\* Without failures a request is in one of the books, and these are the requests the inner
\* middleware waits for; between turns the JSON, if it counts, has what is surfaced.
AgreeInv ==
  /\ pending \cap (results \cup handed) = {}
  /\ failures = 0 =>
       /\ IsInjective(st.queued) /\ IsInjective(asked)
       /\ surfaced \cap InQueue(st.queued) = {}
       /\ (surfaced \cup InQueue(st.queued)) \cap (CallsOf(st.collected) \cup CallsOf(mine)) = {}
       /\ (surfaced \cup InQueue(st.queued) \cup CallsOf(st.collected) \cup CallsOf(mine)) \cap InQueue(asked) = {}
       /\ surfaced \cup InQueue(st.queued) \cup CallsOf(st.collected) \cup CallsOf(mine) \cup InQueue(asked) = pending
       /\ pc = "idle" /\ raw # {} => UNION raw = surfaced

LEMMA AppendDistinct ==
  ASSUME NEW S, NEW q \in Seq(S), NEW c \in S, IsInjective(q), c \notin InQueue(q)
  PROVE  IsInjective(Append(q, c))
<1> DEFINE n == Len(q)  r == Append(q, c)
<1>1. /\ n \in Nat /\ DOMAIN q = 1 .. n /\ DOMAIN r = 1 .. n + 1
      /\ \A k \in 1 .. n : r[k] = q[k]
      /\ r[n + 1] = c
  OBVIOUS
<1>2. \A k \in 1 .. n : q[k] # c
  BY <1>1 DEF InQueue
<1>3. \A i, j \in 1 .. n : q[i] = q[j] => i = j
  BY <1>1 DEF IsInjective
<1> HIDE DEF n, r
<1>4. \A k \in 1 .. n + 1 : k # n + 1 => k \in 1 .. n
  BY <1>1
<1>5. \A i, j \in 1 .. n + 1 : r[i] = r[j] => i = j
  BY <1>1, <1>2, <1>3, <1>4
<1>6. IsInjective(r)
  BY <1>1, <1>5 DEF IsInjective
<1> QED
  BY <1>6 DEF r

LEMMA TailDistinct ==
  ASSUME NEW S, NEW q \in Seq(S), q # <<>>, IsInjective(q)
  PROVE  IsInjective(Tail(q)) /\ Head(q) \notin InQueue(Tail(q))
<1> DEFINE n == Len(q)  r == Tail(q)
<1>1. /\ n \in Nat \ {0} /\ DOMAIN q = 1 .. n /\ DOMAIN r = 1 .. n - 1 /\ Head(q) = q[1]
      /\ \A k \in 1 .. n - 1 : r[k] = q[k + 1]
  OBVIOUS
<1>2. \A i, j \in 1 .. n : q[i] = q[j] => i = j
  BY <1>1 DEF IsInjective
<1> HIDE DEF n, r
<1>3. \A k \in 1 .. n - 1 : k + 1 \in 1 .. n /\ k + 1 # 1
  BY <1>1
<1>4. \A i, j \in 1 .. n - 1 : i + 1 = j + 1 => i = j
  BY <1>1
<1>5. IsInjective(r)
  <2> SUFFICES ASSUME NEW i \in 1 .. n - 1, NEW j \in 1 .. n - 1, r[i] = r[j] PROVE i = j
    BY <1>1 DEF IsInjective
  <2>1. q[i + 1] = q[j + 1]
    BY <1>1
  <2>2. i + 1 = j + 1
    BY <1>2, <1>3, <2>1
  <2> QED
    BY <1>4, <2>2
<1>6. 1 \in 1 .. n
  BY <1>1
<1>7. \A k \in 1 .. n - 1 : r[k] # q[1]
  BY <1>1, <1>2, <1>3, <1>6
<1>8. q[1] \notin InQueue(r)
  BY <1>1, <1>7 DEF InQueue
<1> QED
  BY <1>1, <1>5, <1>8 DEF r

\* Taking calls out of a queue puts none in it twice.
LEMMA WithoutDistinct ==
  ASSUME NEW S, NEW s \in Seq(S), NEW D, IsInjective(s)
  PROVE  IsInjective(Without(s, D))
<1> DEFINE f == CHOOSE g : Up(g, s, D, Len(s))
           First(k) == {s[i] : i \in 1..k}
           Right(k) == f[k] \in Seq(S) /\ InQueue(f[k]) \subseteq First(k) /\ IsInjective(f[k])
           T == {k \in 0..Len(s) : ~Right(k)}
<1>1. Len(s) \in Nat /\ DOMAIN s = 1..Len(s) /\ \A k \in 1..Len(s) : s[k] \in S
  OBVIOUS
<1>2. Up(f, s, D, Len(s))
  BY <1>1, UpExists
<1>3. Without(s, D) = f[Len(s)]
  BY DEF Without, Up
<1>4. \A k \in 0..Len(s) : f[k] = IF k = 0 THEN <<>> ELSE IF s[k] \in D THEN f[k - 1] ELSE Append(f[k - 1], s[k])
  BY <1>2 DEF Up
<1> HIDE DEF f
<1>5. T = {}
  <2> SUFFICES ASSUME T # {} PROVE FALSE
    OBVIOUS
  <2>1. PICK m \in T : \A k \in T : m <= k
    <3>1. T \subseteq Nat BY <1>1
    <3> HIDE DEF T
    <3> QED BY <3>1, Least
  <2>2. m \in 0..Len(s) /\ ~Right(m)
    OBVIOUS
  <2>3. m # 0
    <3>1. f[0] = <<>> BY <1>1, <1>4
    <3>2. Right(0) BY <3>1 DEF InQueue, IsInjective
    <3> QED BY <3>2, <2>2
  <2>4. m - 1 \in 0..Len(s) /\ m \in 1..Len(s) /\ ~(m <= m - 1)
    BY <2>2, <2>3, <1>1
  <2>5. Right(m - 1)
    BY <2>1, <2>4
  <2>6. First(m) = First(m - 1) \cup {s[m]}
    <3>1. 1..m = 1..(m - 1) \cup {m} BY <2>4
    <3> QED BY <3>1
  <2>7. s[m] \in S BY <1>1, <2>4
  <2>8. f[m] = IF s[m] \in D THEN f[m - 1] ELSE Append(f[m - 1], s[m])
    BY <1>4, <2>2, <2>3
  <2>9. s[m] \notin First(m - 1)
    <3>1. \A i \in 1 .. m - 1 : i \in DOMAIN s /\ i # m
      BY <1>1, <2>4
    <3>2. m \in DOMAIN s
      BY <1>1, <2>4
    <3> QED
      BY <3>1, <3>2 DEF IsInjective
  <2> HIDE DEF First
  <2>10. CASE s[m] \in D
    BY <2>5, <2>6, <2>8, <2>10, <2>2
  <2>11. CASE s[m] \notin D
    <3>1. /\ Append(f[m - 1], s[m]) \in Seq(S)
          /\ InQueue(Append(f[m - 1], s[m])) = InQueue(f[m - 1]) \cup {s[m]}
      BY <2>5, <2>7, AppendQueue
    <3>2. IsInjective(Append(f[m - 1], s[m]))
      BY <2>5, <2>7, <2>9, AppendDistinct
    <3> QED BY <3>1, <3>2, <2>5, <2>6, <2>8, <2>11, <2>2
  <2> QED BY <2>10, <2>11
<1>6. Right(Len(s))
  <2>1. Len(s) \in 0..Len(s)
    BY <1>1
  <2> HIDE DEF Right
  <2> QED
    BY <2>1, <1>5
<1> QED
  BY <1>3, <1>6

\* An order of calls has each once.
LEMMA OrdersDistinct ==
  ASSUME NEW A \in SUBSET Calls, NEW q \in Orders(A)
  PROVE  IsInjective(q)
<1> DEFINE n == Cardinality(A)
<1>1. n \in Nat
  BY ToolsAssumption, FS_Subset, FS_CardinalityType
<1>2. q \in [1..n -> A] /\ \A c \in A : c \in InQueue(q)
  BY DEF Orders
<1> HIDE DEF n
<1>3. q \in Surjection(1..n, A)
  BY <1>2 DEF InQueue, Surjection
<1>4. IsFiniteSet(1..n) /\ Cardinality(1..n) = n
  <2>1. IsFiniteSet(1..n) /\ Cardinality(1..n) = IF 1 > n THEN 0 ELSE n - 1 + 1
    BY <1>1, FS_Interval
  <2> QED
    BY <1>1, <2>1
<1>5. Cardinality(1..n) = Cardinality(A)
  BY <1>4 DEF n
<1>6. q \in Injection(1..n, A)
  BY <1>3, <1>4, <1>5, FS_SurjSameCardinalityImpliesInj
<1> QED
  BY <1>2, <1>6 DEF Injection, IsInjective

\* The answers that count are those to surfaced requests, and no others.
LEMMA InboundOnly ==
  ASSUME NEW s \in StateTypes, NEW answers \in Answers, NEW known, known \subseteq Calls
  PROVE  LET t    == PrepareInbound(s, answers, known)
             kept == KeptInMessages(s, answers, known)
         IN  CallsOf(t.collected) \cup CallsOf(kept) = CallsOf(s.collected) \cup (known \cap DOMAIN answers)
<1> DEFINE bound == Bound(answers, known)
           t == PrepareInbound(s, answers, known)
           kept == KeptInMessages(s, answers, known)
<1>1. CallsOf(bound) = known \cap DOMAIN answers
  <2>1. ASSUME NEW r \in bound PROVE r[1] \in known \cap DOMAIN answers
    <3>1. PICK c \in DOMAIN answers \cap known : r = <<c, answers[c] # "no">>
      BY Zenon DEF Bound
    <3> QED
      BY <3>1
  <2>2. \A c \in DOMAIN answers \cap known : <<c, answers[c] # "no">> \in bound /\ <<c, answers[c] # "no">>[1] = c
    BY DEF Bound
  <2> HIDE DEF bound
  <2>3. CallsOf(bound) \subseteq known \cap DOMAIN answers
    BY <2>1 DEF CallsOf
  <2>4. known \cap DOMAIN answers \subseteq CallsOf(bound)
    BY <2>2, Zenon DEF CallsOf
  <2> QED
    BY <2>3, <2>4
<1>2. /\ t.collected = s.collected \cup (IF Collects(s) THEN bound ELSE {})
      /\ kept = IF Collects(s) THEN {} ELSE bound
  BY DEF PrepareInbound, KeptInMessages
<1> HIDE DEF bound, t, kept
<1>3. CallsOf(t.collected) \cup CallsOf(kept) = CallsOf(t.collected \cup kept)
      /\ CallsOf(s.collected \cup bound) = CallsOf(s.collected) \cup CallsOf(bound)
  BY BooksOfNothing
<1>4. t.collected \cup kept = s.collected \cup bound
  BY <1>2
<1> QED
  BY <1>1, <1>3, <1>4 DEF t, kept

LEMMA AgreeInit == Init => AgreeInv
<1> SUFFICES ASSUME Init PROVE AgreeInv
  OBVIOUS
<1>1. IsInjective(<<>>)
  BY DEF IsInjective
<1>2. /\ st = NoState /\ surfaced = {} /\ pending = {} /\ mine = {} /\ asked = <<>> /\ raw = {}
  BY DEF Init
<1> QED
  BY <1>1, <1>2, BooksOfNothing DEF AgreeInv, NoState

\* Every action moves a request from one book to another (toolapproval.run, autocall.run).
LEMMA AgreeStep == TInv /\ TInv' /\ AgreeInv /\ [Next]_vars => AgreeInv'
<1> SUFFICES ASSUME TInv, TInv', AgreeInv, [Next]_vars PROVE AgreeInv'
  OBVIOUS
<1>a. /\ InQueue(<<>>) = {} /\ CallsOf({}) = {} /\ IsInjective(<<>>)
      /\ \A r1, r2 : CallsOf(r1 \cup r2) = CallsOf(r1) \cup CallsOf(r2)
  BY BooksOfNothing DEF IsInjective
<1>b. failures \in Nat
  BY AgentTurnAssumption DEF TInv, TypeOK
<1>c. /\ pending \cap todo = {} /\ pending \subseteq called /\ results \cup handed \subseteq called
  BY DEF TInv, OneInv, BookInv
<1>1. CASE UNCHANGED vars
  BY <1>1 DEF vars, session, batch, caller, run, AgreeInv
<1>2. ASSUME NEW answers \in Answers, Receive(answers)
      PROVE  AgreeInv'
  <2> DEFINE t    == PrepareInbound(saved, answers, surfaced)
             kept == KeptInMessages(saved, answers, surfaced)
  <2>1. surfaced \subseteq Calls /\ saved \in StateTypes
    BY DEF TInv, TypeOK
  <2>2. /\ t.queued = saved.queued
        /\ CallsOf(t.collected) \cup CallsOf(kept) = CallsOf(saved.collected) \cup (surfaced \cap DOMAIN answers)
    BY <2>1, InboundMoves, InboundOnly
  <2>3. /\ st' = t /\ mine' = kept /\ surfaced' = surfaced \ DOMAIN answers /\ pc' = "turn"
        /\ results' = handed /\ handed' = {} /\ pc = "idle"
        /\ UNCHANGED <<pending, asked, failures>>
    BY <1>2 DEF Receive
  <2>4. st = saved /\ mine = {}
    BY <2>3 DEF TInv, PhaseInv
  <2> HIDE DEF t, kept
  <2> QED
    BY <1>a, <2>2, <2>3, <2>4 DEF AgreeInv
<1>3. CASE Surface
  <2> DEFINE s == Drain(st)
  <2>1. st \in StateTypes
    BY DEF TInv, TypeOK
  <2>2. /\ s \in StateTypes /\ s.queued # <<>> /\ s.queued \in Seq(Calls)
        /\ InQueue(s.queued) = InQueue(st.queued) \ Passed(st)
        /\ CallsOf(s.collected) = CallsOf(st.collected) \cup (InQueue(st.queued) \cap Passed(st))
    BY <1>3, <2>1, DrainMoves DEF Surface, StateTypes
  <2>3. /\ saved' = [s EXCEPT !.queued = Tail(@)] /\ st' = saved' /\ raw' = {}
        /\ surfaced' = surfaced \cup {Head(s.queued)}
        /\ pc = "turn" /\ handed' = handed /\ results' = {} /\ mine' = {} /\ asked' = <<>>
        /\ UNCHANGED <<pending, failures>>
    BY <1>3 DEF Surface, Save, Ends
  <2>4. IsInjective(st.queued) => IsInjective(s.queued)
    <3>1. s.queued = Without(st.queued, {c \in Calls : Approvable(st.rules, c)}) /\ st.queued \in Seq(Calls)
      BY <2>1 DEF Drain, NeedsApproval, StateTypes
    <3> QED
      BY <3>1, WithoutDistinct
  <2> HIDE DEF s
  <2>5. InQueue(s.queued) = {Head(s.queued)} \cup InQueue(Tail(s.queued))
    BY <2>2, HeadAndTail
  <2>6. st'.queued = Tail(s.queued) /\ st'.collected = s.collected
    BY <2>2, <2>3 DEF StateTypes
  <2>7. IsInjective(st.queued) => IsInjective(st'.queued) /\ Head(s.queued) \notin InQueue(st'.queued)
    BY <2>2, <2>4, <2>6, TailDistinct
  <2>8. mine = {} /\ asked = <<>> /\ handed = {}
    <3>1. st.queued # <<>>
      BY <1>3, <2>1, DrainMoves DEF Surface
    <3> QED
      BY <2>3, <3>1 DEF TInv, PhaseInv
  <2> QED
    BY <1>a, <2>2, <2>3, <2>5, <2>6, <2>7, <2>8 DEF AgreeInv
<1>4. CASE Enter
  <2>1. st \in StateTypes
    BY DEF TInv, TypeOK
  <2>2. /\ st'.queued = <<>> /\ InQueue(st.queued) \subseteq Passed(st)
        /\ CallsOf(st'.collected) = CallsOf(st.collected) \cup InQueue(st.queued)
    BY <1>4, <1>a, <2>1, DrainMoves DEF Enter
  <2>3. UNCHANGED <<results, handed, pending, surfaced, mine, asked, failures>> /\ pc' = "inner"
    BY <1>4 DEF Enter, session, batch, caller
  <2> QED
    BY <1>a, <2>2, <2>3 DEF AgreeInv
<1>5. CASE RuleFails \/ InnerFails \/ ModelFails
  <2>1. EndsInError /\ pending' = pending
    BY <1>5 DEF RuleFails, InnerFails, ModelFails
  <2>2. handed' = handed \cup results /\ results' = {}
    BY <2>1 DEF EndsInError, Ends
  <2>3. failures' > 0
    BY <1>5, <1>b DEF RuleFails, InnerFails, ModelFails, BreaksOff, Fails, TInv, BookInv
  <2> QED
    BY <2>1, <2>2, <2>3 DEF AgreeInv
<1>6. CASE Classify
  <2> DEFINE s     == Classified(st, asked)
             needs == NeedsApproval(st, asked)
             show  == IF round >= MaxRounds THEN InQueue(asked) ELSE IF needs = <<>> THEN {} ELSE {Head(needs)}
  <2>1. st \in StateTypes /\ st.queued = <<>> /\ asked \in Seq(Calls) /\ mine = {} /\ st.collected = {}
        /\ results = {} /\ handed = {}
    BY <1>6 DEF Classify, TInv, TypeOK, PhaseInv
  <2>2. /\ needs \in Seq(Calls) /\ InQueue(needs) = InQueue(asked) \ Passed(st)
        /\ CallsOf(s.collected) = CallsOf(st.collected) \cup (InQueue(asked) \cap Passed(st))
        /\ needs = <<>> => s.queued = <<>>
        /\ needs # <<>> => /\ s.queued = Tail(needs)
                           /\ InQueue(needs) = {Head(needs)} \cup InQueue(Tail(needs))
    BY <2>1, ClassifyMoves
  <2>3. /\ surfaced' = surfaced \cup show
        /\ IF show # {} THEN st' = (IF round >= MaxRounds THEN st ELSE s) /\ Ends({}) /\ raw' = {}
                        ELSE st' = s /\ asked' = <<>> /\ pc' = "inner" /\ UNCHANGED <<handed, results, mine>>
        /\ UNCHANGED <<pending, failures>>
    BY <1>6 DEF Classify, Save, batch
  <2>4. IsInjective(asked) => IsInjective(needs)
    BY <2>1, WithoutDistinct DEF NeedsApproval
  <2> HIDE DEF s, needs
  <2>5. IsInjective(asked) /\ needs # <<>> => IsInjective(s.queued) /\ Head(needs) \notin InQueue(s.queued)
    BY <2>2, <2>4, TailDistinct
  <2>6. asked' = <<>> /\ mine' = {} /\ results' = {} /\ handed' = {}
    BY <2>1, <2>3 DEF Ends
  <2>7. CASE round >= MaxRounds
    <3>1. surfaced' = surfaced \cup InQueue(asked)
      BY <2>3, <2>7
    <3>2. st'.queued = <<>> /\ CallsOf(st'.collected) = {}
      <4>1. CASE InQueue(asked) # {}
        BY <1>a, <2>1, <2>3, <2>7, <4>1
      <4>2. CASE InQueue(asked) = {}
        <5>1. st' = s
          BY <2>3, <2>7, <4>2
        <5>2. needs = <<>>
          BY <2>2, <4>2, EmptyQueue
        <5> QED
          BY <1>a, <2>1, <2>2, <4>2, <5>1, <5>2
      <4> QED
        BY <4>1, <4>2
    <3>3. raw' = {} \/ pc' # "idle"
      BY <2>3
    <3> QED
      BY <1>a, <2>1, <2>3, <2>6, <3>1, <3>2, <3>3 DEF AgreeInv
  <2>8. CASE ~(round >= MaxRounds) /\ needs = <<>>
    <3>1. surfaced' = surfaced /\ st' = s /\ pc' = "inner"
      BY <2>3, <2>8
    <3>2. s.queued = <<>> /\ CallsOf(s.collected) = InQueue(asked)
      BY <1>a, <2>1, <2>2, <2>8
    <3> QED
      BY <1>a, <2>1, <2>3, <2>6, <3>1, <3>2 DEF AgreeInv
  <2>9. CASE ~(round >= MaxRounds) /\ needs # <<>>
    <3>1. surfaced' = surfaced \cup {Head(needs)} /\ st' = s /\ raw' = {}
      BY <2>3, <2>9
    <3>2. /\ CallsOf(s.collected) = InQueue(asked) \cap Passed(st)
          /\ {Head(needs)} \cup InQueue(s.queued) = InQueue(asked) \ Passed(st)
      BY <1>a, <2>1, <2>2, <2>9
    <3> QED
      BY <1>a, <2>1, <2>3, <2>5, <2>6, <2>9, <3>1, <3>2 DEF AgreeInv
  <2> QED
    BY <2>7, <2>8, <2>9
<1>8. CASE Bind
  <2> DEFINE responses == mine \cup st.collected
             bound == (CallsOf(responses) \cap pending) \ results
             yes   == {c \in bound : <<c, TRUE>> \in responses}
  <2>1. /\ yes \subseteq bound /\ bound \subseteq pending
        /\ pending' = pending \ bound
        /\ results' = results \cup (bound \ yes)
        /\ st' = [st EXCEPT !.collected = {}] /\ pc = "inner" /\ mine' = {}
        /\ pc' \in {"model", "tools"}
        /\ UNCHANGED <<surfaced, asked, handed, failures>>
    BY <1>8 DEF Bind, StillPending, StillAuto, history, caller
  <2>2. CallsOf(responses) = CallsOf(mine) \cup CallsOf(st.collected)
    BY <1>a
  <2>3. st'.queued = st.queued /\ st'.collected = {} /\ st.queued = <<>>
    BY <2>1 DEF TInv, TypeOK, StateTypes, PhaseInv
  <2>4. failures = 0 => bound = CallsOf(mine) \cup CallsOf(st.collected)
    BY <2>2 DEF AgreeInv
  <2> HIDE DEF bound, yes
  <2> QED
    BY <1>a, <2>1, <2>3, <2>4 DEF AgreeInv
<1>9. ASSUME NEW c \in Calls, NEW how \in {"ok", "error", "terminate"}, RunTool(c, how)
      PROVE  AgreeInv'
  <2>1. results' = results \cup {c} /\ c \notin pending /\ pc' = "tools"
        /\ UNCHANGED <<st, mine, asked, surfaced, pending, handed, failures>>
    BY <1>9, <1>c DEF RunTool, session, run, caller
  <2> QED
    BY <2>1 DEF AgreeInv
<1>10. CASE EndBatch
  <2>1. results' = results \cup todo /\ pc' = "model"
        /\ UNCHANGED <<st, mine, asked, surfaced, pending, handed, failures>>
    BY <1>10 DEF EndBatch, session, run, caller
  <2> QED
    BY <1>c, <2>1 DEF AgreeInv
<1>11. CASE BatchFails
  <2>1. /\ results' = {} /\ handed' = handed \cup (results \cup todo) /\ pending' = pending
        /\ failures' = IF cancelled THEN failures ELSE failures + 1
    BY <1>11 DEF BatchFails, Ends, session
  <2>2. failures' # 0
    BY <1>b, <2>1 DEF TInv, BookInv
  <2> QED
    BY <1>c, <2>1, <2>2 DEF AgreeInv
<1>12. CASE Terminate
  <2>1. /\ results' = {} /\ handed' = handed \cup (results \cup todo) /\ pc = "tools"
        /\ mine' = {} /\ asked' = <<>> /\ raw' = {}
        /\ UNCHANGED <<st, surfaced, pending, failures>>
    BY <1>12 DEF Terminate, Ends, Save
  <2>2. mine = {} /\ asked = <<>>
    BY <2>1 DEF TInv, PhaseInv
  <2> QED
    BY <1>c, <2>1, <2>2 DEF AgreeInv
<1>13. CASE CallModel
  BY <1>13 DEF CallModel, session, batch, caller, AgreeInv
<1>15. CASE ModelText
  <2>1. /\ pc = "calling" /\ results' = {} /\ mine = {} /\ asked = <<>>
        /\ UNCHANGED <<surfaced, pending, failures>>
        /\ \/ UNCHANGED <<st, mine, asked, handed, raw, pc>>
           \/ st' = st /\ raw' = {} /\ mine' = {} /\ asked' = <<>> /\ handed' = handed
    BY <1>15 DEF ModelText, Persist, Ends, Save, TInv, PhaseInv
  <2> QED
    BY <2>1 DEF AgreeInv
<1>16. ASSUME NEW new \in SUBSET Calls, ModelCalls(new)
       PROVE  AgreeInv'
  <2> DEFINE guarded == {c \in new : GuardedCall(c)}
  <2>1. /\ results' = {} /\ pc = "calling" /\ new \cap called = {} /\ pc' \in {"tools", "classify"}
        /\ UNCHANGED <<surfaced, st, mine, handed, failures>>
        /\ \/ UNCHANGED <<pending, asked>>
           \/ pending' = pending \cup guarded /\ asked' \in Orders(guarded)
    BY <1>16 DEF ModelCalls, Persist, RecordSafe, caller
  <2>2. guarded \in SUBSET Calls /\ guarded \cap called = {}
    BY <2>1
  <2> HIDE DEF guarded
  <2>3. asked = <<>> /\ InQueue(asked) = {}
    BY <1>a, <2>1 DEF TInv, PhaseInv
  <2>4. CASE UNCHANGED <<pending, asked>>
    BY <2>1, <2>4 DEF AgreeInv
  <2>5. CASE pending' = pending \cup guarded /\ asked' \in Orders(guarded)
    <3>1. InQueue(asked') = guarded /\ IsInjective(asked')
      BY <2>2, <2>5, OrdersAreQueues, OrdersDistinct
    <3> QED
      BY <1>c, <2>1, <2>2, <2>3, <2>5, <3>1 DEF AgreeInv
  <2> QED
    BY <2>1, <2>4, <2>5
<1>17. ASSUME NEW new \in SUBSET Calls, NEW read \in SUBSET new, Abandon(new, read)
       PROVE  AgreeInv'
  <2>1. /\ results' = {} /\ handed' = handed /\ pending' \subseteq pending \cup new /\ new \cap called = {}
    BY <1>17 DEF Abandon, Ends
  <2>2. failures' # 0
    BY <1>17, <1>b DEF Abandon, Fails
  <2> QED
    BY <1>c, <2>1, <2>2 DEF AgreeInv
<1>18. CASE Enqueue
  BY <1>18 DEF Enqueue, session, batch, run, caller, AgreeInv
<1>19. CASE Cancel
  <2>1. UNCHANGED <<pending, results, handed>> /\ failures' # 0
    BY <1>19, <1>b DEF Cancel, Fails, session, batch, caller
  <2> QED
    BY <2>1 DEF AgreeInv
<1>20. CASE Reload
  <2>1. /\ UNCHANGED <<pending, results, handed, st, mine, asked, failures>> /\ pc = "idle"
        /\ surfaced' = (IF raw = {} THEN surfaced ELSE UNION raw) /\ raw' = {surfaced'}
    BY <1>20 DEF Reload, batch, run, caller
  <2>2. UNION raw' = surfaced'
    BY <2>1
  <2>3. failures = 0 => surfaced' = surfaced
    BY <2>1 DEF AgreeInv
  <2> QED
    BY <2>1, <2>2, <2>3 DEF AgreeInv
<1> QED
  BY <1>1, <1>2, <1>3, <1>4, <1>5, <1>6, <1>8, <1>9, <1>10, <1>11, <1>12, <1>13,
     <1>15, <1>16, <1>17, <1>18, <1>19, <1>20 DEF Next

\* BooksAgree: until something fails, a request is surfaced, queued or answered, one of the
\* three, exactly as long as the inner middleware waits for its answer.
THEOREM TheBooksAgree == Spec => []BooksAgree
<1>1. TInv /\ AgreeInv => BooksAgree
  <2> SUFFICES ASSUME TInv, AgreeInv, pc = "idle", failures = 0
               PROVE  /\ surfaced \cap InQueue(saved.queued) = {}
                      /\ (surfaced \cup InQueue(saved.queued)) \cap CallsOf(saved.collected) = {}
                      /\ surfaced \cup InQueue(saved.queued) \cup CallsOf(saved.collected) = pending
    BY DEF BooksAgree
  <2>1. st = saved /\ mine = {} /\ asked = <<>>
    BY DEF TInv, PhaseInv
  <2> QED
    BY <2>1, BooksOfNothing DEF AgreeInv
<1> QED
  BY TInit, TStep, AgreeInit, AgreeStep, <1>1, PTL DEF Spec

=============================================================================
