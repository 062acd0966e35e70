--------------------------- MODULE StrategistProofs ---------------------------
(***************************************************************************)
(* What the envelope guarantees about the decisions of a debtor's whole    *)
(* life, for every ledger, every model and every order of events.          *)
(***************************************************************************)
EXTENDS Strategist, AuditLog, SumProofs, SequenceTheorems, TLAPS

(* Whatever else holds, a cooldown or a dispute excludes every ask, and    *)
(* the ceiling excludes the next escalation.                               *)
LEMMA CooledExcludes ==
    ASSUME NEW row, NEW invs, NEW past, Cooled(past),
           NEW s \in Permitted(row, invs, past)
    PROVE  s \notin AsksForMoney
  BY DEF Permitted, Excluded

LEMMA DisputeExcludes ==
    ASSUME NEW row, NEW invs, NEW past, SomeIs(invs, "DISPUTED"),
           NEW s \in Permitted(row, invs, past)
    PROVE  s \notin AsksForMoney
  BY DEF Permitted, Excluded, DisputedAsks

LEMMA CeilingExcludes ==
    ASSUME NEW row, NEW invs, NEW past, AtCeiling(past)
    PROVE  "ESCALATE" \notin Permitted(row, invs, past)
  BY DEF Permitted, Excluded

-----------------------------------------------------------------------------
(* Type correctness *)

Shape ==
    /\ account \in Accounts
    /\ pc \in [Batches -> {"idle", "folded", "decided"}]
    /\ DOMAIN folded = Batches
    /\ DOMAIN made = Batches

(* What each correction makes of a decision under correction, whatever the *)
(* ask and the balance are.                                                *)
Row(d) ==
    /\ d = [strategy |-> d.strategy, channel |-> d.channel, ask |-> d.ask,
            deadline |-> d.deadline, review |-> d.review]
    /\ d.review \in BOOLEAN

LEMMA InterceptRow ==
    ASSUME NEW d, Row(d), NEW permitted, NEW e, e = Intercept(d, permitted)
    PROVE  /\ Row(e) /\ (e = d \/ e.review)
           /\ d.review => e.review
           /\ e.strategy =
                IF d.strategy \in permitted THEN d.strategy ELSE Fallback(permitted)
           /\ e.channel = d.channel /\ e.ask = d.ask
  BY DEF Intercept, Row

LEMMA BoundAskRow ==
    ASSUME NEW d, Row(d), NEW owed, NEW e, e = BoundAsk(d, owed)
    PROVE  /\ Row(e) /\ (e = d \/ e.review)
           /\ d.review => e.review
           /\ e.strategy = d.strategy /\ e.channel = d.channel
           /\ e.ask = IF d.strategy \in AsksForMoney THEN Clamp(d.ask, owed) ELSE 0
  BY DEF BoundAsk, Row

LEMMA DropDeliveryRow ==
    ASSUME NEW d, Row(d), NEW e, e = DropDelivery(d)
    PROVE  /\ Row(e) /\ (e = d \/ e.review)
           /\ d.review => e.review
           /\ e.strategy = d.strategy /\ e.ask = d.ask
           /\ e.channel = IF d.strategy \in NoContact THEN "none" ELSE d.channel
  BY DEF DropDelivery, Row

LEMMA DropPastDeadlineRow ==
    ASSUME NEW d, Row(d), NEW e, e = DropPastDeadline(d)
    PROVE  /\ Row(e) /\ (e = d \/ e.review)
           /\ d.review => e.review
           /\ e.strategy = d.strategy /\ e.ask = d.ask /\ e.channel = d.channel
  BY DEF DropPastDeadline, Row

LEMMA ClassReviewRow ==
    ASSUME NEW d, Row(d), NEW e, e = ClassReview(d)
    PROVE  /\ Row(e) /\ e = [d EXCEPT !.review = e.review]
           /\ d.review => e.review
           /\ e.strategy = d.strategy /\ e.ask = d.ask /\ e.channel = d.channel
  BY DEF ClassReview, Row

(* An answer and what the five corrections make of it, one after another:  *)
(* the final fields, and that an unread decision went through unchanged.   *)
LEMMA DecisionFields ==
    ASSUME NEW answer \in Answers, NEW permitted, NEW owed,
           NEW d, d = Decision(answer, permitted, owed)
    PROVE  /\ d.strategy = IF answer.strategy \in permitted
                           THEN answer.strategy ELSE Fallback(permitted)
           /\ d.ask = IF d.strategy \in AsksForMoney THEN Clamp(answer.ask, owed) ELSE 0
           /\ d.channel = IF d.strategy \in NoContact THEN "none" ELSE answer.channel
           /\ d.review \in BOOLEAN
           /\ ~d.review => d = [answer EXCEPT !.review = d.review]
<1>1. PICK a : a = Intercept(answer, permitted)
  OBVIOUS
<1>2. PICK c : c = BoundAsk(a, owed)
  OBVIOUS
<1>3. PICK e : e = DropDelivery(c)
  OBVIOUS
<1>4. PICK f : f = DropPastDeadline(e)
  OBVIOUS
<1>5. d = ClassReview(f)
  BY <1>1, <1>2, <1>3, <1>4 DEF Decision
<1>6. Row(answer)
  BY DataAssumption DEF Row, DecisionRow
<1>7. /\ Row(a) /\ (a = answer \/ a.review)
      /\ a.strategy = IF answer.strategy \in permitted
                      THEN answer.strategy ELSE Fallback(permitted)
      /\ a.channel = answer.channel /\ a.ask = answer.ask
  BY <1>1, <1>6, InterceptRow
<1>8. /\ Row(c) /\ (c = a \/ c.review)
      /\ a.review => c.review
      /\ c.strategy = a.strategy /\ c.channel = a.channel
      /\ c.ask = IF a.strategy \in AsksForMoney THEN Clamp(a.ask, owed) ELSE 0
  BY <1>2, <1>7, BoundAskRow
<1>9. /\ Row(e) /\ (e = c \/ e.review)
      /\ c.review => e.review
      /\ e.strategy = c.strategy /\ e.ask = c.ask
      /\ e.channel = IF c.strategy \in NoContact THEN "none" ELSE c.channel
  BY <1>3, <1>8, DropDeliveryRow
<1>10. /\ Row(f) /\ (f = e \/ f.review)
       /\ e.review => f.review
       /\ f.strategy = e.strategy /\ f.ask = e.ask /\ f.channel = e.channel
  BY <1>4, <1>9, DropPastDeadlineRow
<1>11. /\ Row(d) /\ d = [f EXCEPT !.review = d.review]
       /\ f.review => d.review
       /\ d.strategy = f.strategy /\ d.ask = f.ask /\ d.channel = f.channel
  BY <1>5, <1>10, ClassReviewRow
<1>12. ~d.review => f = answer
  BY <1>7, <1>8, <1>9, <1>10, <1>11
<1>13. d.review \in BOOLEAN
  BY <1>11 DEF Row
<1> QED
  BY <1>7, <1>8, <1>9, <1>10, <1>11, <1>12, <1>13

(* A decision asks for money only if the envelope permits that very ask:   *)
(* the fallbacks ask for nothing.                                          *)
LEMMA AskIsPermitted ==
    ASSUME NEW answer \in Answers, NEW permitted, NEW owed,
           Decision(answer, permitted, owed).strategy \in AsksForMoney
    PROVE  Decision(answer, permitted, owed).strategy \in permitted
  BY DecisionFields DEF Fallback, AsksForMoney

(* What a decision may look like, wherever it comes from. *)
LEMMA DecisionTyped ==
    ASSUME NEW answer \in Answers, NEW permitted, NEW owed,
           NEW d, d = Decision(answer, permitted, owed)
    PROVE  /\ d.strategy \in Strategies
           /\ d.channel \in {"none", "email", "portal"}
           /\ d.review \in BOOLEAN
           /\ d.strategy \in {"WAIT", "HUMAN_HANDOFF"} => d.channel = "none"
<1>1. answer.strategy \in Strategies /\ answer.channel \in {"none", "email", "portal"}
  BY DataAssumption DEF DecisionRow
<1> QED
  BY <1>1, DecisionFields DEF Fallback, Strategies, NoContact

(* Only a folded batch decides. *)
LEMMA DecideFolded ==
    ASSUME NEW b \in Batches, Decide(b)
    PROVE  pc[b] = "folded"
  BY ZenonT(30) DEF Decide

(* Every decision a step makes is the fast path's, a fallback or one of    *)
(* the model's, put through the envelope.                                  *)
LEMMA DecideCases ==
    ASSUME NEW b \in Batches, Decide(b), Shape
    PROVE  \E d, own :
             /\ DecideOn(b, d, own)
             /\ d.strategy \in Strategies
             /\ d.channel \in {"none", "email", "portal"}
             /\ d.review \in BOOLEAN
             /\ d.strategy \in {"WAIT", "HUMAN_HANDOFF"} => d.channel = "none"
             /\ d.strategy \in AsksForMoney =>
                  d.strategy \in Permitted(account, folded[b].invs, folded[b].past)
<1> DEFINE permitted == Permitted(account, folded[b].invs, folded[b].past)
           owed == Collectible(folded[b].invs)
<1>1. CASE DecideOn(b, Suppressed, FALSE)
  <2>1. /\ Suppressed.strategy = "WAIT"
        /\ Suppressed.channel = "none"
        /\ Suppressed.review = FALSE
    BY DEF Suppressed
  <2> QED
    BY <1>1, <2>1 DEF Strategies, AsksForMoney
<1>2. CASE DecideOn(b, NoAnswer(permitted), FALSE)
  <2> HIDE DEF permitted
  <2>1. /\ NoAnswer(permitted).strategy \in {"WAIT", "HUMAN_HANDOFF"}
        /\ NoAnswer(permitted).channel = "none"
        /\ NoAnswer(permitted).review = TRUE
    BY DEF NoAnswer, Fallback
  <2> QED
    BY <1>2, <2>1 DEF Strategies, AsksForMoney
<1>3. CASE \E answer \in Answers :
             LET d == Decision(answer, permitted, owed)
             IN  DecideOn(b, d, d = [answer EXCEPT !.review = d.review])
  <2> HIDE DEF permitted, owed
  <2>1. PICK answer \in Answers :
          LET d == Decision(answer, permitted, owed)
          IN  DecideOn(b, d, d = [answer EXCEPT !.review = d.review])
    BY <1>3
  <2> DEFINE d == Decision(answer, permitted, owed)
             own == (d = [answer EXCEPT !.review = d.review])
  <2>2. DecideOn(b, d, own)
    BY <2>1
  <2>3. /\ d.strategy \in Strategies
        /\ d.channel \in {"none", "email", "portal"}
        /\ d.review \in BOOLEAN
        /\ d.strategy \in {"WAIT", "HUMAN_HANDOFF"} => d.channel = "none"
    BY DecisionTyped
  <2>4. d.strategy \in AsksForMoney => d.strategy \in permitted
    BY AskIsPermitted
  <2> HIDE DEF d, own
  <2> QED
    BY <2>2, <2>3, <2>4 DEF permitted
<1> QED
  BY <1>1, <1>2, <1>3 DEF Decide

LEMMA ShapeStep ==
    ASSUME Shape, [Next]_vars
    PROVE  Shape' /\ account' = account
<1>1. CASE Tick
  BY <1>1 DEF Tick, Shape, batchVars
<1>2. ASSUME NEW i \in Invoices, Debtor(i) PROVE Shape' /\ account' = account
  BY <1>2 DEF Debtor, Pay, Promise, Object, Shape, batchVars
<1>3. ASSUME NEW b \in Batches, Batch(b) PROVE Shape' /\ account' = account
  <2>1. CASE Decide(b)
    <3>1. PICK d, own : DecideOn(b, d, own)
      BY <2>1, DecideCases
    <3> QED
      BY <3>1 DEF DecideOn, Shape
  <2>2. CASE ~Decide(b)
    BY <1>3, <2>2 DEF Batch, Fold, Skip, QueueForReview, Dispatch, Finish, Shape
  <2> QED
    BY <2>1, <2>2
<1>4. CASE Approve \/ Reject
  BY <1>4 DEF Approve, Reject, Shape, batchVars
<1>5. CASE UNCHANGED vars
  BY <1>5 DEF vars, batchVars, Shape
<1> QED
  BY <1>1, <1>2, <1>3, <1>4, <1>5 DEF Next

LEMMA ShapeInit == Init => Shape
  BY DEF Init, Shape

(* Only a decision of its own makes a batch ask. *)
LEMMA AskingDecides ==
    ASSUME Shape, [Next]_vars, NEW b \in Batches, AsksNow(b)
    PROVE  \E d, own :
             /\ DecideOn(b, d, own)
             /\ d.strategy \in AsksForMoney
             /\ d.strategy \in Permitted(account, folded[b].invs, folded[b].past)
<1>1. pc[b] = "folded" /\ pc'[b] = "decided"
  BY DEF AsksNow
<1>2. PICK c \in Batches : Batch(c)
  BY <1>1 DEF Next, Tick, Debtor, Pay, Promise, Object, Approve, Reject, vars, batchVars
<1>3. CASE Decide(c)
  <2>1. PICK d, own :
          /\ DecideOn(c, d, own)
          /\ d.strategy \in AsksForMoney =>
               d.strategy \in Permitted(account, folded[c].invs, folded[c].past)
    BY <1>3, DecideCases
  <2>2. b = c
    BY <1>1, <2>1 DEF DecideOn, Shape
  <2>3. made'[b].strategy = d.strategy
    BY <2>1, <2>2 DEF DecideOn, Shape
  <2> QED
    BY <2>1, <2>2, <2>3 DEF AsksNow
<1>4. CASE ~Decide(c)
  BY <1>1, <1>2, <1>4 DEF Batch, Fold, Skip, QueueForReview, Dispatch, Finish, Shape
<1> QED
  BY <1>3, <1>4

(* It is the batch itself that does. *)
LEMMA AskerDecides ==
    ASSUME Shape, [Next]_vars, NEW b \in Batches, AsksNow(b)
    PROVE  Decide(b)
<1>1. pc[b] = "folded" /\ pc'[b] = "decided"
  BY DEF AsksNow
<1>2. PICK c \in Batches : Batch(c)
  BY <1>1 DEF Next, Tick, Debtor, Pay, Promise, Object, Approve, Reject, vars, batchVars
<1>3. CASE Decide(c)
  <2>1. PICK d, own : DecideOn(c, d, own)
    BY <1>3, DecideCases
  <2> QED
    BY <1>1, <1>3, <2>1 DEF DecideOn, Shape
<1>4. CASE ~Decide(c)
  BY <1>1, <1>2, <1>4 DEF Batch, Fold, Skip, QueueForReview, Dispatch, Finish, Shape
<1> QED
  BY <1>3, <1>4

Messages == [asks : BOOLEAN, channel : {"none", "email", "portal"}]

TypeInv == TypeOK /\ Shape /\ queue \in Seq(Messages)

(* A promise within the horizon keeps the fold typed. *)
LEMMA FoldTyped ==
    ASSUME TypeInv, NEW i \in Invoices, NEW d \in today..(today + Horizon),
           FoldPromise(i, d) \/ FoldSettlement(i)
    PROVE  /\ due' \in NoDate..(MaxDay + Horizon)
           /\ dueOn' \in Invoices \cup {None}
           /\ opened' \in 0..(MaxWindows + 1)
<1>1. /\ today \in 0..MaxDay
      /\ due \in NoDate..(MaxDay + Horizon)
      /\ dueOn \in Invoices \cup {None}
      /\ opened \in 0..(MaxWindows + 1)
  BY DEF TypeInv, TypeOK
<1>2. /\ MaxWindows \in Nat
      /\ MaxDay \in Nat
      /\ Horizon \in Nat
  BY FoldAssumption, LoopAssumption
<1>3. d \in NoDate..(MaxDay + Horizon)
  BY <1>1, <1>2 DEF NoDate
<1>4. Counted \in 0..(MaxWindows + 1)
  BY <1>1, <1>2 DEF Counted
<1>5. CASE FoldPromise(i, d)
  BY <1>1, <1>3, <1>4, <1>5 DEF FoldPromise
<1>6. CASE FoldSettlement(i)
  BY <1>1, <1>2, <1>6 DEF FoldSettlement, NoDate
<1> QED
  BY <1>5, <1>6

LEMMA TypeStep ==
    ASSUME TypeInv, [Next]_vars
    PROVE  TypeInv'
<1> USE LoopAssumption DEF NoDate
<1>1. Shape'
  BY ShapeStep DEF TypeInv
<1>2. CASE Tick
  BY <1>1, <1>2 DEF Tick, TypeInv, TypeOK, foldVars, logVars, batchVars, IsContact
<1>3. ASSUME NEW i \in Invoices, Debtor(i) PROVE TypeInv'
  <2>1. ASSUME NEW amount \in Payments, Pay(i, amount) PROVE TypeInv'
    <3>1. paid' \in [Invoices -> Nat]
      <4>1. paid' = [paid EXCEPT ![i] = paid[i] + amount]
        BY <2>1 DEF Pay
      <4>2. amount \in Nat /\ paid[i] \in Nat /\ paid \in [Invoices -> Nat]
        BY DataAssumption DEF TypeInv, TypeOK
      <4> QED
        BY <4>1, <4>2
    <3>2. /\ due' \in NoDate..(MaxDay + Horizon)
          /\ dueOn' \in Invoices \cup {None}
          /\ opened' \in 0..(MaxWindows + 1)
      BY <2>1, FoldAssumption DEF Pay, FoldSettlement, TypeInv, TypeOK
    <3> QED
      BY <1>1, <2>1, <3>1, <3>2 DEF Pay, TypeInv, TypeOK, batchVars
  <2>2. ASSUME NEW d \in today..(today + Horizon), Promise(i, d) PROVE TypeInv'
    BY <1>1, <2>2, FoldTyped DEF Promise, TypeInv, TypeOK, logVars, batchVars
  <2>3. CASE Object(i)
    BY <1>1, <2>3 DEF Object, TypeInv, TypeOK, foldVars, batchVars
  <2> QED
    BY <1>3, <2>1, <2>2, <2>3 DEF Debtor
<1>4. ASSUME NEW b \in Batches, Batch(b) PROVE TypeInv'
  <2>1. CASE Fold(b)
    BY <1>1, <2>1 DEF Fold, TypeInv, TypeOK, Shape, foldVars, logVars
  <2>2. CASE Decide(b)
    <3>1. PICK d, own :
            /\ DecideOn(b, d, own)
            /\ d.strategy \in Strategies
            /\ d.channel \in {"none", "email", "portal"}
            /\ d.review \in BOOLEAN
            /\ d.strategy \in {"WAIT", "HUMAN_HANDOFF"} => d.channel = "none"
      BY <2>2, DecideCases DEF TypeInv
    <3>2. /\ last' \in NoDate..MaxDay
          /\ escalations' \in Nat
      BY <3>1 DEF DecideOn, LogDecision, TypeInv, TypeOK
    <3>3. \A c \in Batches : pc'[c] = "decided" =>
            /\ made'[c].strategy \in Strategies
            /\ made'[c].channel \in {"none", "email", "portal"}
            /\ made'[c].review \in BOOLEAN
            /\ made'[c].strategy \in {"WAIT", "HUMAN_HANDOFF"} => made'[c].channel = "none"
      BY <3>1 DEF DecideOn, TypeInv, TypeOK, Shape
    <3> QED
      BY <1>1, <3>1, <3>2, <3>3 DEF DecideOn, TypeInv, TypeOK, Shape, foldVars
  <2>3. CASE Skip(b) \/ QueueForReview(b) \/ Dispatch(b)
    <3>1. pc[b] = "decided" /\ Finish(b)
      BY <2>3 DEF Skip, QueueForReview, Dispatch
    <3>2. \A c \in Batches : pc'[c] = "decided" => pc[c] = "decided" /\ made'[c] = made[c]
      BY <3>1 DEF Finish, TypeInv, Shape
    <3>3. Message(b) \in Messages
      BY <3>1 DEF Message, Messages, TypeInv, TypeOK
    <3>4. queue' \in Seq(Messages) /\ Len(queue') <= MaxQueue
      <4>1. CASE queue' = queue
        BY <4>1 DEF TypeInv, TypeOK
      <4>2. CASE Len(queue) < MaxQueue /\ queue' = Append(queue, Message(b))
        <5>1. queue \in Seq(Messages)
          BY DEF TypeInv
        <5> QED
          BY <3>3, <4>2, <5>1, AppendProperties
      <4> QED
        BY <2>3, <4>1, <4>2 DEF Skip, QueueForReview, Dispatch
    <3>5. mail'.day \in NoDate..MaxDay
      BY <2>3 DEF Skip, QueueForReview, Dispatch, Send, TypeInv, TypeOK
    <3> QED
      BY <1>1, <3>1, <3>2, <3>4, <3>5 DEF Finish, TypeInv, TypeOK, Shape, foldVars, logVars
  <2> QED
    BY <1>4, <2>1, <2>2, <2>3 DEF Batch
<1>5. CASE Approve \/ Reject
  <2>1. queue' \in Seq(Messages) /\ Len(queue') <= MaxQueue
    <3>1. queue # <<>> /\ queue' = Tail(queue)
      BY <1>5 DEF Approve, Reject
    <3>2. queue \in Seq(Messages) /\ Len(queue) <= MaxQueue
      BY DEF TypeInv, TypeOK
    <3>3. Len(queue') = Len(queue) - 1 /\ queue' \in Seq(Messages)
      BY <3>1, <3>2, HeadTailProperties
    <3>4. Len(queue) \in Nat
      BY <3>2, LenProperties
    <3> QED
      BY <3>2, <3>3, <3>4
  <2>2. mail'.day \in NoDate..MaxDay
    BY <1>5 DEF Approve, Reject, Send, TypeInv, TypeOK
  <2> QED
    BY <1>1, <1>5, <2>1, <2>2 DEF Approve, Reject, TypeInv, TypeOK, foldVars, logVars, batchVars
<1>6. CASE UNCHANGED vars
  BY <1>1, <1>6 DEF vars, TypeInv, TypeOK, foldVars, logVars, batchVars
<1> QED
  BY <1>2, <1>3, <1>4, <1>5, <1>6 DEF Next

(* Every reachable state is well typed, and no decision to reach nobody    *)
(* carries a channel, for any ledger, any model and any number of batches. *)
THEOREM TypeCorrect == Spec => []TypeOK
<1>1. ASSUME Init PROVE TypeInv
  <2>1. Shape
    BY <1>1, ShapeInit
  <2>2. queue \in Seq(Messages) /\ Len(queue) <= MaxQueue
    BY <1>1, EmptySeq, LoopAssumption DEF Init
  <2>3. /\ pc \in [Batches -> {"idle", "folded", "decided"}]
        /\ \A b \in Batches : pc[b] # "decided"
    BY <1>1 DEF Init
  <2>4. /\ today \in 0..MaxDay
        /\ due \in NoDate..(MaxDay + Horizon)
        /\ dueOn \in Invoices \cup {None}
        /\ opened \in 0..(MaxWindows + 1)
    BY <1>1, LoopAssumption, FoldAssumption DEF Init, NothingPromised, NoDate
  <2>5. NoDate \in NoDate..MaxDay
    BY LoopAssumption DEF NoDate
  <2>6. last \in NoDate..MaxDay /\ mail.day \in NoDate..MaxDay
    BY <1>1, <2>5 DEF Init
  <2>7. escalations \in Nat /\ paid \in [Invoices -> Nat]
    BY <1>1 DEF Init
  <2>8. objected \in BOOLEAN /\ account \in Accounts
    BY <1>1 DEF Init
  <2> QED
    BY <2>1, <2>2, <2>3, <2>4, <2>6, <2>7, <2>8 DEF TypeInv, TypeOK
<1>2. TypeInv /\ [Next]_vars => TypeInv'
  BY TypeStep
<1>3. TypeInv => TypeOK
  BY DEF TypeInv
<1> QED
  BY <1>1, <1>2, <1>3, PTL DEF Spec

-----------------------------------------------------------------------------
(* Decisions from the seeded ledger see its disputes. *)

SeedInv ==
    /\ Shape
    /\ \A b \in Batches : pc[b] = "folded" => folded[b].invs = account.invoices

LEMMA SeedStep ==
    ASSUME ~Live, SeedInv, [Next]_vars
    PROVE  SeedInv'
<1>1. Shape' /\ account' = account
  BY ShapeStep DEF SeedInv
<1>2. ASSUME NEW i \in Invoices, Debtor(i) PROVE SeedInv'
  BY <1>1, <1>2 DEF Debtor, Pay, Promise, Object, SeedInv, batchVars
<1>3. ASSUME NEW b \in Batches, Batch(b) PROVE SeedInv'
  <2>1. CASE Fold(b)
    BY <1>1, <2>1 DEF Fold, SeedInv, Shape, Invs
  <2>2. CASE Decide(b)
    <3>1. PICK d, own : DecideOn(b, d, own)
      BY <2>2, DecideCases DEF SeedInv
    <3> QED
      BY <1>1, <3>1 DEF DecideOn, SeedInv, Shape
  <2>3. CASE Skip(b) \/ QueueForReview(b) \/ Dispatch(b)
    BY <1>1, <2>3 DEF Skip, QueueForReview, Dispatch, Finish, SeedInv, Shape
  <2> QED
    BY <1>3, <2>1, <2>2, <2>3 DEF Batch
<1>4. CASE Tick \/ Approve \/ Reject \/ UNCHANGED vars
  BY <1>1, <1>4 DEF Tick, Approve, Reject, vars, batchVars, SeedInv
<1> QED
  BY <1>2, <1>3, <1>4 DEF Next

LEMMA DisputedNotAskedStep ==
    ASSUME ~Live, SeedInv, [Next]_vars, NEW b \in Batches, AsksNow(b),
           NEW i \in Invoices
    PROVE  account.invoices[i].state # "DISPUTED"
<1>1. PICK d, own :
        /\ DecideOn(b, d, own)
        /\ d.strategy \in AsksForMoney
        /\ d.strategy \in Permitted(account, folded[b].invs, folded[b].past)
  BY AskingDecides DEF SeedInv
<1>2. ~SomeIs(folded[b].invs, "DISPUTED")
  BY <1>1, DisputeExcludes
<1>3. folded[b].invs = account.invoices
  BY DEF AsksNow, SeedInv
<1>4. DOMAIN account.invoices = Invoices
  BY DataAssumption DEF SeedInv, Shape
<1> QED
  BY <1>2, <1>3, <1>4 DEF SomeIs

(* Deciding from the ledger, the agent never asks a debtor with a disputed *)
(* invoice for money, however many batches run.                            *)
THEOREM DisputedNeverAsked ==
    ASSUME ~Live
    PROVE  Spec => DisputedNotAsked
<1>1. Init => SeedInv
  BY ShapeInit DEF Init, SeedInv
<1>2. SeedInv /\ [Next]_vars => SeedInv'
  BY SeedStep
<1>3. SeedInv /\ [Next]_vars =>
        [\A b \in Batches : AsksNow(b) =>
          \A i \in Invoices : account.invoices[i].state = "DISPUTED" => OwedOn(i) <= 0]_vars
  BY DisputedNotAskedStep
<1> QED
  BY <1>1, <1>2, <1>3, PTL DEF Spec, DisputedNotAsked

-----------------------------------------------------------------------------
(* A batch that runs alone decides on the contacts there were: between its *)
(* fold and its decision nobody else logs one, and the clock only adds to  *)
(* their age.                                                              *)

HistoryInv ==
    /\ Shape
    /\ today \in Nat
    /\ last \in NoDate..today
    /\ escalations \in 0..MaxEscalations
    /\ \A b \in Batches : pc[b] = "folded" =>
        /\ folded[b].past.escalations = escalations
        /\ last # NoDate => /\ folded[b].past.days \in Nat
                            /\ folded[b].past.days <= today - last

LEMMA HistoryInit == Init => HistoryInv
  BY EnvelopeAssumption DEF Init, HistoryInv, Shape, NoDate

LEMMA HistoryStep ==
    ASSUME NEW r, Batches = {r}, HistoryInv, [Next]_vars
    PROVE  HistoryInv'
<1> USE EnvelopeAssumption DEF NoDate
<1>1. Shape'
  BY ShapeStep DEF HistoryInv
<1>2. CASE Tick
  BY <1>1, <1>2 DEF Tick, HistoryInv, logVars, batchVars
<1>3. ASSUME NEW i \in Invoices, Debtor(i) PROVE HistoryInv'
  BY <1>1, <1>3 DEF Debtor, Pay, Promise, Object, HistoryInv, logVars, batchVars
<1>4. ASSUME NEW b \in Batches, Batch(b) PROVE HistoryInv'
  <2>1. CASE Fold(b)
    <3>1. folded'[b].past = History
      BY <2>1 DEF Fold, HistoryInv, Shape
    <3>2. UNCHANGED <<today, last, escalations>>
      BY <2>1 DEF Fold, logVars
    <3> QED
      BY <1>1, <2>1, <3>1, <3>2 DEF History, HistoryInv
  <2>2. CASE Decide(b)
    <3>1. PICK d, own :
            /\ DecideOn(b, d, own)
            /\ d.strategy \in AsksForMoney =>
                 d.strategy \in Permitted(account, folded[b].invs, folded[b].past)
      BY <2>2, DecideCases DEF HistoryInv
    <3>2. pc[b] = "folded"
      BY <2>2, DecideFolded
    <3>3. d.strategy = "ESCALATE" => escalations < MaxEscalations
      <4>1. d.strategy = "ESCALATE" => ~AtCeiling(folded[b].past)
        BY <3>1, CeilingExcludes DEF AsksForMoney
      <4> QED
        BY <3>2, <4>1 DEF AtCeiling, HistoryInv
    <3>4. escalations' \in 0..MaxEscalations /\ last' \in NoDate..today
      BY <3>1, <3>3 DEF DecideOn, LogDecision, HistoryInv
    <3>5. \A c \in Batches : pc'[c] # "folded"
      BY <3>1 DEF DecideOn, HistoryInv, Shape
    <3>6. today' = today
      BY <3>1 DEF DecideOn
    <3> QED
      BY <1>1, <3>4, <3>5, <3>6 DEF HistoryInv
  <2>3. CASE Skip(b) \/ QueueForReview(b) \/ Dispatch(b)
    <3>1. UNCHANGED <<today, last, escalations, folded>>
      BY <2>3 DEF Skip, QueueForReview, Dispatch, Finish, logVars
    <3>2. \A c \in Batches : pc'[c] # "folded"
      BY <2>3 DEF Skip, QueueForReview, Dispatch, Finish, HistoryInv, Shape
    <3> QED
      BY <1>1, <3>1, <3>2 DEF HistoryInv
  <2> QED
    BY <1>4, <2>1, <2>2, <2>3 DEF Batch
<1>5. CASE Approve \/ Reject \/ UNCHANGED vars
  BY <1>1, <1>5 DEF Approve, Reject, vars, HistoryInv, logVars, batchVars
<1> QED
  BY <1>2, <1>3, <1>4, <1>5 DEF Next

LEMMA CooldownStep ==
    ASSUME HistoryInv, [Next]_vars, NEW b \in Batches, AsksNow(b), last # NoDate
    PROVE  today - last >= Cooldown
<1>1. PICK d, own :
        /\ DecideOn(b, d, own)
        /\ d.strategy \in AsksForMoney
        /\ d.strategy \in Permitted(account, folded[b].invs, folded[b].past)
  BY AskingDecides DEF HistoryInv
<1>2. ~Cooled(folded[b].past)
  BY <1>1, CooledExcludes
<1>3. /\ folded[b].past.days \in Nat
      /\ folded[b].past.days <= today - last
  BY DEF HistoryInv, AsksNow
<1> QED
  BY <1>2, <1>3, EnvelopeAssumption DEF Cooled, Never, HistoryInv, NoDate

(* One batch at a time asks for money only a whole cooldown after the last *)
(* contact, however long the model takes to answer.                        *)
THEOREM CooldownHolds ==
    ASSUME NEW r, Batches = {r}
    PROVE  Spec => CooldownKept
<1>1. HistoryInv /\ [Next]_vars => HistoryInv'
  BY HistoryStep
<1>2. HistoryInv /\ [Next]_vars =>
        [\A b \in Batches :
          AsksNow(b) => last = NoDate \/ today - last >= Cooldown]_vars
  BY CooldownStep
<1> QED
  BY HistoryInit, <1>1, <1>2, PTL DEF Spec, CooldownKept

(* One batch at a time never escalates a debtor more than MaxEscalations   *)
(* times in its life.                                                      *)
THEOREM CeilingHolds ==
    ASSUME NEW r, Batches = {r}
    PROVE  Spec => []EscalationCeiling
<1>1. HistoryInv /\ [Next]_vars => HistoryInv'
  BY HistoryStep
<1>2. HistoryInv => EscalationCeiling
  BY EnvelopeAssumption DEF HistoryInv, EscalationCeiling
<1> QED
  BY HistoryInit, <1>1, <1>2, PTL DEF Spec
-----------------------------------------------------------------------------
(* A decision nobody reviews has not been corrected.                       *)
LEMMA UnreviewedIsAnswer ==
    ASSUME NEW answer \in Answers, NEW permitted, NEW owed,
           ~Decision(answer, permitted, owed).review
    PROVE  LET d == Decision(answer, permitted, owed)
           IN  d = [answer EXCEPT !.review = d.review]
  BY DecisionFields

OwnInv == Shape /\ UnattendedIsOwn

LEMMA OwnStep ==
    ASSUME OwnInv, [Next]_vars
    PROVE  OwnInv'
<1>1. Shape' /\ account' = account
  BY ShapeStep DEF OwnInv
<1>2. ASSUME \A c \in Batches : pc'[c] = "decided" => pc[c] = "decided" /\ made'[c] = made[c]
      PROVE  OwnInv'
  BY <1>1, <1>2 DEF OwnInv, UnattendedIsOwn
<1>3. ASSUME NEW b \in Batches, NEW d, NEW own, DecideOn(b, d, own),
             ~account.optedOut => d.review \/ own
      PROVE  OwnInv'
  <2>1. /\ made'[b].review = d.review /\ made'[b].own = own
        /\ \A c \in Batches \ {b} : made'[c] = made[c] /\ pc'[c] = pc[c]
    BY <1>3 DEF DecideOn, OwnInv, Shape
  <2> QED
    BY <1>1, <1>3, <2>1 DEF OwnInv, UnattendedIsOwn
<1>4. ASSUME NEW b \in Batches, Decide(b) PROVE OwnInv'
  <2> DEFINE permitted == Permitted(account, folded[b].invs, folded[b].past)
             owed == Collectible(folded[b].invs)
  <2>1. CASE account.optedOut
    BY <1>3, <1>4, <2>1 DEF Decide
  <2>2. CASE ~account.optedOut /\ DecideOn(b, NoAnswer(permitted), FALSE)
    <3>1. NoAnswer(permitted).review
      BY DEF NoAnswer
    <3> QED
      BY <1>3, <2>2, <3>1
  <2>3. ASSUME NEW answer \in Answers,
               LET d == Decision(answer, permitted, owed)
               IN  DecideOn(b, d, d = [answer EXCEPT !.review = d.review])
        PROVE  OwnInv'
    <3> DEFINE d == Decision(answer, permitted, owed)
    <3>1. d.review \/ d = [answer EXCEPT !.review = d.review]
      BY UnreviewedIsAnswer
    <3> HIDE DEF d, permitted, owed
    <3> QED
      BY <1>3, <2>3, <3>1 DEF d
  <2> QED
    BY <1>4, <2>1, <2>2, <2>3 DEF Decide
<1>5. ASSUME NEW b \in Batches, Batch(b), ~Decide(b) PROVE OwnInv'
  BY <1>2, <1>5 DEF Batch, Fold, Skip, QueueForReview, Dispatch, Finish, OwnInv, Shape
<1>6. ASSUME NEW i \in Invoices, Debtor(i) PROVE OwnInv'
  BY <1>2, <1>6 DEF Debtor, Pay, Promise, Object, batchVars
<1>7. CASE Tick \/ Approve \/ Reject \/ UNCHANGED vars
  BY <1>2, <1>7 DEF Tick, Approve, Reject, vars, batchVars
<1> QED
  BY <1>4, <1>5, <1>6, <1>7 DEF Next

(* Whatever the model answers, a decision that was corrected in any field  *)
(* is put before a person (decide_for_debtor in app/strategist.py).        *)
THEOREM UnattendedIsOwnHolds == Spec => []UnattendedIsOwn
<1>1. Init => OwnInv
  BY ShapeInit DEF Init, OwnInv, UnattendedIsOwn
<1>2. OwnInv /\ [Next]_vars => OwnInv'
  BY OwnStep
<1>3. OwnInv => UnattendedIsOwn
  BY DEF OwnInv
<1> QED
  BY <1>1, <1>2, <1>3, PTL DEF Spec
-----------------------------------------------------------------------------
(* When nothing happens between a fold and its decision, what the batch    *)
(* decides on is what is so.                                               *)
CurrentInv ==
    /\ Shape
    /\ paid \in [Invoices -> Nat]
    /\ \A b \in Batches : pc[b] = "folded" =>
        /\ folded[b].invs = Invs
        /\ folded[b].past.promised = FoldRunning

LEMMA CurrentStep ==
    ASSUME Quiet, CurrentInv, [Next]_vars
    PROVE  CurrentInv'
<1>1. Shape' /\ account' = account
  BY ShapeStep DEF CurrentInv
<1>2. paid' \in [Invoices -> Nat]
  <2>1. CASE UNCHANGED paid
    BY <2>1 DEF CurrentInv
  <2>2. ASSUME NEW i \in Invoices, NEW amount \in Payments, Pay(i, amount)
        PROVE  paid' \in [Invoices -> Nat]
    BY <2>2, DataAssumption DEF Pay, CurrentInv
  <2>3. ASSUME NEW b \in Batches, Decide(b) PROVE UNCHANGED paid
    <3>1. PICK d, own : DecideOn(b, d, own)
      BY <2>3, DecideCases DEF CurrentInv
    <3> QED
      BY <3>1 DEF DecideOn
  <2> QED
    BY <2>1, <2>2, <2>3 DEF Next, Tick, Debtor, Promise, Object, Batch, Fold, Skip,
       QueueForReview, Dispatch, Finish, Approve, Reject, vars, logVars
<1>3. ASSUME \A b \in Batches : pc'[b] # "folded" PROVE CurrentInv'
  BY <1>1, <1>2, <1>3 DEF CurrentInv
<1>4. ASSUME UNCHANGED <<today, due, paid>>,
             \A b \in Batches : pc'[b] = "folded" => pc[b] = "folded" /\ folded'[b] = folded[b]
      PROVE  CurrentInv'
  BY <1>1, <1>2, <1>4 DEF CurrentInv, Invs, FoldRunning
<1>5. CASE Tick \/ \E i \in Invoices : Debtor(i)
  <2>1. Undisturbed /\ UNCHANGED pc
    BY <1>5 DEF Tick, Debtor, Pay, Promise, Object, batchVars
  <2> QED
    BY <1>3, <2>1 DEF Undisturbed
<1>6. ASSUME NEW b \in Batches, Fold(b) PROVE CurrentInv'
  <2>1. /\ folded'[b] = [past |-> History, invs |-> Invs]
        /\ \A c \in Batches \ {b} : folded'[c] = folded[c] /\ pc'[c] = pc[c]
        /\ UNCHANGED <<today, due, paid>>
    BY <1>6 DEF Fold, CurrentInv, Shape, foldVars, logVars
  <2>2. Invs' = Invs /\ FoldRunning' = FoldRunning
    BY <1>1, <2>1 DEF Invs, FoldRunning
  <2>3. folded'[b].invs = Invs /\ folded'[b].past.promised = FoldRunning
    BY <2>1 DEF History
  <2> QED
    BY <1>1, <1>2, <2>1, <2>2, <2>3 DEF CurrentInv
<1>7. ASSUME NEW b \in Batches, Decide(b) PROVE CurrentInv'
  <2>1. PICK d, own : DecideOn(b, d, own)
    BY <1>7, DecideCases DEF CurrentInv
  <2>2. /\ UNCHANGED <<today, due, paid>>
        /\ \A c \in Batches : pc'[c] = "folded" => pc[c] = "folded" /\ folded'[c] = folded[c]
    BY <2>1 DEF DecideOn, CurrentInv, Shape, foldVars
  <2> QED
    BY <1>4, <2>2
<1>8. ASSUME NEW b \in Batches, Skip(b) \/ QueueForReview(b) \/ Dispatch(b)
      PROVE  CurrentInv'
  <2>1. /\ UNCHANGED <<today, due, paid>>
        /\ \A c \in Batches : pc'[c] = "folded" => pc[c] = "folded" /\ folded'[c] = folded[c]
    BY <1>8 DEF Skip, QueueForReview, Dispatch, Finish, CurrentInv, Shape, foldVars, logVars
  <2> QED
    BY <1>4, <2>1
<1>9. CASE Approve \/ Reject \/ UNCHANGED vars
  BY <1>4, <1>9 DEF Approve, Reject, vars, foldVars, logVars, batchVars
<1> QED
  BY <1>5, <1>6, <1>7, <1>8, <1>9 DEF Next, Batch

LEMMA CurrentInit == Init => CurrentInv
  BY ShapeInit DEF Init, CurrentInv

(* A folded promise excludes every ask, and so does owing nothing.         *)
LEMMA PromiseExcludes ==
    ASSUME NEW row, NEW invs, NEW past, past.promised,
           NEW s \in Permitted(row, invs, past)
    PROVE  s \notin AsksForMoney
  BY DEF Permitted, Excluded

LEMMA NothingOwedExcludes ==
    ASSUME NEW row, NEW invs, NEW past, Collectible(invs) <= 0,
           NEW s \in Permitted(row, invs, past)
    PROVE  s \notin AsksForMoney
  BY DEF Permitted, Excluded

LEMMA PromiseHaltsStep ==
    ASSUME CurrentInv, [Next]_vars, NEW b \in Batches, AsksNow(b)
    PROVE  ~FoldRunning
<1>1. PICK d, own :
        /\ DecideOn(b, d, own)
        /\ d.strategy \in AsksForMoney
        /\ d.strategy \in Permitted(account, folded[b].invs, folded[b].past)
  BY AskingDecides DEF CurrentInv
<1>2. ~folded[b].past.promised
  BY <1>1, PromiseExcludes
<1> QED
  BY <1>2 DEF CurrentInv, AsksNow

(* As long as nothing happens between a fold and its decision, no batch    *)
(* asks for money while a promise is running, whatever the model answers.  *)
THEOREM PromiseHaltsHolds ==
    ASSUME Quiet
    PROVE  Spec => PromiseHalts
<1>1. CurrentInv /\ [Next]_vars => CurrentInv'
  BY CurrentStep
<1>2. CurrentInv /\ [Next]_vars => [\A b \in Batches : AsksNow(b) => ~FoldRunning]_vars
  BY PromiseHaltsStep
<1> QED
  BY CurrentInit, <1>1, <1>2, PTL DEF Spec, PromiseHalts

-----------------------------------------------------------------------------
(* What is owed is a whole amount, and the band under it holds one.        *)
LEMMA OwedTyped ==
    ASSUME NEW invs, NEW p \in [Invoices -> Nat],
           invs \in [Invoices -> [amount : Nat, received : Nat, tds : Nat,
                                  state : STRING, days : Int]]
    PROVE  Collectible(Project(invs, p)) \in Int
<1> DEFINE late == Project(invs, p)
           f == [i \in DOMAIN late |-> Balance(late[i])]
<1>1. DOMAIN late = Invoices
  BY DEF Project
<1>2. ASSUME NEW i \in Invoices PROVE Balance(late[i]) \in Int
  <2>1. /\ invs[i].amount \in Nat /\ invs[i].received \in Nat /\ invs[i].tds \in Nat
        /\ p[i] \in Nat
    OBVIOUS
  <2>2. CASE p[i] = 0
    <3>1. late[i] = invs[i]
      BY <2>2 DEF Project
    <3> QED
      BY <2>1, <3>1 DEF Balance
  <2>3. CASE p[i] # 0
    <3>1. /\ late[i].amount = invs[i].amount /\ late[i].tds = invs[i].tds
          /\ late[i].received = invs[i].received + p[i]
      BY <2>3 DEF Project
    <3> QED
      BY <2>1, <3>1 DEF Balance
  <2> QED
    BY <2>2, <2>3
<1>3. Collectible(late) = SumFunctionOnSet(f, Invoices)
  BY <1>1 DEF Collectible, SumFunction
<1>4. \A i \in Invoices : f[i] \in Int
  BY <1>1, <1>2
<1> HIDE DEF f, late
<1>5. SumFunctionOnSet(f, Invoices) \in Int
  BY <1>4, SumType, DataAssumption
<1> QED
  BY <1>3, <1>5 DEF late

LEMMA ClampInBand ==
    ASSUME ConcessionBps < 10000
    PROVE  \A ask \in Int, owed \in Nat \ {0} :
             Clamp(ask, owed) > 0 /\ Clamp(ask, owed) \in MinAsk(owed)..owed
<1> SUFFICES ASSUME NEW ask \in Int, NEW owed \in Nat \ {0}
             PROVE  Clamp(ask, owed) > 0 /\ Clamp(ask, owed) \in MinAsk(owed)..owed
  OBVIOUS
<1>1. PICK p \in Nat : p = owed * ConcessionBps
  BY EnvelopeAssumption
<1>2. ConcessionBps \in 0..9999 /\ p <= owed * 9999
  BY <1>1, EnvelopeAssumption
<1>3. PICK q \in Nat : q = p \div 10000
  BY <1>1
<1>4. q * 10000 <= p
  BY <1>1, <1>3
<1>5. q < owed
  BY <1>2, <1>4
<1>6. MinAsk(owed) \in Int /\ MinAsk(owed) > 0 /\ MinAsk(owed) <= owed
  BY <1>1, <1>3, <1>5 DEF MinAsk
<1> QED
  BY <1>6 DEF Clamp

(* What a batch asks is the model's ask, brought into the band.            *)
LEMMA AskIsClamped ==
    ASSUME Shape, NEW b \in Batches, Decide(b), made'[b].strategy \in AsksForMoney
    PROVE  \E answer \in Answers :
             made'[b].ask = Clamp(answer.ask, Collectible(folded[b].invs))
<1> DEFINE permitted == Permitted(account, folded[b].invs, folded[b].past)
           owed == Collectible(folded[b].invs)
<1>1. ASSUME NEW d, NEW own, DecideOn(b, d, own)
      PROVE  made'[b].strategy = d.strategy /\ made'[b].ask = d.ask
  BY <1>1 DEF DecideOn, Shape
<1>2. ~DecideOn(b, Suppressed, FALSE)
  <2>1. Suppressed.strategy \notin AsksForMoney
    BY DEF Suppressed, AsksForMoney
  <2> QED
    BY <1>1, <2>1
<1>3. ~DecideOn(b, NoAnswer(permitted), FALSE)
  <2> HIDE DEF permitted
  <2>1. NoAnswer(permitted).strategy \notin AsksForMoney
    BY DEF NoAnswer, Fallback, AsksForMoney
  <2> QED
    BY <1>1, <2>1
<1>4. PICK answer \in Answers :
        LET d == Decision(answer, permitted, owed)
        IN  DecideOn(b, d, d = [answer EXCEPT !.review = d.review])
  BY <1>2, <1>3 DEF Decide
<1> DEFINE d == Decision(answer, permitted, owed)
           own == (d = [answer EXCEPT !.review = d.review])
<1>5. DecideOn(b, d, own)
  BY <1>4
<1>6. d.ask = IF d.strategy \in AsksForMoney THEN Clamp(answer.ask, owed) ELSE 0
  BY DecisionFields
<1> HIDE DEF d, own, permitted
<1>7. d.strategy \in AsksForMoney /\ made'[b].ask = d.ask
  BY <1>1, <1>5
<1> QED
  BY <1>6, <1>7

LEMMA AskIsOwedStep ==
    ASSUME Live, ConcessionBps < 10000,
           CurrentInv, [Next]_vars, NEW b \in Batches, AsksNow(b)
    PROVE  made'[b].ask > 0 /\ made'[b].ask \in MinAsk(Owed)..Owed
<1>1. PICK d, own :
        /\ DecideOn(b, d, own)
        /\ d.strategy \in AsksForMoney
        /\ d.strategy \in Permitted(account, folded[b].invs, folded[b].past)
  BY AskingDecides DEF CurrentInv
<1>2. Collectible(folded[b].invs) = Owed
  BY DEF CurrentInv, AsksNow, Invs, Owed
<1>3. Owed \in Int
  <2>1. account \in Accounts /\ paid \in [Invoices -> Nat]
    BY DEF CurrentInv, Shape
  <2> QED
    BY <2>1, OwedTyped, DataAssumption DEF Owed
<1>4. ~(Collectible(folded[b].invs) <= 0)
  BY <1>1, NothingOwedExcludes
<1>5. Owed \in Nat \ {0}
  BY <1>2, <1>3, <1>4
<1>6. PICK answer \in Answers : made'[b].ask = Clamp(answer.ask, Owed)
  <2>1. Decide(b)
    BY AskerDecides DEF CurrentInv
  <2>2. Shape /\ made'[b].strategy \in AsksForMoney
    BY DEF CurrentInv, AsksNow
  <2> QED
    BY <1>2, <2>1, <2>2, AskIsClamped
<1>7. answer.ask \in Int
  BY DataAssumption DEF DecisionRow
<1>8. Clamp(answer.ask, Owed) > 0 /\ Clamp(answer.ask, Owed) \in MinAsk(Owed)..Owed
  BY <1>5, <1>7, ClampInBand
<1> QED
  BY <1>6, <1>8

(* As long as nothing happens between a fold and its decision, every ask   *)
(* is inside the band of what the debtor owes at that moment and is for    *)
(* something, for any book, any payments and whatever the model answers.   *)
THEOREM AskIsOwedHolds ==
    ASSUME Quiet, Live, ConcessionBps < 10000
    PROVE  Spec => AskIsOwed
<1>1. CurrentInv /\ [Next]_vars => CurrentInv'
  BY CurrentStep
<1>2. CurrentInv /\ [Next]_vars =>
        [\A b \in Batches : AsksNow(b) =>
           made'[b].ask > 0 /\ made'[b].ask \in MinAsk(Owed)..Owed]_vars
  BY AskIsOwedStep
<1> QED
  BY CurrentInit, <1>1, <1>2, PTL DEF Spec, AskIsOwed
-----------------------------------------------------------------------------
(* The log itself, as AuditLog has it: when a batch that folds it reads    *)
(* what was recorded.                                                      *)
LogTypes ==
    /\ rows \in Seq(Events \cup {Garbled, Corrupt, Blank})
    /\ tail \in Part \cup {NoEvent, Garbled}
    /\ at \in [Writers -> {"idle", "start"} \cup Cuts]
    /\ event \in [Writers -> Events \cup {NoEvent}]
    /\ recorded \in Seq(Events)
    /\ Len(rows) = Len(recorded)
    /\ \A w \in Writers : at[w] # "idle" => event[w] \in Events
    /\ \A v, w \in Writers : v # w /\ at[v] # "idle" /\ at[w] # "idle" => event[v] # event[w]

Sound(k) == \A j \in 1..(k - 1) : rows[j] \in Events

(* Up to the first bad row the terminated rows are what was recorded, and  *)
(* that row holds something.                                               *)
RowsAreRecorded ==
    \A k \in 1..Len(rows) : Sound(k) => rows[k] \in {recorded[k], Corrupt, Garbled}

Dirty == tail = Garbled \/ (tail # NoEvent /\ ~tail.clean)

OwnPart(w) ==
    at[w] \in Cuts /\ tail = [of |-> event[w], upto |-> at[w], clean |-> TRUE]

(* A writer that goes on does so in its own row, or some row is bad. *)
CutInv ==
    \A w \in Writers : at[w] \in Cuts =>
        OwnPart(w) \/ Dirty \/ \E k \in 1..Len(rows) : rows[k] \notin Events

LogInv == LogTypes /\ RowsAreRecorded /\ CutInv

LEMMA LogStarts == ASSUME LogInit PROVE LogInv
<1>1. /\ rows = <<>> /\ recorded = <<>> /\ tail = NoEvent
      /\ at = [w \in Writers |-> "idle"]
      /\ event = [w \in Writers |-> NoEvent]
  BY DEF LogInit
<1>2. rows \in Seq(Events \cup {Garbled, Corrupt, Blank}) /\ recorded \in Seq(Events)
  BY <1>1
<1>3. LogTypes /\ CutInv
  BY <1>1, <1>2 DEF LogTypes, CutInv, Cuts
<1>4. RowsAreRecorded
  BY <1>1 DEF RowsAreRecorded
<1>5. QED
  BY <1>3, <1>4 DEF LogInv

(* What a piece of a line makes of the tail. *)
LEMMA JoinIs ==
  ASSUME LogInv, NEW w \in Writers, at[w] # "idle", NEW q \in Cuts
  PROVE  LET t == Join(tail, event[w], at[w], q)
         IN  /\ t \in Part \cup {NoEvent, Garbled}
             /\ at[w] # "whole" => t # NoEvent
             /\ t = NoEvent => tail = NoEvent /\ at[w] = "whole"
             /\ Dirty => t = Garbled \/ (t # NoEvent /\ ~t.clean)
             /\ \/ t = [of |-> event[w], upto |-> q, clean |-> TRUE]
                \/ t = Garbled \/ (t # NoEvent /\ ~t.clean)
                \/ at[w] = "whole" /\ t = tail
             /\ tail # NoEvent /\ ~OwnPart(w) /\ at[w] # "whole" =>
                    t = Garbled \/ (t # NoEvent /\ ~t.clean)
             /\ (OwnPart(w) /\ at[w] # "whole") \/ (tail = NoEvent /\ at[w] = "start") =>
                    t = [of |-> event[w], upto |-> q, clean |-> TRUE]
<1> DEFINE e == event[w]
           p == at[w]
           mid == tail \notin {NoEvent, Garbled}
           own == (tail = NoEvent /\ p = "start") \/ (mid /\ tail.of = e /\ tail.upto = p)
           torn == p = "char" \/ tail = Garbled \/ (mid /\ tail.upto = "char")
           t == Join(tail, e, p, q)
<1>1. e \in Events /\ tail \in Part \cup {NoEvent, Garbled} /\ own \in BOOLEAN
  BY DEF LogInv, LogTypes
<1>2. mid => tail \in Part /\ tail.clean \in BOOLEAN
             /\ tail = [of |-> tail.of, upto |-> tail.upto, clean |-> tail.clean]
             /\ tail.upto \in Cuts
  BY <1>1 DEF Part
<1>3. t = IF p = "whole" THEN tail
          ELSE IF ~own /\ torn THEN Garbled
          ELSE [of |-> e, upto |-> q, clean |-> own /\ (tail = NoEvent \/ tail.clean)]
  BY DEF Join
<1>4. (own /\ (tail = NoEvent \/ tail.clean)) \in BOOLEAN
  BY <1>1, <1>2
<1>5. /\ [of |-> e, upto |-> q, clean |-> TRUE] \in Part
      /\ [of |-> e, upto |-> q, clean |-> FALSE] \in Part
      /\ NoEvent \notin Part /\ Garbled \notin Part /\ NoEvent # Garbled
  BY <1>1, RowsAssumption DEF Part
<1>6. mid => (OwnPart(w) <=> own /\ tail.clean)
  BY <1>2 DEF OwnPart
<1>7. ~mid => ~OwnPart(w)
  <2>1. at[w] \in Cuts => [of |-> e, upto |-> p, clean |-> TRUE] \in Part
    BY <1>1 DEF Part
  <2>2. QED
    BY <1>1, <1>5, <2>1 DEF OwnPart
<1>8. CASE p = "whole"
  BY <1>1, <1>3, <1>8 DEF Dirty
<1>9. CASE p # "whole" /\ ~own /\ torn
  <2>1. t = Garbled
    BY <1>3, <1>9
  <2>2. QED
    BY <1>5, <1>6, <1>7, <1>9, <2>1
<1>10. CASE p # "whole" /\ ~(~own /\ torn)
  <2> DEFINE c == own /\ (tail = NoEvent \/ tail.clean)
  <2>1. t = [of |-> e, upto |-> q, clean |-> c]
    BY <1>3, <1>10
  <2>2. CASE c
    <3>1. t = [of |-> e, upto |-> q, clean |-> TRUE]
      BY <1>4, <2>1, <2>2
    <3>2. ~Dirty /\ (tail # NoEvent => OwnPart(w))
      BY <1>1, <1>2, <1>5, <1>6, <2>2 DEF Dirty
    <3>3. QED
      BY <1>5, <1>10, <3>1, <3>2
  <2>3. CASE ~c
    <3>1. t = [of |-> e, upto |-> q, clean |-> FALSE]
      BY <1>4, <2>1, <2>3
    <3>2. ~(OwnPart(w) \/ (tail = NoEvent /\ p = "start"))
      BY <1>6, <1>7, <2>3
    <3>3. t \in Part /\ t # NoEvent /\ ~t.clean
      <4>1. t \in Part /\ t # NoEvent
        BY <1>5, <3>1
      <4>2. QED
        BY <3>1, <4>1
    <3>4. QED
      BY <1>10, <3>2, <3>3
  <2>4. QED
    BY <2>2, <2>3
<1>11. QED
  BY <1>8, <1>9, <1>10

(* How a tail reads once it is closed. *)
LEMMA ClosedIs ==
  ASSUME NEW t \in Part \cup {NoEvent, Garbled}
  PROVE  /\ Closed(t) \in Events \cup {Garbled, Corrupt, Blank}
         /\ t # NoEvent => Closed(t) # Blank
         /\ t = Garbled \/ (t # NoEvent /\ ~t.clean) => Closed(t) \in {Garbled, Corrupt}
         /\ \A e \in Events, q \in Cuts :
              t = [of |-> e, upto |-> q, clean |-> TRUE] =>
                Closed(t) = IF q = "whole" THEN e ELSE IF q = "char" THEN Garbled ELSE Corrupt
<1>1. NoEvent \notin Part /\ Garbled \notin Part /\ NoEvent # Garbled
      /\ Garbled # Blank /\ Corrupt # Blank /\ Blank \notin Events
  BY RowsAssumption
<1>2. CASE t \in {NoEvent, Garbled}
  <2>1. ASSUME NEW e \in Events, NEW q \in Cuts
        PROVE  t # [of |-> e, upto |-> q, clean |-> TRUE]
    <3>1. [of |-> e, upto |-> q, clean |-> TRUE] \in Part
      BY DEF Part
    <3>2. QED
      BY <1>1, <1>2, <3>1
  <2>2. QED
    BY <1>1, <1>2, <2>1 DEF Closed
<1>3. CASE t \in Part
  <2>1. t # NoEvent /\ t # Garbled /\ t.of \in Events /\ t.upto \in Cuts
    BY <1>1, <1>3 DEF Part
  <2>2. Closed(t) = IF t.upto = "char" THEN Garbled
                    ELSE IF t.clean /\ t.upto = "whole" THEN t.of ELSE Corrupt
    BY <2>1 DEF Closed
  <2>3. QED
    BY <1>1, <2>1, <2>2
<1>4. QED
  BY <1>2, <1>3

(* The line, or its rest, is written out. *)
LEMMA WriteOutStep == ASSUME LogInv, NEW w \in Writers, WriteOut(w) PROVE LogInv'
<1> USE DEF LogInv, LogTypes
<1> DEFINE t == Join(tail, event[w], at[w], "whole")
           row == Closed(t)
           n == Len(rows)
           Broken == \E k \in 1..n : rows[k] \notin Events
<1>1. at[w] # "idle" /\ event[w] \in Events /\ n \in Nat /\ "whole" \in Cuts
  BY DEF WriteOut, Cuts
<1>2. /\ t \in Part \cup {NoEvent, Garbled}
      /\ t = NoEvent => tail = NoEvent /\ at[w] = "whole"
      /\ Dirty => t = Garbled \/ (t # NoEvent /\ ~t.clean)
      /\ \/ t = [of |-> event[w], upto |-> "whole", clean |-> TRUE]
         \/ t = Garbled \/ (t # NoEvent /\ ~t.clean)
         \/ at[w] = "whole" /\ t = tail
  BY <1>1, JoinIs
<1> HIDE DEF t
<1>3. /\ row \in Events \cup {Garbled, Corrupt, Blank}
      /\ t # NoEvent => row # Blank
      /\ t = Garbled \/ (t # NoEvent /\ ~t.clean) => row \in {Garbled, Corrupt}
      /\ t = [of |-> event[w], upto |-> "whole", clean |-> TRUE] => row = event[w]
  BY <1>1, <1>2, ClosedIs
<1>4. /\ rows' = Append(rows, row) /\ recorded' = Append(recorded, event[w])
      /\ tail' = NoEvent /\ Return(w)
  BY DEF WriteOut, t
<1> HIDE DEF row
<1>5. /\ rows' \in Seq(Events \cup {Garbled, Corrupt, Blank}) /\ recorded' \in Seq(Events)
      /\ Len(rows') = n + 1 /\ Len(recorded') = n + 1
      /\ rows'[n + 1] = row /\ recorded'[n + 1] = event[w]
      /\ \A k \in 1..n : rows'[k] = rows[k] /\ recorded'[k] = recorded[k]
  BY <1>1, <1>3, <1>4, AppendProperties
<1>6. LogTypes'
  BY <1>4, <1>5 DEF Return
<1>7. ~Broken => row \in {event[w], Garbled, Corrupt}
  <2>1. SUFFICES ASSUME ~Broken, at[w] = "whole", t = tail, ~Dirty
                 PROVE  row = event[w]
    BY <1>2, <1>3
  <2>2. OwnPart(w)
    BY <2>1 DEF CutInv, Cuts
  <2>3. QED
    BY <1>3, <2>1, <2>2 DEF OwnPart
<1>8. RowsAreRecorded'
  <2>1. ASSUME NEW k \in 1..(n + 1), Sound(k)'
        PROVE  rows'[k] \in {recorded'[k], Corrupt, Garbled}
    <3>1. CASE k = n + 1
      <4>1. ~Broken
        BY <1>1, <1>5, <2>1, <3>1 DEF Sound
      <4>2. QED
        BY <1>5, <1>7, <3>1, <4>1
    <3>2. CASE k # n + 1
      <4>1. k \in 1..n /\ \A j \in 1..(k - 1) : j \in 1..n
        BY <1>1, <3>2
      <4>2. Sound(k)
        BY <1>5, <2>1, <4>1 DEF Sound
      <4>3. QED
        BY <1>5, <4>1, <4>2 DEF RowsAreRecorded
    <3>3. QED
      BY <3>1, <3>2
  <2>2. QED
    BY <1>5, <2>1 DEF RowsAreRecorded
<1>9. CutInv'
  <2>1. ASSUME NEW v \in Writers, at'[v] \in Cuts
        PROVE  \E k \in 1..Len(rows') : rows'[k] \notin Events
    <3>1. v # w /\ at'[v] = at[v]
      BY <1>4, <2>1 DEF Return, Cuts
    <3>2. CASE Broken
      BY <1>1, <1>5, <3>2
    <3>3. CASE Dirty
      <4>1. row \notin Events
        BY <1>2, <1>3, <3>3, RowsAssumption
      <4>2. QED
        BY <1>1, <1>5, <4>1
    <3>4. CASE OwnPart(v) /\ ~Dirty
      <4>1. event[v] # event[w] /\ ~OwnPart(w)
        <5>1. event[v] # event[w]
          BY <1>1, <2>1, <3>1 DEF Cuts
        <5>2. QED
          BY <3>4, <5>1 DEF OwnPart
      <4>2. tail # NoEvent
        <5>1. event[v] \in Events /\ at[v] \in Cuts
          BY <3>4 DEF OwnPart, Cuts
        <5>2. tail \in Part
          BY <3>4, <5>1 DEF OwnPart, Part
        <5>3. QED
          BY <5>2, RowsAssumption
      <4>3. CASE at[w] = "whole"
        BY <1>1, <3>2, <3>4, <4>1, <4>3 DEF CutInv
      <4>4. CASE at[w] # "whole"
        <5>1. t = Garbled \/ (t # NoEvent /\ ~t.clean)
          BY <1>1, <4>1, <4>2, <4>4, JoinIs DEF t
        <5>2. QED
          BY <1>1, <1>3, <1>5, <5>1, RowsAssumption
      <4>5. QED
        BY <4>3, <4>4
    <3>5. QED
      BY <2>1, <3>1, <3>2, <3>3, <3>4 DEF CutInv
  <2>2. QED
    BY <2>1 DEF CutInv
<1>10. QED
  BY <1>6, <1>8, <1>9

LEMMA ShortWriteStep == ASSUME LogInv, NEW w \in Writers, ShortWrite(w) PROVE LogInv'
<1> USE DEF LogInv, LogTypes
<1>1. PICK q \in Cuts : /\ tail' = Join(tail, event[w], at[w], q)
                        /\ at' = [at EXCEPT ![w] = q]
  BY DEF ShortWrite
<1>2. /\ at[w] \in {"start", "text", "char"} /\ event[w] \in Events
      /\ UNCHANGED <<rows, event, recorded>>
  BY DEF ShortWrite
<1> DEFINE t == Join(tail, event[w], at[w], q)
<1>3. /\ t \in Part \cup {NoEvent, Garbled} /\ t # NoEvent
      /\ Dirty => t = Garbled \/ ~t.clean
      /\ t = [of |-> event[w], upto |-> q, clean |-> TRUE] \/ t = Garbled \/ ~t.clean
      /\ tail # NoEvent /\ ~OwnPart(w) => t = Garbled \/ ~t.clean
  BY <1>2, JoinIs
<1> HIDE DEF t
<1>4. tail' = t
  BY <1>1 DEF t
<1>5. LogTypes' /\ RowsAreRecorded'
  BY <1>1, <1>2, <1>3, <1>4 DEF RowsAreRecorded, Sound
<1>6. CutInv'
  <2>1. ASSUME NEW v \in Writers, at'[v] \in Cuts
        PROVE  \/ OwnPart(v)' \/ Dirty'
               \/ \E k \in 1..Len(rows) : rows[k] \notin Events
    <3>1. CASE v = w
      <4>1. OwnPart(w)' <=> t = [of |-> event[w], upto |-> q, clean |-> TRUE]
        BY <1>1, <1>2, <1>4 DEF OwnPart
      <4>2. Dirty' <=> t = Garbled \/ ~t.clean
        BY <1>3, <1>4 DEF Dirty
      <4>3. QED
        BY <1>3, <3>1, <4>1, <4>2
    <3>2. CASE v # w
      <4>1. at[v] = at'[v]
        BY <1>1, <3>2
      <4>2. Dirty => Dirty'
        BY <1>3, <1>4 DEF Dirty
      <4>3. CASE OwnPart(v)
        <5>1. event[v] # event[w] /\ event[v] \in Events /\ at[v] \in Cuts
          BY <1>2, <2>1, <3>2, <4>1 DEF Cuts
        <5>2. ~OwnPart(w) /\ tail \in Part
          BY <4>3, <5>1 DEF OwnPart, Part
        <5>3. QED
          BY <1>3, <1>4, <5>2, RowsAssumption DEF Dirty
      <4>4. QED
        BY <2>1, <4>1, <4>2, <4>3 DEF CutInv
    <3>3. QED
      BY <3>1, <3>2
  <2>2. QED
    BY <1>2, <2>1 DEF CutInv
<1>7. QED
  BY <1>5, <1>6

LEMMA LogStep == ASSUME LogInv, [LogNext]_fileVars PROVE LogInv'
<1> USE DEF LogInv, LogTypes
<1>1. CASE Crash
  BY <1>1 DEF Crash, RowsAreRecorded, Sound, CutInv, Cuts
<1>2. ASSUME NEW w \in Writers, NEW e \in Events, Begin(w, e) PROVE LogInv'
  <2>1. /\ at' = [at EXCEPT ![w] = "start"] /\ event' = [event EXCEPT ![w] = e]
        /\ at[w] = "idle" /\ UNCHANGED <<rows, tail, recorded>>
        /\ \A v \in Writers : event[v] # e
    BY <1>2 DEF Begin, Fresh
  <2>2. LogTypes' /\ RowsAreRecorded'
    BY <2>1 DEF RowsAreRecorded, Sound
  <2>3. CutInv'
    BY <2>1 DEF CutInv, OwnPart, Dirty, Cuts
  <2>4. QED
    BY <2>2, <2>3
<1>3. ASSUME NEW w \in Writers, WriteOut(w) PROVE LogInv'
  BY <1>3, WriteOutStep
<1>4. ASSUME NEW w \in Writers, ShortWrite(w) PROVE LogInv'
  BY <1>4, ShortWriteStep
<1>5. ASSUME NEW w \in Writers, WriteFails(w) PROVE LogInv'
  <2>1. /\ at' = [at EXCEPT ![w] = "idle"] /\ event' = [event EXCEPT ![w] = NoEvent]
        /\ UNCHANGED <<rows, tail, recorded>>
    BY <1>5 DEF WriteFails, Return
  <2>2. LogTypes' /\ RowsAreRecorded'
    BY <2>1 DEF RowsAreRecorded, Sound
  <2>3. CutInv'
    BY <2>1 DEF CutInv, OwnPart, Dirty, Cuts
  <2>4. QED
    BY <2>2, <2>3
<1>6. CASE UNCHANGED fileVars
  BY <1>6 DEF fileVars, RowsAreRecorded, Sound, CutInv, OwnPart, Dirty
<1>7. QED
  BY <1>1, <1>2, <1>3, <1>4, <1>5, <1>6 DEF LogNext, Record

(* The loop of read_all over the rows s, of which the first n are events   *)
(* and at most one more follows.                                           *)
Loop(s, f) ==
    f = [k \in 0..Len(s) |-> IF k = 0 THEN <<>>
                             ELSE IF s[k] \in Events THEN Append(f[k - 1], s[k])
                             ELSE f[k - 1]]

Kept(s, n, k) ==
    IF k <= n THEN SubSeq(s, 1, k) ELSE IF s[k] \in Events THEN s ELSE SubSeq(s, 1, n)

LEMMA AppendNext ==
  ASSUME NEW T, NEW s \in Seq(T), NEW k \in 1..Len(s)
  PROVE  Append(SubSeq(s, 1, k - 1), s[k]) = SubSeq(s, 1, k)
<1>1. k \in Nat /\ Len(s) \in Nat /\ 1 <= k /\ k <= Len(s)
  OBVIOUS
<1>2. \A j \in 1..Len(s) : s[j] \in T
  BY ElementOfSeq
<1>3. SubSeq(s, 1, k - 1) = [j \in 1..(k - 1) |-> s[j]] /\ SubSeq(s, 1, k - 1) \in Seq(T)
  <2>1. SubSeq(s, 1, k - 1) = [j \in 1..(k - 1) |-> s[1 + j - 1]]
    BY <1>1
  <2>2. QED
    BY <1>1, <1>2, <2>1
<1>4. QED
  BY <1>1, <1>2, <1>3

LEMMA LoopKeeps ==
  ASSUME NEW T, NEW s \in Seq(T), NEW n \in Nat, Len(s) = n \/ Len(s) = n + 1,
         \A k \in 1..n : s[k] \in Events
  PROVE  /\ \E f : Loop(s, f)
         /\ \A f : Loop(s, f) => f[Len(s)] = Kept(s, n, Len(s))
<1>1. SubSeq(s, 1, 0) = <<>> /\ SubSeq(s, 1, Len(s)) = s
  OBVIOUS
<1>2. ASSUME NEW k \in 1..Len(s)
      PROVE  Kept(s, n, k) = IF s[k] \in Events THEN Append(Kept(s, n, k - 1), s[k])
                             ELSE Kept(s, n, k - 1)
  <2>1. k - 1 <= n /\ Kept(s, n, k - 1) = SubSeq(s, 1, k - 1)
    BY DEF Kept
  <2>2. Append(SubSeq(s, 1, k - 1), s[k]) = SubSeq(s, 1, k)
    BY AppendNext
  <2>3. CASE k <= n
    BY <2>1, <2>2, <2>3 DEF Kept
  <2>4. CASE k > n
    <3>1. k = Len(s) /\ k - 1 = n
      BY <2>4
    <3>2. Kept(s, n, k) = IF s[k] \in Events THEN s ELSE SubSeq(s, 1, n)
      BY <2>4 DEF Kept
    <3>3. QED
      BY <1>1, <2>1, <2>2, <3>1, <3>2
  <2>5. QED
    BY <2>3, <2>4
<1>3. Kept(s, n, 0) = <<>>
  <2>1. 0 <= n
    OBVIOUS
  <2>2. QED
    BY <1>1, <2>1 DEF Kept
<1>4. \E f : Loop(s, f)
  <2> DEFINE g == [k \in 0..Len(s) |-> Kept(s, n, k)]
  <2>1. ASSUME NEW k \in 1..Len(s) PROVE g[k - 1] = Kept(s, n, k - 1)
    OBVIOUS
  <2>2. ASSUME NEW k \in 0..Len(s)
        PROVE  Kept(s, n, k) = IF k = 0 THEN <<>>
                               ELSE IF s[k] \in Events THEN Append(g[k - 1], s[k])
                               ELSE g[k - 1]
    <3>1. CASE k = 0
      BY <1>3, <3>1
    <3>2. CASE k # 0
      <4>1. k \in 1..Len(s)
        BY <3>2
      <4> HIDE DEF g
      <4>2. QED
        BY <1>2, <2>1, <3>2, <4>1
    <3>3. QED
      BY <3>1, <3>2
  <2>3. Loop(s, g)
    BY <2>2 DEF Loop
  <2> HIDE DEF g
  <2>4. QED
    BY <2>3
<1>5. ASSUME NEW f, Loop(s, f) PROVE f[Len(s)] = Kept(s, n, Len(s))
  <2> DEFINE Good == {k \in Nat : k <= Len(s) => f[k] = Kept(s, n, k)}
  <2>1. \A k \in 0..Len(s) : f[k] = IF k = 0 THEN <<>>
                                    ELSE IF s[k] \in Events THEN Append(f[k - 1], s[k])
                                    ELSE f[k - 1]
    BY <1>5 DEF Loop
  <2>2. 0 \in Good
    BY <1>3, <2>1
  <2>3. ASSUME NEW k \in Nat, k \in Good PROVE k + 1 \in Good
    <3>1. SUFFICES ASSUME k + 1 <= Len(s) PROVE f[k + 1] = Kept(s, n, k + 1)
      OBVIOUS
    <3>2. k + 1 \in 1..Len(s) /\ (k + 1) - 1 = k /\ f[k] = Kept(s, n, k)
      BY <2>3, <3>1
    <3>3. f[k + 1] = IF s[k + 1] \in Events THEN Append(f[k], s[k + 1]) ELSE f[k]
      <4>1. k + 1 \in 0..Len(s) /\ k + 1 # 0
        BY <3>2
      <4>2. f[k + 1] = IF s[k + 1] \in Events THEN Append(f[(k + 1) - 1], s[k + 1])
                       ELSE f[(k + 1) - 1]
        BY <2>1, <4>1
      <4>3. QED
        BY <3>2, <4>2
    <3>4. Kept(s, n, k + 1) = IF s[k + 1] \in Events THEN Append(Kept(s, n, k), s[k + 1])
                              ELSE Kept(s, n, k)
      <4>1. Kept(s, n, k + 1) = IF s[k + 1] \in Events
                                THEN Append(Kept(s, n, (k + 1) - 1), s[k + 1])
                                ELSE Kept(s, n, (k + 1) - 1)
        BY <1>2, <3>2
      <4>2. QED
        BY <3>2, <4>1
    <3>5. QED
      BY <3>2, <3>3, <3>4
  <2>4. Nat \subseteq Good
    <3> HIDE DEF Good
    <3>1. QED
      BY <2>2, <2>3, NaturalsIn
  <2>5. QED
    BY <2>4
<1>6. QED
  BY <1>4, <1>5

(* What read_all returns, when the first n rows of the file are what was   *)
(* recorded first and at most one row follows.                             *)
LEMMA ReadsUpTo ==
  ASSUME LogInv, NEW n \in 0..Len(recorded), Lines \in Seq(Events \cup {Garbled, Corrupt, Blank}),
         Len(Lines) \in {n, n + 1}, \A k \in 1..n : Lines[k] = recorded[k]
  PROVE  LET first == SubSeq(recorded, 1, n)
         IN  ReadAll = IF Len(Lines) = n + 1 /\ Lines[n + 1] \in Events
                       THEN Append(first, Lines[n + 1]) ELSE first
<1> DEFINE s == Lines
           T == Events \cup {Garbled, Corrupt, Blank}
<1>1. recorded \in Seq(Events) /\ n \in Nat /\ n <= Len(recorded)
      /\ \A k \in 1..n : k \in 1..Len(recorded) /\ recorded[k] \in Events
  BY ElementOfSeq DEF LogInv, LogTypes
<1>2. s \in Seq(T) /\ Len(s) \in {n, n + 1} /\ \A k \in 1..n : s[k] = recorded[k]
  OBVIOUS
<1> HIDE DEF s, T
<1>3. ReadAll = Kept(s, n, Len(s))
  <2>1. \E f : Loop(s, f)
    BY <1>1, <1>2, LoopKeeps
  <2>2. Loop(s, Parsed)
    BY <2>1 DEF Parsed, Loop, s
  <2>3. QED
    BY <1>1, <1>2, <2>2, LoopKeeps DEF ReadAll, s
<1>4. SubSeq(s, 1, n) = SubSeq(recorded, 1, n)
  <2>1. SubSeq(s, 1, n) = [k \in 1..n |-> s[k]]
    BY <1>1, <1>2
  <2>2. SubSeq(recorded, 1, n) = [k \in 1..n |-> recorded[k]]
    BY <1>1
  <2>3. QED
    BY <1>2, <2>1, <2>2
<1>5. CASE Len(s) = n
  <2>1. n <= n /\ n # n + 1
    BY <1>1
  <2>2. ReadAll = SubSeq(recorded, 1, n)
    BY <1>3, <1>4, <1>5, <2>1 DEF Kept
  <2>3. QED
    BY <1>5, <2>1, <2>2 DEF s
<1>6. CASE Len(s) = n + 1
  <2>1. s = Append(SubSeq(s, 1, n), s[n + 1])
    <3>1. n + 1 \in 1..Len(s) /\ (n + 1) - 1 = n
      BY <1>1, <1>6
    <3>2. Append(SubSeq(s, 1, (n + 1) - 1), s[n + 1]) = SubSeq(s, 1, n + 1)
      BY <1>2, <3>1, AppendNext
    <3>3. SubSeq(s, 1, n + 1) = s
      BY <1>2, <1>6
    <3>4. QED
      BY <3>1, <3>2, <3>3
  <2>2. Kept(s, n, Len(s)) = IF s[n + 1] \in Events THEN s ELSE SubSeq(s, 1, n)
    BY <1>1, <1>6 DEF Kept
  <2>3. QED
    BY <1>3, <1>4, <1>6, <2>1, <2>2 DEF s
<1>7. QED
  BY <1>2, <1>5, <1>6

(* The rows of the file, and what its tail adds to them. *)
LEMMA LinesAre ==
  ASSUME LogInv
  PROVE  /\ Lines \in Seq(Events \cup {Garbled, Corrupt, Blank})
         /\ \A k \in 1..Len(rows) : Lines[k] = rows[k]
         /\ tail = NoEvent => Lines = rows
         /\ tail # NoEvent => /\ Len(Lines) = Len(rows) + 1
                              /\ Lines[Len(rows) + 1] = Closed(tail)
                              /\ Closed(tail) \in Events \cup {Garbled, Corrupt}
<1>1. rows \in Seq(Events \cup {Garbled, Corrupt, Blank}) /\ tail \in Part \cup {NoEvent, Garbled}
  BY DEF LogInv, LogTypes
<1>2. /\ Closed(tail) \in Events \cup {Garbled, Corrupt, Blank}
      /\ tail # NoEvent => Closed(tail) # Blank
  BY <1>1, ClosedIs
<1>3. CASE tail = NoEvent
  BY <1>1, <1>3 DEF Lines
<1>4. CASE tail # NoEvent
  <2> DEFINE c == Closed(tail)
  <2>1. Lines = Append(rows, c) /\ c \in Events \cup {Garbled, Corrupt, Blank} /\ c # Blank
    BY <1>2, <1>4 DEF Lines
  <2> HIDE DEF c
  <2>2. QED
    BY <1>1, <1>4, <2>1, AppendProperties DEF c
<1>5. QED
  BY <1>3, <1>4

(* A file whose terminated rows are sound is read back as what was         *)
(* recorded, with at most the open row.                                    *)
LEMMA SoundReads ==
  ASSUME LogInv, \A k \in 1..Len(rows) : rows[k] \in Events
  PROVE  /\ ReadAll = IF tail # NoEvent /\ Closed(tail) \in Events
                      THEN Append(recorded, Closed(tail)) ELSE recorded
         /\ Refuses <=> tail # NoEvent /\ Closed(tail) = Garbled
<1> DEFINE n == Len(recorded)
<1>1. n \in Nat /\ Len(rows) = n /\ n \in 0..Len(recorded) /\ recorded \in Seq(Events)
  BY DEF LogInv, LogTypes
<1>2. \A k \in 1..n : rows[k] = recorded[k] /\ rows[k] \in Events
  BY <1>1, RowsAssumption DEF LogInv, RowsAreRecorded, Sound
<1>3. /\ Lines \in Seq(Events \cup {Garbled, Corrupt, Blank})
      /\ \A k \in 1..n : Lines[k] = recorded[k] /\ Lines[k] \in Events
      /\ tail = NoEvent => Len(Lines) = n
      /\ tail # NoEvent => Len(Lines) = n + 1 /\ Lines[n + 1] = Closed(tail)
  BY <1>1, <1>2, LinesAre
<1>4. SubSeq(recorded, 1, n) = recorded
  BY <1>1
<1>5. ReadAll = IF Len(Lines) = n + 1 /\ Lines[n + 1] \in Events
                THEN Append(recorded, Lines[n + 1]) ELSE recorded
  <2>1. Len(Lines) \in {n, n + 1}
    BY <1>3
  <2>2. QED
    BY <1>1, <1>3, <1>4, <2>1, ReadsUpTo
<1>6. Len(Lines) = n + 1 <=> tail # NoEvent
  BY <1>1, <1>3
<1>7. Refuses <=> tail # NoEvent /\ Closed(tail) = Garbled
  <2>1. Corrupt \notin Events /\ Garbled \notin Events
    BY RowsAssumption
  <2>2. QED
    BY <1>1, <1>3, <2>1 DEF Refuses
<1>8. QED
  BY <1>3, <1>5, <1>6, <1>7

(* A file with a bad row that read_all takes ends in that row. *)
LEMMA LastRowLost ==
  ASSUME LogInv, ~Refuses, \E k \in 1..Len(rows) : rows[k] \notin Events
  PROVE  recorded # <<>> /\ ReadAll = Front(recorded)
<1> DEFINE n == Len(rows)
<1>1. n \in Nat /\ Len(recorded) = n /\ recorded \in Seq(Events)
  BY DEF LogInv, LogTypes
<1>2. PICK k \in 1..n : rows[k] \notin Events /\ Sound(k)
  <2> DEFINE G == {m \in Nat : \A j \in 1..m : j \in 1..n => rows[j] \in Events}
  <2>1. SUFFICES ASSUME \A k \in 1..n : Sound(k) => rows[k] \in Events
                 PROVE  FALSE
    OBVIOUS
  <2>2. 0 \in G
    OBVIOUS
  <2>3. ASSUME NEW m \in Nat, m \in G PROVE m + 1 \in G
    <3>1. \A j \in 1..m : j \in 1..n => rows[j] \in Events
      BY <2>3
    <3>2. m + 1 \in 1..n => Sound(m + 1)
      BY <1>1, <3>1 DEF Sound
    <3>3. m + 1 \in 1..n => rows[m + 1] \in Events
      BY <2>1, <3>2
    <3>4. QED
      BY <3>1, <3>3
  <2>4. Nat \subseteq G
    <3> HIDE DEF G
    <3>1. QED
      BY <2>2, <2>3, NaturalsIn
  <2>5. n \in G
    BY <1>1, <2>4
  <2>6. QED
    BY <1>1, <2>5
<1>3. rows[k] \in {Corrupt, Garbled}
  <2>1. rows[k] \in {recorded[k], Corrupt, Garbled} /\ recorded[k] \in Events
    BY <1>1, <1>2, ElementOfSeq DEF LogInv, RowsAreRecorded
  <2>2. QED
    BY <1>2, <2>1
<1>4. Lines[k] = rows[k] /\ Len(Lines) \in {n, n + 1} /\ (Len(Lines) = n => tail = NoEvent)
      /\ Lines \in Seq(Events \cup {Garbled, Corrupt, Blank})
      /\ (tail = NoEvent => Lines = rows) /\ \A j \in 1..n : Lines[j] = rows[j]
  BY <1>1, LinesAre
<1>5. k = n /\ Len(Lines) = n /\ Lines[n] = Corrupt
  BY <1>1, <1>2, <1>3, <1>4 DEF Refuses
<1>6. \A j \in 1..(n - 1) : Lines[j] = recorded[j]
  <2> SUFFICES ASSUME NEW j \in 1..(n - 1) PROVE Lines[j] = recorded[j]
    OBVIOUS
  <2>1. j \in 1..n /\ rows[j] \in Events /\ Sound(j)
    BY <1>1, <1>2, <1>5 DEF Sound
  <2>2. rows[j] = recorded[j]
    BY <2>1, RowsAssumption DEF LogInv, RowsAreRecorded
  <2>3. QED
    BY <1>4, <2>1, <2>2
<1>7. ReadAll = SubSeq(recorded, 1, n - 1)
  <2>1. n - 1 \in 0..Len(recorded) /\ Len(Lines) = (n - 1) + 1 /\ Lines[(n - 1) + 1] = Corrupt
    BY <1>1, <1>2, <1>5
  <2>2. Corrupt \notin Events /\ Len(Lines) \in {n - 1, (n - 1) + 1}
    BY <2>1, RowsAssumption
  <2>3. QED
    BY <1>4, <1>6, <2>1, <2>2, ReadsUpTo
<1>8. QED
  BY <1>1, <1>2, <1>7 DEF Front

(* Whatever is short, fails, dies or lands in another's row, for any       *)
(* number of writers: read_all returns what was recorded, in that order,   *)
(* but for at most one event at the end, or it raises (audit.py:146).      *)
THEOREM ReadBackHolds == LogSpec => []ReadBackInOrder
<1>1. LogInit => LogInv
  BY LogStarts
<1>2. LogInv /\ [LogNext]_fileVars => LogInv'
  BY LogStep
<1>3. LogInv => ReadBackInOrder
  <2> SUFFICES ASSUME LogInv, ~Refuses
               PROVE  \/ IsPrefix(recorded, ReadAll) /\ Len(ReadAll) <= Len(recorded) + 1
                      \/ recorded # <<>> /\ ReadAll = Front(recorded)
    BY DEF ReadBackInOrder
  <2>1. CASE \E k \in 1..Len(rows) : rows[k] \notin Events
    BY <2>1, LastRowLost
  <2>2. CASE \A k \in 1..Len(rows) : rows[k] \in Events
    <3>1. ReadAll = recorded \/ \E e \in Events : ReadAll = Append(recorded, e)
      BY <2>2, SoundReads
    <3>2. recorded \in Seq(Events)
      BY DEF LogInv, LogTypes
    <3>3. QED
      BY <3>1, <3>2 DEF IsPrefix
  <2>3. QED
    BY <2>1, <2>2
<1>4. QED
  BY <1>1, <1>2, <1>3, PTL DEF LogSpec

(* What keeps every write in a row of its own: os.write is never short, or *)
(* a writer is alone and its process neither dies nor fails.               *)
OwnRows == MaxShort = 0 \/ (MaxFaults = 0 /\ \A v, w \in Writers : v = w)

OwnRowInv ==
    /\ \A k \in 1..Len(rows) : rows[k] \in Events
    /\ shorts \in Nat /\ faults \in Nat
    /\ \A w \in Writers : at[w] \in Cuts => MaxShort # 0 /\ OwnPart(w)
    /\ tail # NoEvent => \E w \in Writers : at[w] \in Cuts

LEMMA OwnRowStep ==
  ASSUME OwnRows, LogInv, OwnRowInv, [LogNext]_fileVars
  PROVE  OwnRowInv'
<1> USE DEF LogInv, LogTypes, OwnRowInv
<1>1. CASE Crash
  BY <1>1, BoundsAssumption DEF Crash, OwnRows, Cuts
<1>2. ASSUME NEW w \in Writers, NEW e \in Events, Begin(w, e) PROVE OwnRowInv'
  BY <1>2 DEF Begin, OwnPart, Cuts
<1>3. ASSUME NEW w \in Writers, WriteOut(w) PROVE OwnRowInv'
  <2> DEFINE t == Join(tail, event[w], at[w], "whole")
  <2>1. at[w] # "idle" /\ event[w] \in Events /\ "whole" \in Cuts
        /\ rows' = Append(rows, Closed(t)) /\ tail' = NoEvent
        /\ UNCHANGED <<shorts, faults>> /\ Return(w)
    BY <1>3 DEF WriteOut, Cuts
  <2>2. \A v \in Writers : v # w => at[v] \notin Cuts
    <3>1. CASE MaxShort = 0
      BY <3>1
    <3>2. CASE \A v, u \in Writers : v = u
      BY <3>2
    <3>3. QED
      BY <3>1, <3>2 DEF OwnRows
  <2>3. t = [of |-> event[w], upto |-> "whole", clean |-> TRUE]
    <3>1. CASE at[w] = "start"
      <4>1. tail = NoEvent
        BY <2>2, <3>1 DEF Cuts
      <4>2. QED
        BY <2>1, <3>1, <4>1, JoinIs
    <3>2. CASE at[w] # "start"
      <4>1. at[w] \in Cuts /\ OwnPart(w)
        BY <2>1, <3>2
      <4>2. CASE at[w] = "whole"
        BY <4>1, <4>2 DEF OwnPart, Join
      <4>3. CASE at[w] # "whole"
        BY <2>1, <4>1, <4>3, JoinIs
      <4>4. QED
        BY <4>2, <4>3
    <3>3. QED
      BY <3>1, <3>2
  <2>4. Closed(t) = event[w]
    <3> HIDE DEF t
    <3>1. t \in Part
      BY <2>1, <2>3 DEF Part
    <3>2. Closed(t) = IF "whole" = "whole" THEN event[w]
                      ELSE IF "whole" = "char" THEN Garbled ELSE Corrupt
      BY <2>1, <2>3, <3>1, ClosedIs
    <3>3. QED
      BY <3>2
  <2> HIDE DEF t
  <2>5. \A k \in 1..Len(rows') : rows'[k] \in Events
    BY <2>1, <2>4, AppendProperties
  <2>6. \A v \in Writers : at'[v] \notin Cuts
    BY <2>1, <2>2 DEF Return, Cuts
  <2>7. QED
    BY <2>1, <2>5, <2>6
<1>4. ASSUME NEW w \in Writers, ShortWrite(w) PROVE OwnRowInv'
  <2>1. PICK q \in Cuts : /\ tail' = Join(tail, event[w], at[w], q)
                          /\ at' = [at EXCEPT ![w] = q]
    BY <1>4 DEF ShortWrite
  <2>2. /\ at[w] \in {"start", "text", "char"} /\ event[w] \in Events
        /\ MaxShort # 0 /\ shorts' \in Nat /\ UNCHANGED <<rows, event, faults>>
    BY <1>4, BoundsAssumption DEF ShortWrite
  <2>3. \A v \in Writers : v = w
    BY <2>2 DEF OwnRows
  <2>4. tail' = [of |-> event[w], upto |-> q, clean |-> TRUE]
    <3>1. CASE at[w] = "start"
      <4>1. tail = NoEvent
        BY <2>3, <3>1 DEF Cuts
      <4>2. QED
        BY <2>1, <2>2, <3>1, <4>1, JoinIs
    <3>2. CASE at[w] # "start"
      <4>1. OwnPart(w) /\ at[w] # "whole"
        BY <2>2, <3>2 DEF Cuts
      <4>2. QED
        BY <2>1, <2>2, <4>1, JoinIs
    <3>3. QED
      BY <3>1, <3>2
  <2>5. OwnPart(w)' /\ at'[w] \in Cuts
    BY <2>1, <2>2, <2>4 DEF OwnPart
  <2>6. QED
    BY <2>2, <2>3, <2>5
<1>5. ASSUME NEW w \in Writers, WriteFails(w) PROVE OwnRowInv'
  <2>1. MaxShort = 0 /\ faults' \in Nat
    BY <1>5, BoundsAssumption DEF WriteFails, OwnRows
  <2>2. tail = NoEvent /\ \A v \in Writers : at[v] \notin Cuts
    BY <2>1
  <2>3. \A v \in Writers : at'[v] \notin Cuts
    BY <1>5, <2>2 DEF WriteFails, Return, Cuts
  <2>4. QED
    BY <1>5, <2>1, <2>2, <2>3 DEF WriteFails
<1>6. CASE UNCHANGED fileVars
  BY <1>6 DEF fileVars, OwnPart
<1>7. QED
  BY <1>1, <1>2, <1>3, <1>4, <1>5, <1>6 DEF LogNext, Record

(* Where os.write is never short, or one writer is alone in a process that *)
(* neither dies nor fails, nothing whose record returned is missing from   *)
(* what read_all returns (audit.py:200).  It may raise only while that     *)
(* writer stands inside a character of its line, and never where os.write  *)
(* is not short (audit.py:196).  torn_rows.cfg has neither.                *)
THEOREM NothingTorn ==
  ASSUME OwnRows
  PROVE  LogSpec => []( /\ NoSilentLoss
                        /\ Refuses => \E w \in Writers : at[w] = "char"
                        /\ MaxShort = 0 => NeverRefuses )
<1>1. LogInit => LogInv /\ OwnRowInv
  <2>1. LogInit => OwnRowInv
    BY DEF LogInit, OwnRowInv, Cuts
  <2>2. QED
    BY <2>1, LogStarts
<1>2. LogInv /\ [LogNext]_fileVars => LogInv'
  BY LogStep
<1>3. LogInv /\ OwnRowInv /\ [LogNext]_fileVars => OwnRowInv'
  BY OwnRowStep
<1>4. LogInv /\ OwnRowInv => /\ NoSilentLoss
                             /\ Refuses => \E w \in Writers : at[w] = "char"
                             /\ MaxShort = 0 => NeverRefuses
  <2> SUFFICES ASSUME LogInv, OwnRowInv
               PROVE  /\ NoSilentLoss
                      /\ Refuses => \E w \in Writers : at[w] = "char"
                      /\ MaxShort = 0 => NeverRefuses
    OBVIOUS
  <2>1. /\ ReadAll = recorded \/ \E e \in Events : ReadAll = Append(recorded, e)
        /\ Refuses => tail # NoEvent /\ Closed(tail) = Garbled
    BY SoundReads DEF OwnRowInv
  <2>2. recorded \in Seq(Events)
    BY DEF LogInv, LogTypes
  <2>3. \A k \in DOMAIN recorded : k \in 1..Len(ReadAll) /\ ReadAll[k] = recorded[k]
    BY <2>1, <2>2
  <2>4. ASSUME Refuses PROVE \E w \in Writers : at[w] = "char" /\ MaxShort # 0
    <3>1. PICK w \in Writers : at[w] \in Cuts
      BY <2>1, <2>4 DEF OwnRowInv
    <3>2. MaxShort # 0 /\ tail = [of |-> event[w], upto |-> at[w], clean |-> TRUE]
      BY <3>1 DEF OwnRowInv, OwnPart
    <3>3. event[w] \in Events /\ tail \in Part \cup {NoEvent, Garbled}
      BY <3>1 DEF LogInv, LogTypes, Cuts
    <3>4. Closed(tail) = IF at[w] = "whole" THEN event[w]
                         ELSE IF at[w] = "char" THEN Garbled ELSE Corrupt
      BY <3>1, <3>2, <3>3, ClosedIs
    <3>5. at[w] = "char"
      BY <2>1, <2>4, <3>3, <3>4, RowsAssumption
    <3>6. QED
      BY <3>2, <3>5
  <2>5. QED
    BY <2>3, <2>4 DEF NoSilentLoss, NeverRefuses, Contains
<1>5. QED
  BY <1>1, <1>2, <1>3, <1>4, PTL DEF LogSpec
=============================================================================
