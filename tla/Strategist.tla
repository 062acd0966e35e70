------------------------------ MODULE Strategist ------------------------------
(***************************************************************************)
(* The decision loop for ONE debtor: batches of run_strategist_batch       *)
(* (app/strategist.py) driven by execute_recovery_pipeline, the audit log  *)
(* they read and write, the debtor's payments, promises and disputes, and  *)
(* the operators who approve what was queued.                              *)
(*                                                                         *)
(* A batch folds the log once (contact_history.build), asks the model for  *)
(* each debtor in turn, logs each decision, and only then queues or        *)
(* dispatches.  The log is kept as what its folds read off it: the day of  *)
(* the last contact, the escalations, the promise (PromiseFold) and what   *)
(* was paid on each invoice.                                               *)
(*                                                                         *)
(* Left out because ReviewQueue has it: the kill switch, several           *)
(* operators, dispatches that fail.                                        *)
(***************************************************************************)
EXTENDS PromiseFold, Envelope, Sequences

CONSTANTS
    Accounts,  \* the rows of the ledger a debtor may have
    Answers,   \* what the model may answer
    Payments,  \* amounts a capture may have
    Batches,   \* batches running at once
    Live,      \* run_strategist_batch(live_state=...)
    Quiet,     \* whether nothing happens between a fold and its decision
    Horizon,   \* MAX_PROMISE_HORIZON_DAYS
    MaxQueue,  \* bound on the review queue
    MaxDay     \* bound on the clock

ASSUME LoopAssumption ==
    /\ Live \in BOOLEAN
    /\ Quiet \in BOOLEAN
    /\ Horizon \in Nat
    /\ MaxQueue \in Nat
    /\ MaxDay \in Nat

(* What the ledger holds, a validated answer and a capture look like. *)
ASSUME DataAssumption ==
    /\ IsFiniteSet(Invoices)
    /\ \A row \in Accounts : row.invoices \in
         [Invoices -> [amount : Nat, received : Nat, tds : Nat, state : STRING, days : Int]]
    /\ Answers \subseteq DecisionRow
    /\ Payments \subseteq Nat \ {0}

VARIABLES
    account,      \* the debtor's row and invoices in the ledger, never changed
    paid,         \* settlement events: what was paid on each invoice
    objected,     \* whether dispute.raised was logged
    last,         \* the day of the last decision.made with a channel
    escalations,  \* and how many of those were ESCALATE
    pc,           \* each batch: where it is with this debtor
    folded,       \* what it folded: the history, and the invoices it decides on
    made,         \* its decision
    queue,        \* decisions waiting for an operator
    mail          \* history: the last message that left, its day, and
                  \* whether it asked for money

logVars == <<paid, objected, last, escalations>>
batchVars == <<pc, folded, made>>
vars == <<today, foldVars, account, logVars, batchVars, queue, mail>>

Nothing == [strategy |-> "none"]

(* Deviation: a promise that falls due today is taken for broken. *)
HistoryDueTodayBroken ==
    [days        |-> IF last = NoDate THEN Never ELSE today - last,
     escalations |-> escalations,
     promised    |-> due > today]

(* as_of is today: the world has moved past the ledger's date. *)
History ==
    [days        |-> IF last = NoDate THEN Never ELSE today - last,
     escalations |-> escalations,
     promised    |-> FoldRunning]

Invs == IF Live THEN Project(account.invoices, paid) ELSE account.invoices

(* What the debtor owes by now, and on one invoice. *)
Owed == Collectible(Project(account.invoices, paid))

OwedOn(i) == Balance(account.invoices[i]) - paid[i]

Init ==
    /\ today = 0
    /\ NothingPromised
    /\ account \in Accounts
    /\ paid = [i \in Invoices |-> 0]
    /\ objected = FALSE
    /\ last = NoDate
    /\ escalations = 0
    /\ pc = [b \in Batches |-> "idle"]
    /\ folded = [b \in Batches |-> Nothing]
    /\ made = [b \in Batches |-> Nothing]
    /\ queue = <<>>
    /\ mail = [day |-> NoDate, asks |-> FALSE]

-----------------------------------------------------------------------------
Undisturbed == Quiet => \A b \in Batches : pc[b] # "folded"

Tick ==
    /\ today < MaxDay
    /\ Undisturbed
    /\ today' = today + 1
    /\ UNCHANGED <<foldVars, account, logVars, batchVars, queue, mail>>

(* A capture is credited: settlement.partial or settlement.confirmed.  Its *)
(* order was capped at the balance of the day it was made, not of today:   *)
(* of two open orders the second may overpay (create_order).               *)
Pay(i, amount) ==
    /\ Undisturbed
    /\ OwedOn(i) > 0
    /\ amount <= Balance(account.invoices[i])
    /\ paid' = [paid EXCEPT ![i] = paid[i] + amount]
    /\ FoldSettlement(i)
    /\ UNCHANGED <<today, account, objected, last, escalations, batchVars, queue, mail>>

(* promise.made *)
Promise(i, d) ==
    /\ Undisturbed
    /\ OwedOn(i) > 0
    /\ FoldPromise(i, d)
    /\ UNCHANGED <<today, account, logVars, batchVars, queue, mail>>

(* dispute.raised: no fold reads it. *)
Object(i) ==
    /\ Undisturbed
    /\ OwedOn(i) > 0
    /\ objected' = TRUE
    /\ UNCHANGED <<today, foldVars, account, paid, last, escalations, batchVars, queue, mail>>

-----------------------------------------------------------------------------
(* run_strategist_batch reads the log, once for all its debtors. *)
Fold(b) ==
    /\ pc[b] = "idle"
    /\ pc' = [pc EXCEPT ![b] = "folded"]
    /\ folded' = [folded EXCEPT ![b] = [past |-> History, invs |-> Invs]]
    /\ UNCHANGED <<today, foldVars, account, logVars, made, queue, mail>>

IsContact(d) == d.channel # "none"

(* _record_decision: decision.made is logged today. *)
LogDecision(d) ==
    /\ last' = IF IsContact(d) THEN today ELSE last
    /\ escalations' =
         IF IsContact(d) /\ d.strategy = "ESCALATE" THEN escalations + 1 ELSE escalations

(* decide_for_debtor on what the batch folded *)
DecideOn(b, d, own) ==
    /\ pc' = [pc EXCEPT ![b] = "decided"]
    /\ made' = [made EXCEPT ![b] =
                 [strategy |-> d.strategy, channel |-> d.channel, ask |-> d.ask,
                  review |-> d.review, own |-> own]]
    /\ folded' = [folded EXCEPT ![b] = Nothing]
    /\ LogDecision(d)
    /\ UNCHANGED <<today, foldVars, account, paid, objected, queue, mail>>

(* own: the decision is what the model answered, in every field. *)
Decide(b) ==
    /\ pc[b] = "folded"
    /\ LET permitted == Permitted(account, folded[b].invs, folded[b].past)
           owed == Collectible(folded[b].invs)
       IN  IF account.optedOut
           THEN DecideOn(b, Suppressed, FALSE)
           ELSE \/ DecideOn(b, NoAnswer(permitted), FALSE)
                \/ \E answer \in Answers :
                     LET d == Decision(answer, permitted, owed)
                     IN  DecideOn(b, d, d = [answer EXCEPT !.review = d.review])

-----------------------------------------------------------------------------
Finish(b) ==
    /\ pc' = [pc EXCEPT ![b] = "idle"]
    /\ made' = [made EXCEPT ![b] = Nothing]
    /\ UNCHANGED <<today, foldVars, account, logVars, folded>>

Send(d) ==
    mail' = IF IsContact(d) THEN [day |-> today, asks |-> d.asks] ELSE mail

(* Whether the pipeline puts the decision before a person. *)
ToReview(d) == d.review \/ (d.channel = "email" /\ ~account.contact)

Message(b) ==
    [asks |-> made[b].strategy \in AsksForMoney, channel |-> made[b].channel]

(* The debtor opted out, or the decision is to contact nobody. *)
Skip(b) ==
    /\ pc[b] = "decided"
    /\ account.optedOut \/ (~ToReview(made[b]) /\ ~IsContact(made[b]))
    /\ Finish(b)
    /\ UNCHANGED <<queue, mail>>

QueueForReview(b) ==
    /\ pc[b] = "decided"
    /\ ~account.optedOut
    /\ ToReview(made[b])
    /\ Len(queue) < MaxQueue
    /\ queue' = Append(queue, Message(b))
    /\ Finish(b)
    /\ UNCHANGED mail

Dispatch(b) ==
    /\ pc[b] = "decided"
    /\ ~account.optedOut
    /\ ~ToReview(made[b])
    /\ IsContact(made[b])
    /\ Send(Message(b))
    /\ Finish(b)
    /\ UNCHANGED queue

(* approve_review_item; without an address the dispatch fails and the item *)
(* goes back to the head. *)
Approve ==
    /\ queue # <<>>
    /\ Head(queue).channel = "email" => account.contact
    /\ Send(Head(queue))
    /\ queue' = Tail(queue)
    /\ UNCHANGED <<today, foldVars, account, logVars, batchVars>>

Reject ==
    /\ queue # <<>>
    /\ queue' = Tail(queue)
    /\ UNCHANGED <<today, foldVars, account, logVars, batchVars, mail>>

Batch(b) == Fold(b) \/ Decide(b) \/ Skip(b) \/ QueueForReview(b) \/ Dispatch(b)

Debtor(i) ==
    \/ \E amount \in Payments : Pay(i, amount)
    \/ \E d \in today..(today + Horizon) : Promise(i, d)
    \/ Object(i)

Next ==
    \/ Tick
    \/ \E i \in Invoices : Debtor(i)
    \/ \E b \in Batches : Batch(b)
    \/ Approve
    \/ Reject

Spec == Init /\ [][Next]_vars

-----------------------------------------------------------------------------
(* Every variable has a value the code can give it; a decision to reach    *)
(* nobody carries no channel.                                              *)
TypeOK ==
    /\ today \in 0..MaxDay
    /\ due \in NoDate..(MaxDay + Horizon)
    /\ dueOn \in Invoices \cup {None}
    /\ opened \in 0..(MaxWindows + 1)
    /\ account \in Accounts
    /\ paid \in [Invoices -> Nat]
    /\ objected \in BOOLEAN
    /\ last \in NoDate..MaxDay
    /\ escalations \in Nat
    /\ pc \in [Batches -> {"idle", "folded", "decided"}]
    /\ \A b \in Batches : pc[b] = "decided" =>
        /\ made[b].strategy \in Strategies
        /\ made[b].channel \in {"none", "email", "portal"}
        /\ made[b].review \in BOOLEAN
        /\ made[b].strategy \in {"WAIT", "HUMAN_HANDOFF"} => made[b].channel = "none"
    /\ Len(queue) <= MaxQueue
    /\ mail.day \in NoDate..MaxDay

(* The step in which batch b decides to ask for money. *)
AsksNow(b) ==
    /\ pc[b] = "folded" /\ pc'[b] = "decided"
    /\ made'[b].strategy \in AsksForMoney

(* The ask is inside the pre-authorised band of what the debtor owes, and  *)
(* something is owed (the money rules of envelope.py and the clamp).       *)
AskIsOwed ==
    [][\A b \in Batches : AsksNow(b) =>
        made'[b].ask > 0 /\ made'[b].ask \in MinAsk(Owed)..Owed]_vars

(* promise.made "Halts Chasing until Due Date" (ARCHITECTURE.md:98): no    *)
(* decision asks for money while a folded promise is running.              *)
PromiseHalts == [][\A b \in Batches : AsksNow(b) => ~FoldRunning]_vars

(* A money ask is decided only when the last contact is Cooldown days old, *)
(* however long the batch took from its fold to the decision               *)
(* (envelope.py, rule 8).                                                  *)
CooldownKept ==
    [][\A b \in Batches :
        AsksNow(b) => last = NoDate \/ today - last >= Cooldown]_vars

(* The agent escalates a debtor at most MaxEscalations times; no payment   *)
(* refills that (contact_history.py, settlement branch).                   *)
EscalationCeiling == escalations <= MaxEscalations

(* A decision that goes out without a person is, field by field, what the  *)
(* model answered: every correction of the envelope asks for review.       *)
UnattendedIsOwn ==
    \A b \in Batches :
        pc[b] = "decided" /\ ~made[b].review /\ ~account.optedOut => made[b].own

(* Nobody is asked for money while an invoice the ledger shows as disputed *)
(* is open (envelope.py, rule 2).                                          *)
DisputedNotAsked ==
    [][\A b \in Batches : AsksNow(b) =>
        \A i \in Invoices : account.invoices[i].state = "DISPUTED" => OwedOn(i) <= 0]_vars

(* dispute.raised "Halts Escalation, Routes to Human" (ARCHITECTURE.md:102). *)
DisputeHalts ==
    [][\A b \in Batches : AsksNow(b) /\ made'[b].strategy = "ESCALATE" => ~objected]_vars

(* settlement.confirmed suppresses "queued_followups" and the              *)
(* "escalation_ladder" (server.py:440): no message asks for money once     *)
(* everything is paid.                                                     *)
PaidNotChased ==
    [][mail' # mail /\ mail'.asks => Owed > 0]_vars

(* "Enforces a mandatory 7-day cooldown between outreach touches"          *)
(* (ARCHITECTURE.md:136): money messages on two days are Cooldown apart.   *)
MessagesApart ==
    [][mail'.day # mail.day /\ mail'.asks =>
        mail.day = NoDate \/ mail'.day - mail.day >= Cooldown]_vars
=============================================================================
