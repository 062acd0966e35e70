---------------------------- MODULE StatutoryClock ----------------------------
(***************************************************************************)
(* One debtor's account under the statute: objections raised at the portal *)
(* (raise_dispute in app/server.py), orders and captures, and the demand   *)
(* letters drafted for the agent's escalations (draft_message_for_decision *)
(* in app/messages.py), day after day.                                     *)
(*                                                                         *)
(* Whoever drafts a letter (app/pipeline.py, the preview in app/server.py) *)
(* has decided on the ledger's rows and drafts from them, whatever the log *)
(* says was paid or objected to since; only the portal counts captures.    *)
(* Of the agent's decisions only escalations are here, its other letters   *)
(* demand nothing under the statute.  The ledger's rows all carry their    *)
(* delivery date, so the dates raise_dispute falls back on are left out,   *)
(* and so is the language of a letter.                                     *)
(***************************************************************************)
EXTENDS Envelope, Statute

CONSTANTS
    Invoices,   \* the debtor's invoices
    Ledgers,    \* what the ledger may hold of them
    Debtor,     \* Envelope's account, without the supplier's eligibility
    Suppliers,  \* who the supplier may be: registered, category, activity
    Days,       \* the days on which something happens
    Payments,   \* amounts a capture may bring
    Asks,       \* what the model may ask for
    GraceDays   \* days overdue up to which a letter cites no statute

ASSUME ClockAssumption ==
    /\ Days \subseteq Nat
    /\ Days # {}
    /\ Payments \subseteq Nat \ {0}
    /\ Asks \subseteq Int
    /\ GraceDays \in Nat

(* accepted is the recorded acceptance_date. *)
LedgerRow ==
    [amount : Nat, received : Nat, tds : Nat, days : Nat, delivery : Nat, accepted : Nat,
     written : BOOLEAN,
     state : {"OVERDUE", "DISPUTED", "PARTIALLY_PAID", "TDS_UNDERPAID", "PAID_OFF_RAIL"}]

(* Only a timely objection moves an acceptance, and its invoice is         *)
(* generated DISPUTED.                                                     *)
ASSUME LedgerAssumption ==
    /\ IsFiniteSet(Invoices)
    /\ Ledgers \subseteq [Invoices -> LedgerRow]
    /\ \A rows \in Ledgers, i \in Invoices :
         /\ Balance(rows[i]) >= 0
         /\ rows[i].accepted # rows[i].delivery => rows[i].state = "DISPUTED"

VARIABLES
    today,
    ledger,      \* the invoices as the ledger has them, never changed
    supplier,    \* the supplier's Udyam record
    status,      \* INVOICES[i]["status"]
    suspended,   \* INVOICES[i]["statutory_clock_suspended"]
    objected,    \* history: the first and the last day the debtor objected
    ordered,     \* whether an order is open for the invoice
    paid,        \* what captures brought
    contact,     \* the day of the last contact, and
    escalations, \* how many of them escalated
    letter       \* the last letter drafted for an escalation

agentVars == <<contact, escalations, letter>>
portalVars == <<status, suspended, objected, ordered, paid>>
facts == <<ledger, supplier>>
vars == <<today, facts, portalVars, agentVars>>

NoLetter == [statutory |-> FALSE, day |-> NoDate]

Init ==
    /\ today = Min(Days)
    /\ ledger \in Ledgers
    /\ supplier \in Suppliers
    /\ status = [i \in Invoices |->
                   IF ledger[i].state = "DISPUTED" THEN "DISPUTED" ELSE "OVERDUE"]
    /\ suspended = [i \in Invoices |-> FALSE]
    /\ objected = [i \in Invoices |-> [first |-> NoDate, last |-> NoDate]]
    /\ ordered = [i \in Invoices |-> FALSE]
    /\ paid = [i \in Invoices |-> 0]
    /\ contact = NoDate
    /\ escalations = 0
    /\ letter = NoLetter

(* What the portal has left open of the invoices. *)
Live == Project(ledger, paid)

Pass ==
    /\ \E day \in Days : day > today /\ today' = day
    /\ UNCHANGED <<facts, portalVars, agentVars>>

(* Any invoice that is not settled may be objected to, and again. *)
RaiseDispute(i) ==
    /\ status[i] # "PAID"
    /\ status' = [status EXCEPT ![i] = "DISPUTED"]
    /\ suspended' =
         [suspended EXCEPT ![i] = Acceptance(ledger[i].delivery, today, NoDate) = NoDate]
    /\ objected' = [objected EXCEPT ![i] =
         [first |-> IF @.first = NoDate THEN today ELSE @.first, last |-> today]]
    /\ UNCHANGED <<today, facts, ordered, paid, agentVars>>

OpenOrder(i) ==
    /\ status[i] \notin {"PAID", "DISPUTED"}
    /\ Balance(Live[i]) > 0
    /\ ordered' = [ordered EXCEPT ![i] = TRUE]
    /\ UNCHANGED <<today, facts, status, suspended, objected, paid, agentVars>>

(* suppress_on_settlement: an order once opened can be paid, whatever has  *)
(* happened since.  Several orders for one balance are Settlement's.       *)
Capture(i, amount) ==
    /\ ordered[i]
    /\ amount <= Balance(Live[i])
    /\ paid' = [paid EXCEPT ![i] = paid[i] + amount]
    /\ status' = [status EXCEPT ![i] =
                   IF amount = Balance(Live[i]) THEN "PAID" ELSE "PARTIALLY_PAID"]
    /\ UNCHANGED <<today, facts, suspended, objected, ordered, agentVars>>

-----------------------------------------------------------------------------
Account == [optedOut |-> Debtor.optedOut, contact |-> Debtor.contact,
            ttm |-> Debtor.ttm, eligible |-> Eligible(supplier)]

Past == [days |-> IF contact = NoDate THEN Never ELSE today - contact,
         escalations |-> escalations, promised |-> FALSE]

Collectibles(invs) == {i \in DOMAIN invs : Balance(invs[i]) > 0}

OldestOf(invs, S) == CHOOSE i \in S : \A j \in S : invs[j].days <= invs[i].days

(* Deviation: the largest invoice speaks for the account. *)
PrimaryLargest(invs) ==
    CHOOSE i \in DOMAIN invs : \A j \in DOMAIN invs : Balance(invs[j]) <= Balance(invs[i])

(* primary_invoice: the oldest one with something left to collect *)
Primary(invs) ==
    OldestOf(invs, IF Collectibles(invs) # {} THEN Collectibles(invs) ELSE DOMAIN invs)

(* The statutory due date the ledger records. *)
RecordedDue(i) == ledger[i].accepted + Window(ledger[i].written)

(* _statutory_due_date, computed anew: no objection ever reaches it. *)
StatutoryDue(i) == DueDate(ledger[i].delivery, ledger[i].written, NoDate, NoDate)

(* Deviation: the whole balance is priced from the oldest clock. *)
AccruedFromOldest(invs, day) ==
    LET due == Min({StatutoryDue(i) : i \in Collectibles(invs) \cup {Primary(invs)}})
    IN  Interest(Collectible(invs), due, day)

(* _accrued_section_16_interest: each balance from its own clock *)
Accrued(invs, day) ==
    SumFunction([i \in Collectibles(invs) |->
                   Interest(Balance(invs[i]), StatutoryDue(i), day)])

(* The letter for an ESCALATE: under the statute, or refused it. *)
Letter(invs, ask) ==
    LET primary == Primary(invs)
        statutory == /\ AtRisk(supplier, Balance(invs[primary]))
                     /\ invs[primary].days > GraceDays
    IN  [day       |-> today,
         statutory |-> statutory,
         ask       |-> ask,
         interest  |-> IF statutory THEN Accrued(invs, today) ELSE 0]

(* The model answers ESCALATE, the envelope lets it stand, the decision is *)
(* logged and its letter drafted, all from the ledger's rows.              *)
Escalate(ask) ==
    LET permitted == Permitted(Account, ledger, Past)
        answer == [strategy |-> "ESCALATE", channel |-> "email", ask |-> ask,
                   deadline |-> "none", review |-> FALSE]
        decision == Decision(answer, permitted, Collectible(ledger))
    IN  /\ decision.strategy = "ESCALATE"
        /\ letter' = Letter(ledger, decision.ask)
        /\ contact' = today
        /\ escalations' = escalations + 1
        /\ UNCHANGED <<today, facts, portalVars>>

Next ==
    \/ Pass
    \/ \E i \in Invoices : RaiseDispute(i) \/ OpenOrder(i)
    \/ \E i \in Invoices, amount \in Payments : Capture(i, amount)
    \/ \E ask \in Asks : Escalate(ask)

Spec == Init /\ [][Next]_vars

-----------------------------------------------------------------------------
(* Every variable has a value the code can give it, and nobody has paid    *)
(* more than an invoice had open.                                          *)
TypeOK ==
    /\ today \in Days
    /\ ledger \in Ledgers
    /\ supplier \in Suppliers
    /\ status \in [Invoices -> {"OVERDUE", "DISPUTED", "PARTIALLY_PAID", "PAID"}]
    /\ suspended \in [Invoices -> BOOLEAN]
    /\ ordered \in [Invoices -> BOOLEAN]
    /\ escalations \in 0..MaxEscalations
    /\ contact \in Days \cup {NoDate}
    /\ \A i \in Invoices : paid[i] >= 0 /\ Balance(Live[i]) >= 0

(* A letter demands what the ledger bills: the ask lies in the band of its *)
(* balance, and the interest is what each invoice accrued day by day from  *)
(* the due date the ledger recorded ("One invoice's clock must not price   *)
(* another's balance", messages.py:71).  The letter computes that date     *)
(* anew, from the delivery alone (messages.py:50), while a timely          *)
(* objection has moved the recorded one (ledger.py:385).                   *)
DemandIsBilled ==
    letter # NoLetter =>
        LET ByDay(i) == InterestByDay(Balance(ledger[i]), RecordedDue(i), letter.day)
        IN  /\ letter.ask <= Collectible(ledger)
            /\ letter.ask * 10000 >= Collectible(ledger) * (10000 - ConcessionBps)
            /\ letter.statutory =>
                 letter.interest = SumFunction([i \in Invoices |-> ByDay(i)])

(* Two stages judge the supplier apart, the envelope before the decision   *)
(* and the draft after it, on different invoices; they agree: an           *)
(* escalation is refused the statute only for an account all of whose open *)
(* invoices are young.                                                     *)
StagesAgree ==
    letter # NoLetter =>
        (letter.statutory <=> \E i \in Collectibles(ledger) : ledger[i].days > GraceDays)

(* The clock of an invoice first objected to when it was too late never    *)
(* stops, whatever the debtor does next ("deemed acceptance on delivery    *)
(* date stands", disputes.py:276), and one last objected to in time does   *)
(* stand still, whoever paid what since.                                   *)
SuspensionIsEarned ==
    \A i \in Invoices : objected[i].first # NoDate =>
        LET After(day) == day - ledger[i].delivery
        IN  /\ After(objected[i].first) > ObjectionWindow => ~suspended[i]
            /\ After(objected[i].last) <= ObjectionWindow => suspended[i]

(* "Active unresolved dispute: acceptance has not occurred" (disputes.py): *)
(* a clock an objection stopped runs on only when that one is resolved.    *)
ClockStaysStopped == [][\A i \in Invoices : suspended[i] => suspended'[i]]_vars

(* "Above the collectible balance is a demand for money already paid"      *)
(* (strategist.py:443): a letter asks for no more than is open that day.   *)
DemandIsOwed == [][letter' # letter => letter'.ask <= Collectible(Live)]_vars

(* "Statutory clock has not started" (disputes.py:260): what is demanded   *)
(* accrued on invoices whose clock runs.                                   *)
PricesRunningClocks ==
    [][ letter' # letter =>
          letter'.interest <=
            SumFunction([i \in {j \in Invoices : ~suspended[j]} |->
                           Interest(Balance(ledger[i]), StatutoryDue(i), today)]) ]_vars

(* "Invoice outstanding beyond the MSMED statutory period" (statute.py): a *)
(* notice says so of an invoice whose period is over.                      *)
BeyondThePeriod ==
    [][ letter' # letter /\ letter'.statutory => today > StatutoryDue(Primary(ledger)) ]_vars
=============================================================================
