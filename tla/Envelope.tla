------------------------------- MODULE Envelope -------------------------------
(***************************************************************************)
(* Stage 1 of a decision (app/envelope.py) and what the strategist does    *)
(* with the model's answer (decide_for_debtor in app/strategist.py), as    *)
(* operators of what they read: the debtor's row, its invoices and the     *)
(* history folded from the audit log.                                      *)
(*                                                                         *)
(* An account is a record of the debtor's and its merchant's facts         *)
(*   [optedOut, contact, eligible, ttm, invoices]                          *)
(* where contact says whether an address is known and invoices maps each   *)
(* invoice to [amount, received, tds, state, days].  A history is          *)
(*   [days, escalations, promised]                                         *)
(* with days Never for a debtor nobody contacted, an answer of the model   *)
(*   [strategy, channel, ask, deadline, review]                            *)
(* with ask 0 for none, deadline "none", "past" or "ahead".                *)
(***************************************************************************)
EXTENDS Integers, FiniteSetsExt

CONSTANTS
    Cooldown,          \* cooldown_days
    MaxEscalations,    \* max_escalations
    EscalationAge,     \* escalation_age_days
    NegotiationFloor,  \* negotiation_floor_paise
    VipPercent,        \* vip_exposure_ratio, in percent
    ConcessionBps      \* max_concession_pct, in basis points

ASSUME EnvelopeAssumption ==
    /\ Cooldown \in Nat
    /\ MaxEscalations \in Nat
    /\ EscalationAge \in Nat \ {0}
    /\ NegotiationFloor \in Nat
    /\ VipPercent \in 0..100
    /\ ConcessionBps \in 0..10000

Strategies == {"WAIT", "REQUEST_PAYMENT", "OBTAIN_PROMISE", "NEGOTIATE_PARTIAL",
               "RESOLVE_DISPUTE", "RECONCILE", "ESCALATE", "HUMAN_HANDOFF"}

AsksForMoney == {"REQUEST_PAYMENT", "OBTAIN_PROMISE", "NEGOTIATE_PARTIAL", "ESCALATE"}

(* Deviation: a handoff may carry a channel. *)
NoContactButWait == {"WAIT"}

NoContact == {"WAIT", "HUMAN_HANDOFF"}

(* The actions that are REVIEW_REQUIRED whenever they are permitted. *)
HighStakes == {"ESCALATE", "HUMAN_HANDOFF"}

Never == -1

(* A decision, an answer of the model's that validates as one among them. *)
DecisionRow ==
    [strategy : Strategies, channel : {"none", "email", "portal"}, ask : Int,
     deadline : {"none", "past", "ahead"}, review : BOOLEAN]

-----------------------------------------------------------------------------
(* balance_paise *)
Balance(inv) == inv.amount - inv.received - inv.tds

Collectible(invs) == SumFunction([i \in DOMAIN invs |-> Balance(invs[i])])

SomeIs(invs, state) == \E i \in DOMAIN invs : invs[i].state = state

(* Only an invoice with something left to collect ages the account. *)
Aged(invs) == \E i \in DOMAIN invs : Balance(invs[i]) > 0 /\ invs[i].days >= EscalationAge

(* Rule 6: the exposure is small next to the account's value, or unknown. *)
Protected(account, invs) ==
    /\ ~Aged(invs)
    /\ Collectible(invs) > 0
    /\ account.ttm <= 0 \/ Collectible(invs) * 100 < VipPercent * account.ttm

(* Deviation: the cooldown ends a day early. *)
CooledEarly(past) == past.days # Never /\ past.days < Cooldown - 1

(* Rule 8 *)
Cooled(past) == past.days # Never /\ past.days < Cooldown

(* Deviation: the ceiling is looked at after it is passed. *)
AtCeilingLate(past) == past.escalations > MaxEscalations

(* Rule 9 *)
AtCeiling(past) == past.escalations >= MaxEscalations

(* Deviation: an open dispute forbids only the two sharpest asks. *)
DisputedAsksSharpest == {"REQUEST_PAYMENT", "ESCALATE"}

(* Rule 2 *)
DisputedAsks == AsksForMoney

(* Every rule's exclusions; opting out excludes all but WAIT. *)
Excluded(account, invs, past) ==
    LET Forbid(ground, S) == IF ground THEN S ELSE {}
    IN  UNION {
          Forbid(account.optedOut, Strategies \ {"WAIT"}),
          Forbid(SomeIs(invs, "DISPUTED"), DisputedAsks),
          Forbid(Collectible(invs) <= 0, AsksForMoney),
          Forbid(~account.eligible, {"ESCALATE"}),
          Forbid(~SomeIs(invs, "TDS_UNDERPAID") /\ ~SomeIs(invs, "PAID_OFF_RAIL"),
                 {"RECONCILE"}),
          Forbid(~SomeIs(invs, "DISPUTED"), {"RESOLVE_DISPUTE"}),
          Forbid(Protected(account, invs), {"ESCALATE"}),
          Forbid(Collectible(invs) < NegotiationFloor /\ ~SomeIs(invs, "PARTIALLY_PAID"),
                 {"NEGOTIATE_PARTIAL"}),
          Forbid(Cooled(past), AsksForMoney),
          Forbid(AtCeiling(past), {"ESCALATE"}),
          Forbid(past.promised, AsksForMoney) }

Permitted(account, invs, past) == Strategies \ Excluded(account, invs, past)

-----------------------------------------------------------------------------
(* live_invoice_state: what the log's settlements leave of the ledger.  A  *)
(* capture replaces the state, whatever it was.                            *)
Project(invs, paid) ==
    LET Credited(i) == [invs[i] EXCEPT !.received = invs[i].received + paid[i]]
    IN  [i \in DOMAIN invs |->
          IF paid[i] = 0 THEN invs[i]
          ELSE [Credited(i) EXCEPT !.state =
                 IF Balance(Credited(i)) <= 0 THEN "PAID" ELSE "PARTIALLY_PAID"]]

-----------------------------------------------------------------------------
(* min_ask_paise of a collectible balance *)
MinAsk(owed) == owed - (owed * ConcessionBps) \div 10000

(* _safe_fallback *)
Fallback(permitted) == IF "HUMAN_HANDOFF" \in permitted THEN "HUMAN_HANDOFF" ELSE "WAIT"

(* Deviation: an ask above the balance is let through. *)
ClampBelowOnly(ask, owed) == IF ask < MinAsk(owed) THEN MinAsk(owed) ELSE ask

Clamp(ask, owed) ==
    IF ask > owed THEN owed ELSE IF ask < MinAsk(owed) THEN MinAsk(owed) ELSE ask

(* What follows corrects an answer one check at a time, in the code's      *)
(* order; a check that changes a field asks for review on its own account. *)

(* A prohibited strategy becomes the safe fallback. *)
Intercept(d, permitted) ==
    IF d.strategy \in permitted THEN d
    ELSE [d EXCEPT !.strategy = Fallback(permitted), !.review = TRUE]

(* Deviation: moving an ask into the band is not put before a person. *)
BoundAskSilently(d, owed) ==
    IF d.strategy \in AsksForMoney THEN [d EXCEPT !.ask = Clamp(d.ask, owed)]
    ELSE IF d.ask = 0 THEN d
    ELSE [d EXCEPT !.ask = 0, !.review = TRUE]

(* A money ask is moved into the pre-authorised band; a strategy that asks *)
(* for no money loses the amount riding along.                             *)
BoundAsk(d, owed) ==
    IF d.strategy \in AsksForMoney
    THEN IF Clamp(d.ask, owed) = d.ask THEN d
         ELSE [d EXCEPT !.ask = Clamp(d.ask, owed), !.review = TRUE]
    ELSE IF d.ask = 0 THEN d
    ELSE [d EXCEPT !.ask = 0, !.review = TRUE]

(* A strategy that reaches nobody carries neither channel nor deadline. *)
DropDelivery(d) ==
    IF d.strategy \in NoContact /\ (d.channel # "none" \/ d.deadline # "none")
    THEN [d EXCEPT !.channel = "none", !.deadline = "none", !.review = TRUE]
    ELSE d

(* A deadline already past is dropped. *)
DropPastDeadline(d) ==
    IF d.deadline = "past" THEN [d EXCEPT !.deadline = "none", !.review = TRUE] ELSE d

(* The class of the final strategy; an earlier demand for review stays. *)
ClassReview(d) == [d EXCEPT !.review = d.review \/ d.strategy \in HighStakes]

(* decide_for_debtor from a readable answer to the logged decision *)
Decision(answer, permitted, owed) ==
    ClassReview(DropPastDeadline(DropDelivery(
        BoundAsk(Intercept(answer, permitted), owed))))

(* The model gave no answer, or one nobody can read. *)
NoAnswer(permitted) ==
    [strategy |-> Fallback(permitted), channel |-> "none", ask |-> 0,
     deadline |-> "none", review |-> TRUE]

(* The fast path of a debtor who opted out; no model is asked. *)
Suppressed ==
    [strategy |-> "WAIT", channel |-> "none", ask |-> 0, deadline |-> "none",
     review |-> FALSE]
=============================================================================
