------------------------------ MODULE Benchmark ------------------------------
(***************************************************************************)
(* What the benchmark compares (run_experiment.py, app/baseline.py): the   *)
(* calendar policy, the scripted solver that stands in for the model, and  *)
(* the adjudication of eight cases, as operators of a ledger.              *)
(*                                                                         *)
(* An account is Envelope's record with the debtor's track record added:   *)
(* promises made, of which kept, and late, its average days late.  The     *)
(* script reads the prompt; every field it picks out of it is one of these *)
(* or comes from the envelope, so the prompt itself is left out.           *)
(* The strategies' tones, languages and reasons are left out.              *)
(***************************************************************************)
EXTENDS Envelope, FiniteSets, SequencesExt

NoHistory == [days |-> Never, escalations |-> 0, promised |-> FALSE]

(* The first rung of a ladder whose condition holds. *)
FirstRung(ladder) ==
    ladder[CHOOSE i \in DOMAIN ladder :
             ladder[i].when /\ \A j \in 1..(i - 1) : ~ladder[j].when].strategy

-----------------------------------------------------------------------------
(* invoice_outstanding_paise: blind to the tax withheld. *)
Outstanding(inv) == inv.amount - inv.received

Naive(invs) == SumFunction([i \in DOMAIN invs |-> Outstanding(invs[i])])

Oldest(invs) == Max({0} \cup {invs[i].days : i \in DOMAIN invs})

(* rung_for_days *)
RungForDays(days) ==
    FirstRung(<< [when |-> days <= 0,  strategy |-> "WAIT"],
                 [when |-> days <= 15, strategy |-> "REQUEST_PAYMENT"],
                 [when |-> TRUE,       strategy |-> "ESCALATE"] >>)

(* decide_baseline: the calendar and nothing else. *)
Baseline(invs) ==
    LET overdue == Oldest(invs) > 0
    IN  [strategy |-> RungForDays(Oldest(invs)),
         channel  |-> IF overdue THEN "email" ELSE "none",
         ask      |-> IF overdue THEN Naive(invs) ELSE 0]

-----------------------------------------------------------------------------
(* Deviation: three promises are a track record, and no lateness is needed. *)
ReliableOnTime(account) == account.made >= 3 /\ account.kept * 5 >= account.made * 4

(* _is_reliable_late_payer *)
Reliable(account) ==
    account.made >= 4 /\ account.late > 0 /\ account.kept * 5 >= account.made * 4

(* "preserve relationship" is among the envelope's grounds against ESCALATE. *)
Vip(account, invs) ==
    ~account.optedOut /\ account.ttm > 0 /\ Protected(account, invs)

(* Several open invoices in more than one state. *)
Mixed(invs) ==
    Cardinality(DOMAIN invs) >= 3 /\ Cardinality({invs[i].state : i \in DOMAIN invs}) >= 2

OnDispute(invs, permitted) ==
    << [when |-> SomeIs(invs, "DISPUTED") /\ "RESOLVE_DISPUTE" \in permitted,
        strategy |-> "RESOLVE_DISPUTE"],
       [when |-> SomeIs(invs, "DISPUTED") /\ "HUMAN_HANDOFF" \in permitted,
        strategy |-> "HUMAN_HANDOFF"] >>

OnPaidOtherwise(invs, permitted) ==
    << [when |-> /\ SomeIs(invs, "TDS_UNDERPAID") \/ SomeIs(invs, "PAID_OFF_RAIL")
                 /\ "RECONCILE" \in permitted,
        strategy |-> "RECONCILE"] >>

OnReliable(account, permitted) ==
    << [when |-> "WAIT" \in permitted /\ Reliable(account), strategy |-> "WAIT"] >>

OnTrader(account, permitted) ==
    << [when |-> ~account.eligible /\ "REQUEST_PAYMENT" \in permitted,
        strategy |-> "REQUEST_PAYMENT"] >>

OnVip(account, invs, permitted) ==
    << [when |-> Vip(account, invs) /\ "REQUEST_PAYMENT" \in permitted,
        strategy |-> "REQUEST_PAYMENT"] >>

OnMixed(invs, permitted) ==
    << [when |-> Mixed(invs) /\ "HUMAN_HANDOFF" \in permitted,
        strategy |-> "HUMAN_HANDOFF"] >>

Otherwise(permitted) ==
    << [when |-> "REQUEST_PAYMENT" \in permitted, strategy |-> "REQUEST_PAYMENT"],
       [when |-> "OBTAIN_PROMISE" \in permitted, strategy |-> "OBTAIN_PROMISE"],
       [when |-> "WAIT" \in permitted, strategy |-> "WAIT"],
       [when |-> TRUE, strategy |-> "HUMAN_HANDOFF"] >>

(* _deterministic_mock_llm *)
ScriptedAnswer(account, invs, permitted) ==
    LET s == FirstRung(   OnDispute(invs, permitted)
                       \o OnPaidOtherwise(invs, permitted)
                       \o OnReliable(account, permitted)
                       \o OnTrader(account, permitted)
                       \o OnVip(account, invs, permitted)
                       \o OnMixed(invs, permitted)
                       \o Otherwise(permitted))
    IN  [strategy |-> s,
         channel  |-> IF s \in NoContact THEN "none" ELSE "email",
         ask      |-> IF s \in AsksForMoney
                      THEN Clamp(Collectible(invs), Collectible(invs)) ELSE 0,
         deadline |-> "none",
         review   |-> s = "HUMAN_HANDOFF"]

-----------------------------------------------------------------------------
(* Both batches skip a debtor with no open invoice. *)
Evaluated(book) == {d \in DOMAIN book : DOMAIN book[d].invoices # {}}

(* run_baseline_batch *)
BaselineBatch(book) == [d \in Evaluated(book) |-> Baseline(book[d].invoices)]

(* calculate_portfolio_metrics *)
Portfolio(book) ==
    LET Total(Of(_)) == SumFunction([d \in DOMAIN book |-> Of(book[d].invoices)])
        Face(invs) == SumFunction([i \in DOMAIN invs |-> invs[i].amount])
    IN  [book        |-> Total(Face),
         naive       |-> Total(Naive),
         collectible |-> Total(Collectible),
         debtors     |-> Cardinality(DOMAIN book),
         invoices    |-> Total(LAMBDA invs : Cardinality(DOMAIN invs))]

(* calculate_comparative_metrics; the shares are these counts over the     *)
(* debtors evaluated, or over the collectible balance.                     *)
Metrics(agent, baseline) ==
    LET Count(decisions, Is(_)) == Cardinality({d \in DOMAIN decisions : Is(decisions[d])})
    IN  [evaluated  |-> Cardinality(DOMAIN agent),
         waits      |-> Count(agent, LAMBDA x : x.strategy = "WAIT"),
         reconciles |-> Count(agent, LAMBDA x : x.strategy = "RECONCILE"),
         prevented  |-> Cardinality({d \in DOMAIN agent \cap DOMAIN baseline :
                                       /\ baseline[d].strategy = "ESCALATE"
                                       /\ agent[d].strategy # "ESCALATE"}),
         touches    |-> Count(agent, LAMBDA x : x.channel # "none"),
         baselineTouches |-> Count(baseline, LAMBDA x : x.channel # "none")]

-----------------------------------------------------------------------------
(* _trader_ineligible_mechanism *)
Trader(account) == ~account.eligible

(* _opted_out_mechanism *)
OptedOut(account) == account.optedOut

(* _reliable_late_payer_mechanism *)
Restraint(account) == ~account.optedOut /\ Reliable(account)

(* What each case needs to be true of the debtor, beyond state and strategy. *)
Mechanism(case, account) ==
    /\ case = 4 => Trader(account)
    /\ case = 5 => Vip(account, account.invoices)
    /\ case = 6 => OptedOut(account)
    /\ case = 7 => Restraint(account)

(* _DEFAULT_ADJUDICATION_CASES *)
Cases == <<
    [state |-> "TDS_UNDERPAID",  expected |-> {"RECONCILE"}],
    [state |-> "PAID_OFF_RAIL",  expected |-> {"RECONCILE"}],
    [state |-> "DISPUTED",       expected |-> {"RESOLVE_DISPUTE", "HUMAN_HANDOFF"}],
    [state |-> "OVERDUE",        expected |-> {"REQUEST_PAYMENT", "OBTAIN_PROMISE"}],
    [state |-> "TDS_UNDERPAID",  expected |-> {"RECONCILE"}],
    [state |-> "OVERDUE",        expected |-> {"WAIT"}],
    [state |-> "OVERDUE",        expected |-> {"WAIT"}],
    [state |-> "PARTIALLY_PAID", expected |-> {"HUMAN_HANDOFF"}] >>

(* build_adjudication_matrix: whether the case's authored verdict is shown. *)
CaseApplies(case, account, agent, baseline) ==
    /\ SomeIs(account.invoices, Cases[case].state)
    /\ agent.strategy # baseline.strategy
    /\ agent.strategy \in Cases[case].expected
    /\ Mechanism(case, account)

(* The cases whose debtor earns the verdict. *)
Verdicts(book, caseDebtor, agent, baseline) ==
    {case \in DOMAIN Cases :
        LET d == caseDebtor[case]
        IN  /\ d \in DOMAIN agent
            /\ CaseApplies(case, book[d], agent[d], baseline[d])}
=============================================================================
