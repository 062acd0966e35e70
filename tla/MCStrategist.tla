---------------------------- MODULE MCStrategist ----------------------------
(* Instances of Strategist small enough for TLC. *)
EXTENDS Strategist

CONSTANTS a, b

Row(amount, received, tds, state, days) ==
    [amount |-> amount, received |-> received, tds |-> tds, state |-> state, days |-> days]

AccountOf(optedOut, contact, eligible, ttm, first, second) ==
    [optedOut |-> optedOut, contact |-> contact, eligible |-> eligible, ttm |-> ttm,
     invoices |-> [i \in Invoices |-> IF i = a THEN first ELSE second]]

Overdue == Row(20, 0, 0, "OVERDUE", 50)
Recent  == Row(20, 0, 0, "OVERDUE", 5)
Settled == Row(20, 0, 20, "TDS_UNDERPAID", 50)
OffRail == Row(20, 20, 0, "PAID_OFF_RAIL", 50)
Objected == Row(20, 0, 0, "DISPUTED", 50)
Partly  == Row(20, 5, 0, "PARTIALLY_PAID", 5)

(* Plain, withheld tax and no address known, disputed, a protected   *)
(* account, a trader's, one settled off the rail, and one that opted out.  *)
SevenAccounts == {
    AccountOf(FALSE, TRUE, TRUE, 100, Overdue, Recent),
    AccountOf(FALSE, FALSE, TRUE, 100, Settled, Recent),
    AccountOf(FALSE, TRUE, TRUE, 100, Objected, Partly),
    AccountOf(FALSE, TRUE, TRUE, 9000, Settled, Partly),
    AccountOf(FALSE, TRUE, FALSE, 100, Overdue, OffRail),
    AccountOf(FALSE, TRUE, TRUE, 0, OffRail, Settled),
    AccountOf(TRUE, TRUE, TRUE, 100, Overdue, Overdue) }

OnePlain == { AccountOf(FALSE, TRUE, TRUE, 100, Overdue, Recent) }

OneDisputed == { AccountOf(FALSE, TRUE, TRUE, 100, Objected, Overdue) }

Answer(s, c, n, d) ==
    [strategy |-> s, channel |-> c, ask |-> n, deadline |-> d, review |-> FALSE]

(* Every strategy by email with no ask, one below the floor and one above  *)
(* anything owed; without a channel; and with each kind of deadline.       *)
ManyAnswers ==
    { Answer(s, "email", n, "none") : s \in Strategies, n \in {0, 9, 41} }
    \cup { Answer(s, "none", 20, "none") : s \in Strategies }
    \cup { Answer(s, "portal", 20, d) : s \in Strategies, d \in {"past", "ahead"} }

(* Every strategy over email, with an ask in the band of both invoices. *)
PlainAnswers == { Answer(s, "email", IF s \in AsksForMoney THEN 39 ELSE 0, "none") :
                    s \in Strategies }
=============================================================================
