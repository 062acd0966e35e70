---------------------------- MODULE MCResultsPage ----------------------------
(* Three small books for ResultsPage that between them meet every rung of    *)
(* the scripted solver and earn each of the eight verdicts.                *)
EXTENDS ResultsPage

CONSTANTS plain, silent, traders, regular, last, first, other

Inv(amount, received, tds, state, days) ==
    [amount |-> amount, received |-> received, tds |-> tds, state |-> state, days |-> days]

Overdue  == Inv(20, 0, 0, "OVERDUE", 50)
Recent   == Inv(20, 0, 0, "OVERDUE", 10)
Withheld == Inv(20, 18, 2, "TDS_UNDERPAID", 50)
OffRail  == Inv(20, 20, 0, "PAID_OFF_RAIL", 50)
Disputed == Inv(20, 0, 0, "DISPUTED", 50)
Partly   == Inv(20, 10, 0, "PARTIALLY_PAID", 40)

Row(optedOut, eligible, ttm, made, kept, late, invoices) ==
    [optedOut |-> optedOut, contact |-> TRUE, eligible |-> eligible, ttm |-> ttm,
     made |-> made, kept |-> kept, late |-> late, invoices |-> invoices]

(* A protected account with tax withheld, one that opted out, a trader's,  *)
(* one in several states, and an ordinary one.                             *)
FirstBook ==
    (plain   :> Row(FALSE, TRUE, 9000, 4, 2, 8, <<Withheld, Recent>>)) @@
    (silent  :> Row(TRUE, TRUE, 100, 5, 5, 8, <<Overdue>>)) @@
    (traders :> Row(FALSE, FALSE, 100, 3, 1, 8, <<Overdue, Recent>>)) @@
    (regular :> Row(FALSE, TRUE, 100, 3, 3, 8, <<Overdue, Partly, Recent>>)) @@
    (last    :> Row(FALSE, TRUE, 100, 0, 0, 0, <<Overdue>>))

(* A transfer, an open dispute, a debtor who pays late but pays, and a     *)
(* protected account with nothing but a live balance.                      *)
SecondBook ==
    (plain   :> Row(FALSE, TRUE, 100, 0, 0, 0, <<OffRail, Recent>>)) @@
    (silent  :> Row(TRUE, TRUE, 100, 1, 0, 0, <<>>)) @@
    (traders :> Row(FALSE, FALSE, 100, 2, 2, 8, <<Disputed>>)) @@
    (regular :> Row(FALSE, TRUE, 100, 5, 4, 8, <<Overdue, Partly>>)) @@
    (last    :> Row(FALSE, TRUE, 9000, 0, 0, 0, <<Recent>>))

(* One debtor to ask a live model about, after one it is not asked about.  *)
ThirdBook ==
    (plain   :> Row(FALSE, TRUE, 100, 0, 0, 0, <<>>)) @@
    (silent  :> Row(TRUE, TRUE, 100, 5, 5, 8, <<Overdue>>)) @@
    (traders :> Row(FALSE, FALSE, 100, 5, 5, 3, <<>>)) @@
    (regular :> Row(FALSE, TRUE, 100, 3, 3, 8, <<Overdue, Partly>>)) @@
    (last    :> Row(FALSE, TRUE, 100, 0, 0, 0, <<>>))

ThreeBooks == << FirstBook, SecondBook, ThirdBook >>

LedgerOrder == << plain, silent, traders, regular, last >>

CaseDebtors == << plain, plain, traders, traders, plain, silent, regular, regular >>

RequestFor(key, live, operator) == [key |-> key, live |-> live, operator |-> operator]

PublishedKey == <<1, first>>

(* The published run, another date of it, another seed, and a live run;    *)
(* and somebody without the key who wants one.                             *)
SomeRequests ==
    { RequestFor(<<1, first>>, FALSE, FALSE), RequestFor(<<1, other>>, FALSE, TRUE),
      RequestFor(<<2, first>>, FALSE, TRUE), RequestFor(<<3, first>>, TRUE, TRUE),
      RequestFor(<<3, first>>, TRUE, FALSE) }

(* What a live model may say: nothing, and too much. *)
TwoAnswers ==
    { [strategy |-> "WAIT", channel |-> "none", ask |-> 0, deadline |-> "none",
       review |-> FALSE],
      [strategy |-> "REQUEST_PAYMENT", channel |-> "email", ask |-> 90,
       deadline |-> "none", review |-> FALSE] }

Lite == << "flash", "", "lite", "flash" >>
=============================================================================
