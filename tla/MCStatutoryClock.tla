---------------------------- MODULE MCStatutoryClock ----------------------------
(* Two invoices of one debtor for StatutoryClock: an old one under a       *)
(* written agreement and a recent one under none; day 100 is the ledger's  *)
(* own date.  The suppliers fail one gate each, and one fails none.        *)
EXTENDS StatutoryClock, TLC

CONSTANTS old, recent

MCInvoices == {old, recent}

Row(amount, received, state, days, delivery, accepted, written) ==
    [amount |-> amount, received |-> received, tds |-> 0, state |-> state,
     days |-> days, delivery |-> delivery, accepted |-> accepted, written |-> written]

Recent == Row(40, 0, "OVERDUE", 10, 87, 87, FALSE)

(* Both owe; the old one was paid off the rail; or objected to in time,    *)
(* and accepted when that was resolved.                                    *)
SomeLedgers ==
    { (old :> Row(20, 0, "OVERDUE", 20, 64, 64, TRUE)) @@ (recent :> Recent),
      (old :> Row(20, 20, "PAID_OFF_RAIL", 20, 64, 64, TRUE)) @@ (recent :> Recent),
      (old :> Row(20, 0, "DISPUTED", 20, 64, 84, TRUE)) @@ (recent :> Recent) }

OneDebtor == [optedOut |-> FALSE, contact |-> TRUE, ttm |-> 300]

Supplier(registered, category, activity) ==
    [registered |-> registered, category |-> category, activity |-> activity]

SomeSuppliers ==
    { Supplier(TRUE, "small", "manufacturing"), Supplier(TRUE, "micro", "trading"),
      Supplier(TRUE, "medium", "services"), Supplier(FALSE, "micro", "services") }

(* The last day of an objection and the first too late, a day in the first *)
(* month of interest, and the days the first and the second rest fall due. *)
SomeDays == { 102, 103, 125, 132, 162 }
=============================================================================
