----------------------------- MODULE PromiseFold -----------------------------
(***************************************************************************)
(* The promises of ONE debtor as contact_history.build reads them off the  *)
(* audit log.  build is one pass over the log in order, so the state it    *)
(* has after the events logged so far is kept here instead of the log.     *)
(***************************************************************************)
EXTENDS Integers

CONSTANTS
    Invoices,    \* the debtor's invoices
    MaxWindows,  \* MAX_PROMISE_WINDOWS_WITHOUT_SETTLEMENT
    None         \* no invoice

ASSUME FoldAssumption ==
    /\ MaxWindows \in Nat
    /\ None \notin Invoices

VARIABLES
    today,   \* business_today(), the day events are stamped with
    due,     \* the folded promise: its date, NoDate when there is none,
    dueOn,   \* and the invoice it was made on
    opened   \* windows folded since the last settlement

foldVars == <<due, dueOn, opened>>

NoDate == -1

NothingPromised ==
    /\ due = NoDate
    /\ dueOn = None
    /\ opened = 0

(* The fold's view of the debtor: an open promise, not yet past its date. *)
FoldRunning == due >= today

(* Days the folded promise still holds recovery off, today included. *)
DaysLeft == IF FoldRunning THEN due - today + 1 ELSE 0

(* Deviation: windows are counted and never run out. *)
OverBudgetNever(n) == FALSE

OverBudget(n) == n > MaxWindows

Extends(d) == d > due

(* Counted also when it is over the budget; one above it counts for all. *)
Counted == IF opened > MaxWindows THEN opened ELSE opened + 1

(* promise.made in contact_history.build *)
FoldPromise(i, d) ==
    IF FoldRunning
    THEN /\ UNCHANGED opened
         /\ IF Extends(d) THEN UNCHANGED <<due, dueOn>> ELSE due' = d /\ dueOn' = i
    ELSE /\ opened' = Counted
         /\ IF OverBudget(Counted)
            THEN UNCHANGED <<due, dueOn>>
            ELSE due' = d /\ dueOn' = i

(* Deviation: paying one invoice closes the promise on any other. *)
ClosedByAny(i) == due # NoDate

ClosedBy(i) == due # NoDate /\ dueOn = i

(* settlement.partial and settlement.confirmed in contact_history.build *)
FoldSettlement(i) ==
    /\ IF ClosedBy(i) THEN due' = NoDate /\ dueOn' = None ELSE UNCHANGED <<due, dueOn>>
    /\ opened' = 0
=============================================================================
