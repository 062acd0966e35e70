----------------------------- MODULE PromiseDoor -----------------------------
(***************************************************************************)
(* Promises to pay of ONE debtor, decided twice.                           *)
(*                                                                         *)
(* The door: record_promise (app/server.py) answers the debtor from the    *)
(* invoice dicts of the process.  A running promise may only be brought    *)
(* forward, and a debtor may open MaxWindows windows.                      *)
(*                                                                         *)
(* The fold: contact_history.build re-reads the audit log and applies the  *)
(* same two rules to the logged promise.made events, with a settlement     *)
(* closing the promise of its invoice and resetting the window count.      *)
(* While the folded promise is running the envelope permits no money ask.  *)
(* The fold is the module PromiseFold.                                     *)
(*                                                                         *)
(* The amount of a promise is left out: a promise over the balance is one  *)
(* of the refusals of Refuse.                                              *)
(***************************************************************************)
EXTENDS PromiseFold, FiniteSetsExt

CONSTANTS
    Threads,      \* record_promise requests in flight
    Horizon,      \* MAX_PROMISE_HORIZON_DAYS
    Overnight,    \* whether midnight may pass while a request is in flight
    MaxDay,       \* bound on the clock
    MaxRestarts   \* bound on restarts of a process without a database

ASSUME BoundsAssumption ==
    /\ Horizon \in Nat
    /\ Overnight \in BOOLEAN
    /\ MaxDay \in Nat
    /\ MaxRestarts \in Nat

VARIABLES
    status,    \* invoice["status"]
    promised,  \* invoice["promised_date"], NoDate when absent
    windows,   \* invoice["promise_windows"]
    pc, about, ask,  \* each request: where it is, its invoice and date
    held,      \* history: days under a running promise since the last settlement
    carried,   \* history: days the promise running at that settlement had left
    restarts

doorVars    == <<status, promised, windows>>
requestVars == <<pc, about, ask>>
historyVars == <<held, carried>>
vars == <<today, doorVars, foldVars, requestVars, historyVars, restarts>>

Statuses == {"OVERDUE", "PROMISED", "DISPUTED", "PARTIALLY_PAID", "PAID"}
PCs == {"idle", "check", "write", "log"}

Init ==
    /\ today = 0
    /\ status = [i \in Invoices |-> "OVERDUE"]
    /\ promised = [i \in Invoices |-> NoDate]
    /\ windows = [i \in Invoices |-> 0]
    /\ NothingPromised
    /\ pc = [t \in Threads |-> "idle"]
    /\ about = [t \in Threads |-> None]
    /\ ask = [t \in Threads |-> NoDate]
    /\ held = 0
    /\ carried = 0
    /\ restarts = 0

-----------------------------------------------------------------------------
(* The door's view of an invoice. *)
Running(i) == promised[i] >= today

(* promise_windows over all the debtor's invoices. *)
Spent == MapThenSumSet(LAMBDA i : windows[i], Invoices)

BringsForward(i, d) == d <= promised[i]

WindowsLeft == Spent < MaxWindows

(* _mutation_blocked *)
Blocked(i) == status[i] \in {"PAID", "DISPUTED"}

-----------------------------------------------------------------------------
(* Midnight in India: a day under a running promise has passed. *)
Tick ==
    /\ today < MaxDay
    /\ Overnight \/ \A t \in Threads : pc[t] = "idle"
    /\ today' = today + 1
    /\ held' = IF FoldRunning THEN held + 1 ELSE held
    /\ UNCHANGED <<doorVars, foldVars, requestVars, carried, restarts>>

(* POST /api/promise with a date PromiseRequest accepts. *)
Submit(t, i, d) ==
    /\ pc[t] = "idle"
    /\ d \in today..(today + Horizon)
    /\ pc' = [pc EXCEPT ![t] = "check"]
    /\ about' = [about EXCEPT ![t] = i]
    /\ ask' = [ask EXCEPT ![t] = d]
    /\ UNCHANGED <<today, doorVars, foldVars, historyVars, restarts>>

Ended(t) ==
    /\ pc' = [pc EXCEPT ![t] = "idle"]
    /\ about' = [about EXCEPT ![t] = None]
    /\ ask' = [ask EXCEPT ![t] = NoDate]

(* A 400: blocked, over the balance, an extension, or out of windows. *)
Refuse(t) ==
    /\ pc[t] = "check"
    /\ Ended(t)
    /\ UNCHANGED <<today, doorVars, foldVars, historyVars, restarts>>

(* record_promise's guards pass; a fresh window is counted at once. *)
Accept(t) ==
    /\ pc[t] = "check"
    /\ ~Blocked(about[t])
    /\ \/ /\ Running(about[t])
          /\ BringsForward(about[t], ask[t])
          /\ UNCHANGED windows
       \/ /\ ~Running(about[t])
          /\ WindowsLeft
          /\ windows' = [windows EXCEPT ![about[t]] = Spent + 1]
    /\ pc' = [pc EXCEPT ![t] = "write"]
    /\ UNCHANGED <<today, status, promised, foldVars, about, ask, historyVars, restarts>>

Write(t) ==
    /\ pc[t] = "write"
    /\ status' = [status EXCEPT ![about[t]] = "PROMISED"]
    /\ promised' = [promised EXCEPT ![about[t]] = ask[t]]
    /\ pc' = [pc EXCEPT ![t] = "log"]
    /\ UNCHANGED <<today, windows, foldVars, about, ask, historyVars, restarts>>

(* audit.record("promise.made"), and the "ok" to the debtor. *)
Log(t) ==
    /\ pc[t] = "log"
    /\ FoldPromise(about[t], ask[t])
    /\ Ended(t)
    /\ UNCHANGED <<today, doorVars, historyVars, restarts>>

(* suppress_on_settlement on invoice i: neither promised_date nor          *)
(* promise_windows is touched, and a settlement event is logged.           *)
Settle(i) ==
    /\ status[i] # "PAID"
    /\ \E s \in {"PARTIALLY_PAID", "PAID"} : status' = [status EXCEPT ![i] = s]
    /\ FoldSettlement(i)
    /\ held' = 0
    /\ carried' = IF ClosedBy(i) THEN 0 ELSE DaysLeft
    /\ UNCHANGED <<today, promised, windows, requestVars, restarts>>

(* raise_dispute; the fold does not read dispute.raised. *)
Dispute(i) ==
    /\ status[i] # "PAID"
    /\ status' = [status EXCEPT ![i] = "DISPUTED"]
    /\ UNCHANGED <<today, promised, windows, foldVars, requestVars, historyVars, restarts>>

(* The process starts again: its dicts are seeded anew, the log stays. *)
Restart ==
    /\ restarts < MaxRestarts
    /\ restarts' = restarts + 1
    /\ status' = [i \in Invoices |-> "OVERDUE"]
    /\ promised' = [i \in Invoices |-> NoDate]
    /\ windows' = [i \in Invoices |-> 0]
    /\ pc' = [t \in Threads |-> "idle"]
    /\ about' = [t \in Threads |-> None]
    /\ ask' = [t \in Threads |-> NoDate]
    /\ UNCHANGED <<today, foldVars, historyVars>>

Request(t) ==
    \/ \E i \in Invoices, d \in today..(today + Horizon) : Submit(t, i, d)
    \/ Refuse(t)
    \/ Accept(t)
    \/ Write(t)
    \/ Log(t)

Next ==
    \/ Tick
    \/ \E t \in Threads : Request(t)
    \/ \E i \in Invoices : Settle(i) \/ Dispute(i)
    \/ Restart

Spec == Init /\ [][Next]_vars

-----------------------------------------------------------------------------
(* Every variable has a value the code can give it: no invoice ever counts *)
(* more windows than a debtor may open.                                    *)
TypeOK ==
    /\ today \in 0..MaxDay
    /\ status \in [Invoices -> Statuses]
    /\ promised \in [Invoices -> NoDate..(MaxDay + Horizon)]
    /\ windows \in [Invoices -> 0..MaxWindows]
    /\ due \in NoDate..(MaxDay + Horizon)
    /\ dueOn \in Invoices \cup {None}
    /\ opened \in 0..(MaxWindows + 1)
    /\ pc \in [Threads -> PCs]
    /\ about \in [Threads -> Invoices \cup {None}]
    /\ ask \in [Threads -> NoDate..(MaxDay + Horizon)]
    /\ held \in 0..MaxDay
    /\ carried \in 0..(Horizon + 1)
    /\ restarts \in 0..MaxRestarts

(* Promising again and again does not switch recovery off: between two     *)
(* settlements a debtor is spared for MaxWindows windows of the horizon,   *)
(* and what was left of a promise on another invoice when money landed     *)
(* (contact_history.py, the two rules of promise.made).                    *)
HoldIsBounded == held <= MaxWindows * (Horizon + 1) + carried

(* The debtor who is answered "ok" gets the promise: the fold takes the    *)
(* date the door took (server.py:682, "the two rules the audit fold        *)
(* applies to promise.made, answered here so the debtor is told").         *)
AcceptedIsHonoured ==
    [][\A t \in Threads :
        (pc[t] = "log" /\ pc'[t] = "idle" /\ restarts' = restarts) => due' = ask[t]]_vars

(* Money landing on another invoice resumes nothing: a running promise is  *)
(* ended only by its own date, its own invoice or an earlier date.         *)
OnlyOwnInvoiceCloses ==
    [][FoldRunning => \/ due' <= due /\ due' # NoDate
                      \/ due' = NoDate /\ status'[dueOn] \in {"PARTIALLY_PAID", "PAID"}]_vars

(* "A settlement resets the count" (contact_history.py:41): with nothing   *)
(* in flight the door turns a debtor away for spent windows only when the  *)
(* fold counts them as spent too.                                          *)
SettlementRenewsBudget ==
    (\A t \in Threads : pc[t] = "idle") /\ ~WindowsLeft => opened >= MaxWindows
=============================================================================
