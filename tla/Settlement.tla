----------------------------- MODULE Settlement -----------------------------
(***************************************************************************)
(* The payment surface of app/server.py for ONE invoice, with the part of  *)
(* app/store.py it writes through.                                         *)
(*                                                                         *)
(* Razorpay captures are delivered to razorpay_webhook and applied by      *)
(* suppress_on_settlement; the debtor's sync routes (create_order,         *)
(* record_promise, raise_dispute) and every page view run beside it in     *)
(* Starlette's threadpool.  All of them read and write the same            *)
(* process-global dict INVOICES[token], here mem[i] for the process i.     *)
(* With a database (Durable) each request first folds the persisted row    *)
(* over that dict (_hydrate_invoices) and each write persists the WHOLE    *)
(* runtime record back (_persist_invoice): the row is shared by all        *)
(* processes and nothing locks it.                                         *)
(*                                                                         *)
(* Grain: one action per store call, and the guard, the credit, the status *)
(* write, the building of the state dict and its upsert are steps of their *)
(* own, because another request can run between any two of them.           *)
(*                                                                         *)
(* Abstractions.  amount_received_paise is kept as a count per order of    *)
(* how often that order's capture was added in (received[o]), so that a    *)
(* double credit is visible; the balance is Face minus what those counts   *)
(* are worth.  An order has one capture, and the order id stands for the   *)
(* payment id.  The promise and dispute details are left to                *)
(* PromiseDoor and to a refusal that may always happen.                    *)
(***************************************************************************)
EXTENDS Integers, FiniteSetsExt

CONSTANTS
    Instances,  \* the processes (serverless instances) serving requests
    Hooks,      \* webhook deliveries in flight
    Threads,    \* sync routes in flight in a threadpool
    Home,       \* the process each of them runs in
    Durable,    \* store.is_enabled()
    Orders,     \* Razorpay orders, each with at most one capture
    Face,       \* what is owed on the invoice before any capture
    Amounts,    \* the amounts explored for each order
    MaxFaults,  \* bound on crashes and failed store or audit calls
    MayCrash,   \* whether a process may die and start again
    None        \* the holder of a free lock, the order of an idle request

Requests == Hooks \cup Threads

ASSUME RequestsAssumption ==
    /\ Hooks \cap Threads = {}
    /\ Home \in [Requests -> Instances]
    /\ None \notin Hooks \cup Orders

ASSUME OrdersAssumption == IsFiniteSet(Orders)

ASSUME SizesAssumption ==
    /\ {Durable, MayCrash} \subseteq BOOLEAN
    /\ MaxFaults \in Nat
    /\ Face \in Nat
    /\ Amounts \in [Orders -> SUBSET (Nat \ {0})]

(* In file mode the state is a Python dict: there is nothing to share it through. *)
ASSUME FileModeAssumption == ~Durable => \A i, j \in Instances : i = j

VARIABLES
    mem,      \* mem[i]: INVOICES[token] in the memory of process i
    row,      \* the invoice_runtime row, meaningful when stored
    stored,   \* whether that row exists yet
    claimed,  \* applied payment ids: the claim rows of the database, or the
              \* dict's processed_payment_ids list in file mode
    lock,     \* _SETTLEMENT_LOCK of each process
    stage,    \* each order as the gateway and the debtor see it
    amount,   \* the amount each order was created for
    log,      \* settlement events in the audit log
    pc, kind, arg, snap,  \* each request: where it is, what it does, for
                          \* which order, and the state dict it carries
    faults

sharedVars  == <<mem, row, stored, claimed, lock, log>>
gatewayVars == <<stage, amount>>
requestVars == <<pc, kind, arg, snap>>
vars == <<sharedVars, gatewayVars, requestVars, faults>>

Statuses == {"OVERDUE", "DISPUTED", "PARTIALLY_PAID", "PROMISED", "PAID"}
Record   == [status : Statuses, received : [Orders -> Nat], orders : SUBSET Orders]
Kinds    == {"none", "capture", "partial", "confirmed",
             "order", "promise", "dispute", "page"}
Stages   == {"none", "issued", "open", "captured", "acked"}
PCs      == {"idle", "load", "fold", "match", "lock", "claim", "insert", "ignore",
             "credit", "settle", "check", "write", "build", "save", "log",
             "reply", "ack"}
LogEntry == [event : {"partial", "confirmed", "duplicate_ignored", "unmatched_order"},
             order : Orders]

(* The invoice as data/ledger.json has it: nothing credited, no order yet. *)
Seed == [status |-> "OVERDUE", received |-> [o \in Orders |-> 0], orders |-> {}]

(* ledger.balance_paise on the invoice dict m. *)
Balance(m) == Face - SumFunction([o \in Orders |-> m.received[o] * amount[o]])

(* Deviation: the amounts are not among the persisted keys. *)
FoldedWithoutAmounts(m, s) ==
    [m EXCEPT !.status = s.status,
              !.orders = IF s.orders = {} THEN m.orders ELSE s.orders]

(* invoice.update(state): the row's keys win; a row written before the     *)
(* first order has no razorpay_order_ids key, so the dict keeps its own.   *)
Folded(m, s) == [s EXCEPT !.orders = IF s.orders = {} THEN m.orders ELSE s.orders]

(* _mutation_blocked *)
Blocked(m, allowDisputed) ==
    m.status = "PAID" \/ (m.status = "DISPUTED" /\ ~allowDisputed)

Goto(p, l) == pc' = [pc EXCEPT ![p] = l]

(* The response is sent: the request's local state is gone. *)
Finish(p) ==
    /\ Goto(p, "idle")
    /\ kind' = [kind EXCEPT ![p] = "none"]
    /\ arg' = [arg EXCEPT ![p] = None]
    /\ snap' = [snap EXCEPT ![p] = Seed]

(* "with _SETTLEMENT_LOCK" is left, whether by a return or by an exception. *)
Release(p) ==
    lock' = [i \in Instances |-> IF lock[i] = p THEN None ELSE lock[i]]

Init ==
    /\ mem = [i \in Instances |-> Seed]
    /\ row = Seed
    /\ stored = FALSE
    /\ claimed = {}
    /\ lock = [i \in Instances |-> None]
    /\ stage = [o \in Orders |-> "none"]
    /\ amount = [o \in Orders |-> 0]
    /\ log = {}
    /\ pc = [p \in Requests |-> "idle"]
    /\ kind = [p \in Requests |-> "none"]
    /\ arg = [p \in Requests |-> None]
    /\ snap = [p \in Requests |-> Seed]
    /\ faults = 0

-----------------------------------------------------------------------------
(* The gateway: the debtor pays an order the server handed out. *)
Capture(o) ==
    /\ stage[o] = "open"
    /\ stage' = [stage EXCEPT ![o] = "captured"]
    /\ UNCHANGED <<sharedVars, amount, requestVars, faults>>

(* Razorpay delivers payment.captured for o, again until it sees a 200 and *)
(* possibly once more after that.  Deliveries to one process overlap, as   *)
(* _SETTLEMENT_LOCK's comment and the stress test of                       *)
(* suppress_on_settlement (test_challenges.py:309) have it; the async      *)
(* handler of today serves them one after the other, a subset of this.     *)
Deliver(h, o) ==
    /\ pc[h] = "idle"
    /\ stage[o] \in {"captured", "acked"}
    /\ Goto(h, IF Durable THEN "load" ELSE "match")
    /\ kind' = [kind EXCEPT ![h] = "capture"]
    /\ arg' = [arg EXCEPT ![h] = o]
    /\ UNCHANGED <<sharedVars, gatewayVars, snap, faults>>

(* A debtor-facing route or page starts in the threadpool. *)
Arrive(t, k) ==
    /\ pc[t] = "idle"
    /\ Durable \/ k # "page"
    /\ Goto(t, IF Durable THEN "load" ELSE "check")
    /\ kind' = [kind EXCEPT ![t] = k]
    /\ UNCHANGED <<sharedVars, gatewayVars, arg, snap, faults>>

-----------------------------------------------------------------------------
(* _hydrate_invoices: read the rows ... *)
LoadRow(p) ==
    /\ pc[p] = "load"
    /\ IF stored
       THEN Goto(p, "fold") /\ snap' = [snap EXCEPT ![p] = row]
       ELSE Goto(p, IF p \in Hooks THEN "match" ELSE "check") /\ UNCHANGED snap
    /\ UNCHANGED <<sharedVars, gatewayVars, kind, arg, faults>>

(* ... and fold them over the shared dict. *)
FoldRow(p) ==
    /\ pc[p] = "fold"
    /\ mem' = [mem EXCEPT ![Home[p]] = Folded(mem[Home[p]], snap[p])]
    /\ Goto(p, IF p \in Hooks THEN "match" ELSE "check")
    /\ snap' = [snap EXCEPT ![p] = Seed]
    /\ UNCHANGED <<row, stored, claimed, lock, log, gatewayVars, kind, arg, faults>>

(* _persist_invoice: the state dict is built from the shared dict ... *)
BuildState(p) ==
    /\ pc[p] = "build"
    /\ snap' = [snap EXCEPT ![p] = mem[Home[p]]]
    /\ Goto(p, "save")
    /\ UNCHANGED <<sharedVars, gatewayVars, kind, arg, faults>>

(* ... and save_invoice_runtime replaces the row, whatever it holds by now. *)
SaveRow(p) ==
    /\ pc[p] = "save"
    /\ row' = snap[p]
    /\ stored' = TRUE
    /\ snap' = [snap EXCEPT ![p] = Seed]
    /\ Goto(p, IF p \in Hooks THEN "log" ELSE "reply")
    /\ UNCHANGED <<mem, claimed, lock, log, gatewayVars, kind, arg, faults>>

-----------------------------------------------------------------------------
(* razorpay_webhook: _find_invoice by order id in this process's dict. *)
MatchOrder(h) ==
    /\ pc[h] = "match"
    /\ arg[h] \in mem[Home[h]].orders
    /\ Goto(h, "lock")
    /\ UNCHANGED <<sharedVars, gatewayVars, kind, arg, snap, faults>>

(* Deviation: the critical section is entered without waiting for the lock. *)
AcquireWithoutWaiting(h) ==
    /\ pc[h] = "lock"
    /\ lock' = [lock EXCEPT ![Home[h]] = h]
    /\ Goto(h, "claim")
    /\ UNCHANGED <<mem, row, stored, claimed, log, gatewayVars, kind, arg, snap, faults>>

(* webhook.unmatched_order: logged, and still answered 200. *)
UnmatchedOrder(h) ==
    /\ pc[h] = "match"
    /\ arg[h] \notin mem[Home[h]].orders
    /\ log' = log \cup {[event |-> "unmatched_order", order |-> arg[h]]}
    /\ Goto(h, "ack")
    /\ UNCHANGED <<mem, row, stored, claimed, lock, gatewayVars, kind, arg, snap, faults>>

Acquire(h) ==
    /\ pc[h] = "lock"
    /\ lock[Home[h]] = None
    /\ lock' = [lock EXCEPT ![Home[h]] = h]
    /\ Goto(h, "claim")
    /\ UNCHANGED <<mem, row, stored, claimed, log, gatewayVars, kind, arg, snap, faults>>

(* Deviation: redeliveries are not looked up in the list. *)
ClaimInListUnguarded(h) ==
    /\ pc[h] = "claim"
    /\ ~Durable
    /\ IF mem[Home[h]].status = "PAID"
       THEN Goto(h, "ignore") /\ UNCHANGED claimed
       ELSE Goto(h, "credit") /\ claimed' = claimed \cup {arg[h]}
    /\ UNCHANGED <<mem, row, stored, lock, log, gatewayVars, kind, arg, snap, faults>>

(* File mode: the replay guard is the processed_payment_ids list. *)
ClaimInList(h) ==
    /\ pc[h] = "claim"
    /\ ~Durable
    /\ IF arg[h] \in claimed \/ mem[Home[h]].status = "PAID"
       THEN Goto(h, "ignore") /\ UNCHANGED claimed
       ELSE Goto(h, "credit") /\ claimed' = claimed \cup {arg[h]}
    /\ UNCHANGED <<mem, row, stored, lock, log, gatewayVars, kind, arg, snap, faults>>

(* Deviation: a plain INSERT, without WHERE NOT EXISTS. *)
ClaimLookupUnconditional(h) ==
    /\ pc[h] = "claim"
    /\ Durable
    /\ Goto(h, "insert")
    /\ UNCHANGED <<sharedVars, gatewayVars, kind, arg, snap, faults>>

(* claim_payment: the NOT EXISTS test reads a READ COMMITTED snapshot ... *)
ClaimLookup(h) ==
    /\ pc[h] = "claim"
    /\ Durable
    /\ Goto(h, IF arg[h] \in claimed THEN "ignore" ELSE "insert")
    /\ UNCHANGED <<sharedVars, gatewayVars, kind, arg, snap, faults>>

(* Deviation: the early return of a duplicate leaves the lock held. *)
IgnoreDuplicateKeepingLock(h) ==
    /\ pc[h] = "ignore"
    /\ log' = log \cup {[event |-> "duplicate_ignored", order |-> arg[h]]}
    /\ Goto(h, "ack")
    /\ UNCHANGED <<mem, row, stored, claimed, lock, gatewayVars, kind, arg, snap, faults>>

(* ... and the row is inserted without a unique index to refuse a second   *)
(* one.  Only now is the status looked at.                                 *)
ClaimInsert(h) ==
    /\ pc[h] = "insert"
    /\ claimed' = claimed \cup {arg[h]}
    /\ Goto(h, IF mem[Home[h]].status = "PAID" THEN "ignore" ELSE "credit")
    /\ UNCHANGED <<mem, row, stored, lock, log, gatewayVars, kind, arg, snap, faults>>

IgnoreDuplicate(h) ==
    /\ pc[h] = "ignore"
    /\ log' = log \cup {[event |-> "duplicate_ignored", order |-> arg[h]]}
    /\ Release(h)
    /\ Goto(h, "ack")
    /\ UNCHANGED <<mem, row, stored, claimed, gatewayVars, kind, arg, snap, faults>>

Credited(m, o) == [m EXCEPT !.received[o] = @ + 1]

WithStatus(m, s) == [m EXCEPT !.status = s]

SettledStatus(h) == IF kind[h] = "partial" THEN "PARTIALLY_PAID" ELSE "PAID"

(* Deviation: the amount received is assigned instead of added to. *)
CreditCaptureByAssignment(h) ==
    /\ pc[h] = "credit"
    /\ mem' = [mem EXCEPT ![Home[h]].received =
                 [o \in Orders |-> IF o = arg[h] THEN 1 ELSE 0]]
    /\ kind' = [kind EXCEPT ![h] =
                  IF Balance(mem'[Home[h]]) > 0 THEN "partial" ELSE "confirmed"]
    /\ Goto(h, "settle")
    /\ UNCHANGED <<row, stored, claimed, lock, log, gatewayVars, arg, snap, faults>>

(* Deviation: the name of the event is stored as the status. *)
SettleStatusAsEvent(h) ==
    /\ pc[h] = "settle"
    /\ mem' = [mem EXCEPT ![Home[h]].status = kind[h]]
    /\ Goto(h, IF Durable THEN "build" ELSE "log")
    /\ UNCHANGED <<row, stored, claimed, lock, log, gatewayVars, kind, arg, snap, faults>>

(* amount_received_paise += amount, and `remaining` is read off at once. *)
CreditCapture(h) ==
    /\ pc[h] = "credit"
    /\ mem' = [mem EXCEPT ![Home[h]] = Credited(mem[Home[h]], arg[h])]
    /\ kind' = [kind EXCEPT ![h] =
                  IF Balance(mem'[Home[h]]) > 0 THEN "partial" ELSE "confirmed"]
    /\ Goto(h, "settle")
    /\ UNCHANGED <<row, stored, claimed, lock, log, gatewayVars, arg, snap, faults>>

SettleStatus(h) ==
    /\ pc[h] = "settle"
    /\ mem' = [mem EXCEPT ![Home[h]] = WithStatus(mem[Home[h]], SettledStatus(h))]
    /\ Goto(h, IF Durable THEN "build" ELSE "log")
    /\ UNCHANGED <<row, stored, claimed, lock, log, gatewayVars, kind, arg, snap, faults>>

(* settlement.partial or settlement.confirmed, then out of the lock. *)
LogSettlement(h) ==
    /\ pc[h] = "log"
    /\ log' = log \cup {[event |-> kind[h], order |-> arg[h]]}
    /\ Release(h)
    /\ Goto(h, "ack")
    /\ UNCHANGED <<mem, row, stored, claimed, gatewayVars, kind, arg, snap, faults>>

(* Always 200 on a verified delivery. *)
Acknowledge(h) ==
    /\ pc[h] = "ack"
    /\ stage' = [stage EXCEPT ![arg[h]] = "acked"]
    /\ Finish(h)
    /\ UNCHANGED <<sharedVars, amount, faults>>

-----------------------------------------------------------------------------
(* A sync route that ends without writing: a page was rendered, or the     *)
(* request was refused (blocked, over the balance, out of promise windows, *)
(* the gateway failing).                                                   *)
EndUnwritten(t) ==
    /\ pc[t] = "check"
    /\ Finish(t)
    /\ UNCHANGED <<sharedVars, gatewayVars, faults>>

(* create_order: the guards pass and the gateway creates the order. *)
CheckOrder(t) ==
    /\ pc[t] = "check"
    /\ kind[t] = "order"
    /\ ~Blocked(mem[Home[t]], FALSE)
    /\ \E o \in Orders : \E a \in Amounts[o] :
        /\ stage[o] = "none"
        /\ a <= Balance(mem[Home[t]])
        /\ stage' = [stage EXCEPT ![o] = "issued"]
        /\ amount' = [amount EXCEPT ![o] = a]
        /\ arg' = [arg EXCEPT ![t] = o]
    /\ Goto(t, "write")
    /\ UNCHANGED <<sharedVars, kind, snap, faults>>

(* record_promise and raise_dispute: the guards pass. *)
CheckMutation(t) ==
    /\ pc[t] = "check"
    /\ kind[t] \in {"promise", "dispute"}
    /\ ~Blocked(mem[Home[t]], kind[t] = "dispute")
    /\ Goto(t, "write")
    /\ UNCHANGED <<sharedVars, gatewayVars, kind, arg, snap, faults>>

(* The route's own assignment to the shared dict. *)
Assigned(t, m) ==
    IF kind[t] = "order"
    THEN [m EXCEPT !.orders = m.orders \cup {arg[t]}]
    ELSE WithStatus(m, IF kind[t] = "promise" THEN "PROMISED" ELSE "DISPUTED")

Write(t) ==
    /\ pc[t] = "write"
    /\ mem' = [mem EXCEPT ![Home[t]] = Assigned(t, mem[Home[t]])]
    /\ Goto(t, IF Durable THEN "build" ELSE "reply")
    /\ UNCHANGED <<row, stored, claimed, lock, log, gatewayVars, kind, arg, snap, faults>>

(* The response; create_order's carries the order id the debtor can pay. *)
Reply(t) ==
    /\ pc[t] = "reply"
    /\ stage' = IF kind[t] = "order" THEN [stage EXCEPT ![arg[t]] = "open"] ELSE stage
    /\ Finish(t)
    /\ UNCHANGED <<sharedVars, amount, faults>>

-----------------------------------------------------------------------------
(* Where a request is inside a call to the database, if there is one, or   *)
(* inside audit.record, which writes to the database or to the log file.   *)
StoreCalls == (IF Durable THEN {"load", "claim", "insert", "save"} ELSE {})
              \cup {"ignore", "log", "reply"}

Calling(p) ==
    \/ pc[p] \in StoreCalls
    \/ pc[p] = "match" /\ arg[p] \notin mem[Home[p]].orders

(* Deviation: an exception leaves the critical section without releasing it. *)
StoreFailsKeepingLock(p) ==
    /\ faults < MaxFaults
    /\ Calling(p)
    /\ faults' = faults + 1
    /\ Finish(p)
    /\ UNCHANGED <<mem, row, stored, claimed, lock, log, gatewayVars>>

(* The call raises: the route answers 500, the dict keeps what was written *)
(* so far, the lock is left, and the gateway will redeliver.               *)
StoreFails(p) ==
    /\ faults < MaxFaults
    /\ Calling(p)
    /\ faults' = faults + 1
    /\ Release(p)
    /\ Finish(p)
    /\ UNCHANGED <<mem, row, stored, claimed, log, gatewayVars>>

(* A process dies and starts again from data/ledger.json: its requests,    *)
(* its lock and its dict are gone (in file mode the list of processed      *)
(* payments with it); the database and the audit log stay.                 *)
Crash(i) ==
    /\ MayCrash
    /\ faults < MaxFaults
    /\ faults' = faults + 1
    /\ mem' = [mem EXCEPT ![i] = Seed]
    /\ claimed' = IF Durable THEN claimed ELSE {}
    /\ lock' = [lock EXCEPT ![i] = None]
    /\ pc' = [p \in Requests |-> IF Home[p] = i THEN "idle" ELSE pc[p]]
    /\ kind' = [p \in Requests |-> IF Home[p] = i THEN "none" ELSE kind[p]]
    /\ arg' = [p \in Requests |-> IF Home[p] = i THEN None ELSE arg[p]]
    /\ snap' = [p \in Requests |-> IF Home[p] = i THEN Seed ELSE snap[p]]
    /\ UNCHANGED <<row, stored, log, gatewayVars>>

-----------------------------------------------------------------------------
Persist(p) == BuildState(p) \/ SaveRow(p)

Hydrate(p) == LoadRow(p) \/ FoldRow(p)

Webhook(h) ==
    \/ Hydrate(h) \/ MatchOrder(h) \/ UnmatchedOrder(h) \/ Acquire(h)
    \/ ClaimInList(h) \/ ClaimLookup(h) \/ ClaimInsert(h) \/ IgnoreDuplicate(h)
    \/ CreditCapture(h) \/ SettleStatus(h) \/ Persist(h) \/ LogSettlement(h)
    \/ Acknowledge(h)

Route(t) ==
    \/ Hydrate(t) \/ EndUnwritten(t) \/ CheckOrder(t) \/ CheckMutation(t)
    \/ Write(t) \/ Persist(t) \/ Reply(t)

Next ==
    \/ \E o \in Orders : Capture(o)
    \/ \E h \in Hooks, o \in Orders : Deliver(h, o)
    \/ \E t \in Threads, k \in {"order", "promise", "dispute", "page"} : Arrive(t, k)
    \/ \E h \in Hooks : Webhook(h)
    \/ \E t \in Threads : Route(t)
    \/ \E p \in Requests : StoreFails(p)
    \/ \E i \in Instances : Crash(i)

Spec == Init /\ [][Next]_vars

(* A started handler runs to its end, asyncio and the lock are not unfair  *)
(* for ever to one delivery, and Razorpay redelivers until it sees a 200.  *)
Fairness ==
    /\ \A h \in Hooks : WF_vars(Webhook(h)) /\ SF_vars(Acquire(h))
    /\ \A o \in Orders :
         SF_vars(\E h \in Hooks : stage[o] = "captured" /\ Deliver(h, o))

FairSpec == Spec /\ Fairness
-----------------------------------------------------------------------------
(* Every variable has a value the code can give it, and a request that is  *)
(* under way for an order knows which.                                     *)
TypeOK ==
    /\ mem \in [Instances -> Record]
    /\ row \in Record
    /\ stored \in BOOLEAN
    /\ claimed \subseteq Orders
    /\ lock \in [Instances -> Hooks \cup {None}]
    /\ stage \in [Orders -> Stages]
    /\ amount \in [Orders -> Nat]
    /\ log \subseteq LogEntry
    /\ pc \in [Requests -> PCs]
    /\ kind \in [Requests -> Kinds]
    /\ arg \in [Requests -> Orders \cup {None}]
    /\ snap \in [Requests -> Record]
    /\ faults \in 0..MaxFaults

(* Every copy of the invoice there is: the dicts, the row, and the state   *)
(* dicts requests carry between a load and a fold or a build and a save.   *)
Copies == {mem[i] : i \in Instances} \cup {row} \cup {snap[p] : p \in Requests}

(* The copy the next request will work from. *)
Book(i) == IF Durable THEN row ELSE mem[i]

(* One capture is credited once, however often Razorpay redelivers it and  *)
(* however its deliveries interleave with each other and with the debtor's *)
(* requests: the replay guard of suppress_on_settlement (server.py:386).   *)
CountedOnce == \A c \in Copies, o \in Orders : c.received[o] <= 1

(* The audit fold credits a payment by its settlement event, so a capture  *)
(* must not appear both as settlement.partial and settlement.confirmed.    *)
LoggedOnce ==
    \A o \in Orders : ~ \A e \in {"partial", "confirmed"} : [event |-> e, order |-> o] \in log

(* Once Razorpay has had its 200 it stops redelivering, so by then the     *)
(* capture must be on the books, unless the invoice was already cleared    *)
(* ("A fully settled invoice ignores any further capture").                *)
AckedIsSettled ==
    \A o \in Orders, i \in Instances :
        stage[o] = "acked" => Book(i).received[o] >= 1 \/ Balance(Book(i)) <= 0

(* The program counters inside "with _SETTLEMENT_LOCK". *)
Critical == {"claim", "insert", "ignore", "credit", "settle", "build", "save", "log"}

(* No path keeps _SETTLEMENT_LOCK, not even one that an exception of the   *)
(* store or the audit log cuts short: its holder is a delivery of the      *)
(* process that is inside the critical section (server.py:393).            *)
LockHeldInside ==
    \A i \in Instances : lock[i] # None =>
        Home[lock[i]] = i /\ pc[lock[i]] \in Critical

(* PAID blocks every door and ends all chasing, so it is only ever the     *)
(* status of an invoice whose captures cover the face value.               *)
PaidIsCovered == \A i \in Instances : mem[i].status = "PAID" => Balance(mem[i]) <= 0

(* A recorded settlement halts the ladder for good: no later request moves *)
(* a PAID invoice to another status.                                       *)
PaidIsFinal ==
    [][\A i \in Instances : Book(i).status = "PAID" => Book(i)'.status = "PAID"]_vars

(* What the gateway was paid and what the process of file mode counts, as  *)
(* CaptureBook sees them.                                                  *)
Paid == {o \in Orders : stage[o] \in {"captured", "acked"}}
TheProcess == CHOOSE i \in Instances : TRUE
Books == INSTANCE CaptureBook WITH captured <- Paid, credited <- mem[TheProcess].received

(* In file mode the one process implements CaptureBook: whatever its       *)
(* requests do meanwhile, captures are credited once, after they happened, *)
(* and no credit is lost (suppress_on_settlement, server.py:381).          *)
ImplementsCaptureBook == Books!BookSpec

(* A capture the gateway holds is, in the end, credited to the invoice or  *)
(* made redundant by captures that cleared it.                             *)
EveryCaptureSettles ==
    \A o \in Orders : stage[o] = "captured" ~>
        \E i \in Instances : Book(i).received[o] >= 1 \/ Balance(Book(i)) <= 0

(* An order this server handed to the debtor is always matched back to its *)
(* invoice when its capture arrives (server.py: "Persisted so the webhook  *)
(* can match this order back to its invoice even when the capture is       *)
(* delivered to a different instance").                                    *)
EveryOrderMatched == \A o \in Orders : [event |-> "unmatched_order", order |-> o] \notin log

(* A refused claim means the payment "has already been applied by any      *)
(* instance" (server.py, the replay guard).                                *)
IgnoredMeansApplied ==
    \A o \in Orders, i \in Instances :
        [event |-> "duplicate_ignored", order |-> o] \in log =>
            row.received[o] >= 1 \/ Balance(row) <= 0

(* A debtor is never able to overpay (create_order caps the order at the   *)
(* balance still owed).                                                    *)
NeverOverpaid == \A i \in Instances : Balance(mem[i]) >= 0

(* An open dispute keeps the payment door closed until the invoice is paid *)
(* in full: nothing rewrites DISPUTED to a chaseable status.               *)
DisputeHoldsDoor ==
    [][\A i \in Instances :
        mem[i].status = "DISPUTED" => mem'[i].status \in {"DISPUTED", "PAID"}]_vars
=============================================================================
