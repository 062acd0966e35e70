----------------------------- MODULE ReviewQueue -----------------------------
(***************************************************************************)
(* The review-first queue and the kill switch of app/operator.py over the  *)
(* review_queue table of app/store.py, the pipeline that feeds them        *)
(* (app/pipeline.py) and the operators' console (app/server.py).           *)
(*                                                                         *)
(* A notice is one drafted message.  A run of the pipeline decides each of *)
(* its notices once: blocked by the kill switch, queued for a person, or   *)
(* dispatched unattended.  An operator is shown the oldest notice of a     *)
(* debtor and approves or rejects "that debtor's oldest item", whichever   *)
(* it is by then.                                                          *)
(*                                                                         *)
(* Grain: one action per store call and per dispatch; the requeue of the   *)
(* durable mode is two, because its MIN(id) subquery reads a snapshot.     *)
(* The in-memory queue (a list per debtor under _OPERATOR_LOCK) is the     *)
(* same set with the position in the list as rank.                         *)
(***************************************************************************)
EXTENDS Integers, FiniteSetsExt

CONSTANTS
    Notices,    \* drafted messages
    DebtorOf,   \* the debtor each is for
    Operators,  \* approve and reject requests in flight, one per operator
    Durable,    \* store.is_enabled()
    MaxFails,   \* bound on dispatches that fail
    MaxRaises,  \* bound on requests that an exception ends
    MaxCrashes, \* bound on crashes
    None        \* no notice

ASSUME QueueAssumption ==
    /\ None \notin Notices
    /\ Durable \in BOOLEAN
    /\ MaxFails \in Nat
    /\ MaxRaises \in Nat
    /\ MaxCrashes \in Nat

VARIABLES
    seen,      \* notices the pipeline has decided on
    turn,      \* the notice it is drafting
    queue,     \* notices in the queue
    rank,      \* their row id, or position in the debtor's list
    serial,    \* the sequence behind the id column
    kill,      \* the kill switch
    pc,        \* each operator's request
    shown,     \* the notice its page showed
    hand,      \* the notice its request took off the queue
    floor,     \* the id it computed for putting that back
    sent,      \* how often each notice left the process
    rejected,  \* notices an operator rejected
    unclear,   \* how often the answer to a dispatch was lost after it was sent
    broken,    \* notices whose request an exception ended after the pop
    born,      \* history: the rank each notice was first queued at
    fails, crashes

pipeVars    == <<seen, turn>>
queueVars   == <<queue, rank, serial, born>>
requestVars == <<pc, shown, hand, floor>>
outcomeVars == <<sent, rejected, unclear, broken>>
vars == <<pipeVars, queueVars, kill, requestVars, outcomeVars, fails, crashes>>

PCs == {"idle", "viewing", "pop", "dispatch", "requeue", "insert"}

Init ==
    /\ seen = {}
    /\ turn = None
    /\ queue = {}
    /\ rank = [n \in Notices |-> 0]
    /\ serial = 0
    /\ kill = FALSE
    /\ pc = [o \in Operators |-> "idle"]
    /\ shown = [o \in Operators |-> None]
    /\ hand = [o \in Operators |-> None]
    /\ floor = [o \in Operators |-> 0]
    /\ sent = [n \in Notices |-> 0]
    /\ rejected = {}
    /\ unclear = [n \in Notices |-> 0]
    /\ broken = {}
    /\ born = [n \in Notices |-> 0]
    /\ fails = 0
    /\ crashes = 0

-----------------------------------------------------------------------------
Goto(o, l) == pc' = [pc EXCEPT ![o] = l]

(* The response is sent. *)
Finish(o) ==
    /\ Goto(o, "idle")
    /\ shown' = [shown EXCEPT ![o] = None]
    /\ hand' = [hand EXCEPT ![o] = None]
    /\ floor' = [floor EXCEPT ![o] = 0]

(* ORDER BY id LIMIT 1 *)
Oldest(n) ==
    /\ n \in queue
    /\ \A m \in queue : DebtorOf[m] = DebtorOf[n] => rank[n] <= rank[m]

(* COALESCE(MIN(id), 0) - 1 over the whole table. *)
Head == IF queue = {} THEN -1 ELSE Min({rank[n] : n \in queue}) - 1

(* At the position r of the queue. *)
Insert(n, r) ==
    /\ queue' = queue \cup {n}
    /\ rank' = [rank EXCEPT ![n] = r]

-----------------------------------------------------------------------------
(* execute_recovery_pipeline reaches notice n and looks at the switch. *)
Consider(n) ==
    /\ turn = None
    /\ n \notin seen
    /\ seen' = seen \cup {n}
    /\ turn' = IF kill THEN None ELSE n
    /\ UNCHANGED <<queueVars, kill, requestVars, outcomeVars, fails, crashes>>

(* Review required, no merchant or no contact detail: queue_for_review. *)
Queue ==
    /\ turn # None
    /\ serial' = serial + 1
    /\ Insert(turn, serial')
    /\ born' = [born EXCEPT ![turn] = serial']
    /\ turn' = None
    /\ UNCHANGED <<seen, kill, requestVars, outcomeVars, fails, crashes>>

(* Dispatched unattended; whether it went out is not looked at. *)
DispatchUnattended ==
    /\ turn # None
    /\ \/ sent' = [sent EXCEPT ![turn] = sent[turn] + 1]
       \/ UNCHANGED sent
    /\ turn' = None
    /\ UNCHANGED <<seen, queueVars, kill, requestVars, rejected, unclear, broken, fails,
                   crashes>>

-----------------------------------------------------------------------------
SetKillSwitch ==
    /\ kill' = ~kill
    /\ UNCHANGED <<pipeVars, queueVars, requestVars, outcomeVars, fails, crashes>>

(* The console shows the oldest notice of each debtor; one is picked. *)
View(o, n) ==
    /\ pc[o] = "idle"
    /\ Oldest(n)
    /\ Goto(o, "viewing")
    /\ shown' = [shown EXCEPT ![o] = n]
    /\ UNCHANGED <<pipeVars, queueVars, kill, hand, floor, outcomeVars, fails, crashes>>

(* approve_review_item looks at the switch before it takes anything. *)
Approve(o) ==
    /\ pc[o] = "viewing"
    /\ IF kill
       THEN Finish(o)
       ELSE Goto(o, "pop") /\ UNCHANGED <<shown, hand, floor>>
    /\ UNCHANGED <<pipeVars, queueVars, kill, outcomeVars, fails, crashes>>

(* Deviation: the notice is read but not deleted from the queue. *)
PopWithoutDelete(o) ==
    /\ pc[o] = "pop"
    /\ \E n \in queue :
        /\ Oldest(n)
        /\ DebtorOf[n] = DebtorOf[shown[o]]
        /\ hand' = [hand EXCEPT ![o] = n]
    /\ Goto(o, "dispatch")
    /\ UNCHANGED <<pipeVars, queueVars, kill, shown, floor, outcomeVars, fails, crashes>>

(* Deviation: the newest notice of the debtor is taken. *)
PopNewest(o) ==
    /\ pc[o] = "pop"
    /\ \E n \in queue :
        /\ \A m \in queue : DebtorOf[m] = DebtorOf[n] => rank[m] <= rank[n]
        /\ DebtorOf[n] = DebtorOf[shown[o]]
        /\ hand' = [hand EXCEPT ![o] = n]
        /\ queue' = queue \ {n}
    /\ Goto(o, "dispatch")
    /\ UNCHANGED <<pipeVars, rank, serial, born, kill, shown, floor, outcomeVars, fails,
                   crashes>>

(* pop_review_item: FOR UPDATE SKIP LOCKED, so of two at once each takes   *)
(* a notice of its own.                                                    *)
Pop(o) ==
    /\ pc[o] = "pop"
    /\ \E n \in queue :
        /\ Oldest(n)
        /\ DebtorOf[n] = DebtorOf[shown[o]]
        /\ hand' = [hand EXCEPT ![o] = n]
        /\ queue' = queue \ {n}
    /\ Goto(o, "dispatch")
    /\ UNCHANGED <<pipeVars, rank, serial, born, kill, shown, floor, outcomeVars, fails,
                   crashes>>

(* 404: nothing of that debtor is left. *)
PopNothing(o) ==
    /\ pc[o] = "pop"
    /\ \A n \in queue : DebtorOf[n] # DebtorOf[shown[o]]
    /\ Finish(o)
    /\ UNCHANGED <<pipeVars, queueVars, kill, outcomeVars, fails, crashes>>

(* dispatch_message succeeds; operator.review_approved, which leaves the   *)
(* same state when its audit row raises.                                   *)
Delivered(o) ==
    /\ pc[o] = "dispatch"
    /\ sent' = [sent EXCEPT ![hand[o]] = sent[hand[o]] + 1]
    /\ Finish(o)
    /\ UNCHANGED <<pipeVars, queueVars, kill, rejected, unclear, broken, fails, crashes>>

(* Deviation: a failed dispatch is answered without putting the item back. *)
DispatchFailsForGood(o) ==
    /\ pc[o] = "dispatch"
    /\ fails < MaxFails
    /\ fails' = fails + 1
    /\ UNCHANGED <<sent, unclear>>
    /\ Finish(o)
    /\ UNCHANGED <<pipeVars, queueVars, kill, rejected, broken, crashes>>

(* It fails: nothing was sent, or the provider took the message and the    *)
(* answer (or the audit row written under the same try) was lost.          *)
DispatchFails(o) ==
    /\ pc[o] = "dispatch"
    /\ fails < MaxFails
    /\ fails' = fails + 1
    /\ \/ UNCHANGED <<sent, unclear>>
       \/ /\ sent' = [sent EXCEPT ![hand[o]] = sent[hand[o]] + 1]
          /\ unclear' = [unclear EXCEPT ![hand[o]] = unclear[hand[o]] + 1]
    /\ Goto(o, "requeue")
    /\ UNCHANGED <<pipeVars, queueVars, kill, shown, hand, floor, rejected, broken,
                   crashes>>

(* Deviation: appended like a new item. *)
RequeueInMemoryAtTail(o) ==
    /\ pc[o] = "requeue"
    /\ ~Durable
    /\ serial' = serial + 1
    /\ Insert(hand[o], serial')
    /\ Finish(o)
    /\ UNCHANGED <<pipeVars, born, kill, outcomeVars, fails, crashes>>

(* An exception leaves approve_review_item after the pop, and nothing puts *)
(* the notice back: the outbox file cannot be written, an audit row of the *)
(* dispatch raises (after the mail was taken, if both rows of its try do), *)
(* or a store call of the requeue does.  A pop whose commit is not         *)
(* answered ends like a dispatch that raises at once.                      *)
ApproveRaises(o) ==
    /\ Cardinality(broken) < MaxRaises
    /\ \/ pc[o] = "dispatch"
       \/ Durable /\ pc[o] \in {"requeue", "insert"}
    /\ broken' = broken \cup {hand[o]}
    /\ \/ UNCHANGED <<sent, unclear>>
       \/ /\ pc[o] = "dispatch"
          /\ sent' = [sent EXCEPT ![hand[o]] = sent[hand[o]] + 1]
          /\ unclear' = [unclear EXCEPT ![hand[o]] = unclear[hand[o]] + 1]
    /\ Finish(o)
    /\ UNCHANGED <<pipeVars, queueVars, kill, rejected, fails, crashes>>

(* In memory: insert(0, item) under the lock. *)
RequeueInMemory(o) ==
    /\ pc[o] = "requeue"
    /\ ~Durable
    /\ Insert(hand[o], Head)
    /\ Finish(o)
    /\ UNCHANGED <<pipeVars, serial, born, kill, outcomeVars, fails, crashes>>

(* requeue_review_item: the subquery's snapshot ... *)
ReadFloor(o) ==
    /\ pc[o] = "requeue"
    /\ Durable
    /\ floor' = [floor EXCEPT ![o] = Head]
    /\ Goto(o, "insert")
    /\ UNCHANGED <<pipeVars, queueVars, kill, shown, hand, outcomeVars, fails, crashes>>

(* ... and the insert, which the primary key refuses when the id is taken: *)
(* the request fails and the item is in no queue any more.                 *)
RequeueRow(o) ==
    /\ pc[o] = "insert"
    /\ IF \E n \in queue : rank[n] = floor[o]
       THEN UNCHANGED <<queue, rank>>
       ELSE Insert(hand[o], floor[o])
    /\ Finish(o)
    /\ UNCHANGED <<pipeVars, serial, born, kill, outcomeVars, fails, crashes>>

(* reject_review_item: the pop, and the reason in the audit log. *)
Reject(o) ==
    /\ pc[o] = "viewing"
    /\ \E n \in queue :
        /\ Oldest(n)
        /\ DebtorOf[n] = DebtorOf[shown[o]]
        /\ queue' = queue \ {n}
        /\ rejected' = rejected \cup {n}
    /\ Finish(o)
    /\ UNCHANGED <<pipeVars, rank, serial, born, kill, sent, unclear, broken, fails,
                   crashes>>

Leave(o) ==
    /\ pc[o] = "viewing"
    /\ Finish(o)
    /\ UNCHANGED <<pipeVars, queueVars, kill, outcomeVars, fails, crashes>>

(* The process dies with every request and the pipeline run in it; without *)
(* a database the queue and the switch are gone as well.                   *)
Crash ==
    /\ crashes < MaxCrashes
    /\ crashes' = crashes + 1
    /\ turn' = None
    /\ pc' = [o \in Operators |-> "idle"]
    /\ shown' = [o \in Operators |-> None]
    /\ hand' = [o \in Operators |-> None]
    /\ floor' = [o \in Operators |-> 0]
    /\ queue' = IF Durable THEN queue ELSE {}
    /\ kill' = (Durable /\ kill)
    /\ UNCHANGED <<seen, rank, serial, born, outcomeVars, fails>>

Pipeline ==
    \/ \E n \in Notices : Consider(n)
    \/ Queue
    \/ DispatchUnattended

Operator(o) ==
    \/ \E n \in Notices : View(o, n)
    \/ Approve(o) \/ Pop(o) \/ PopNothing(o) \/ Delivered(o) \/ DispatchFails(o)
    \/ ApproveRaises(o) \/ RequeueInMemory(o) \/ ReadFloor(o) \/ RequeueRow(o)
    \/ Reject(o) \/ Leave(o)

Next ==
    \/ Pipeline
    \/ SetKillSwitch
    \/ \E o \in Operators : Operator(o)
    \/ Crash

Spec == Init /\ [][Next]_vars

-----------------------------------------------------------------------------
(* Every variable has a value the code can give it, and a request holds a  *)
(* notice exactly while it dispatches it or puts it back.                  *)
TypeOK ==
    /\ seen \subseteq Notices
    /\ turn \in Notices \cup {None}
    /\ queue \subseteq Notices
    /\ rank \in [Notices -> Int]
    /\ serial \in Nat
    /\ kill \in BOOLEAN
    /\ pc \in [Operators -> PCs]
    /\ shown \in [Operators -> Notices \cup {None}]
    /\ hand \in [Operators -> Notices \cup {None}]
    /\ floor \in [Operators -> Int]
    /\ sent \in [Notices -> Nat]
    /\ rejected \subseteq Notices
    /\ unclear \in [Notices -> Nat]
    /\ broken \subseteq Notices
    /\ born \in [Notices -> Nat]
    /\ fails \in 0..MaxFails
    /\ crashes \in 0..MaxCrashes
    /\ \A o \in Operators :
        hand[o] # None <=> pc[o] \in {"dispatch", "requeue", "insert"}

(* One decision per notice: it is sent once or rejected, never both, and   *)
(* each further copy is owed to an answer that was lost.  Two operators    *)
(* who click at once never dispatch the same notice (store.py:267).        *)
DecidedOnce ==
    \A n \in Notices :
        sent[n] + (IF n \in rejected THEN 1 ELSE 0) <= 1 + unclear[n]

(* A queued notice stays queued or in a request's hand until it is sent or *)
(* rejected, unless an exception cut its own request short: no answer an   *)
(* operator is given, a failed dispatch among them, stands for a notice    *)
(* that is gone (operator.py:173-179).                                     *)
NoticeKept ==
    \A n \in Notices : born[n] > 0 =>
        \/ n \in queue \cup rejected \cup broken
        \/ \E o \in Operators : hand[o] = n
        \/ sent[n] > unclear[n]

(* Putting a notice back preserves the order the operator sees: of one     *)
(* debtor's notices the one queued first is ahead (store.py:286).          *)
QueueIsFifo ==
    \A m, n \in queue :
        DebtorOf[m] = DebtorOf[n] /\ born[m] < born[n] => rank[m] < rank[n]

(* What an operator approves is the notice that was reviewed: the action   *)
(* takes "that debtor's oldest item - the row rendered here"               *)
(* (server.py:219).                                                        *)
ApprovedWasShown == \A o \in Operators : hand[o] # None => hand[o] = shown[o]

(* "Turn off any agent at any time. One tap. Immediate." (operator.py:4):  *)
(* nothing goes out while the switch is engaged.                           *)
NothingSentWhileHalted == [][kill => UNCHANGED sent]_vars

(* A process that dies loses what its requests hold, and in memory the     *)
(* whole queue; of two operators the id one reads for a notice it puts     *)
(* back may be taken when it writes it.                                    *)
MayLose == MaxCrashes > 0 \/ (Durable /\ \E o, p \in Operators : o # p)

Held(n) == n \in queue \/ \E o \in Operators : hand[o] = n

(* Where a notice is, as NoticeBook sees it. *)
Fate(n) ==
    IF n \notin seen THEN "new"
    ELSE IF n = turn THEN "drafted"
    ELSE IF Held(n) THEN "waiting"
    ELSE IF n \in rejected THEN "rejected"
    ELSE IF n \in broken THEN "broken"
    ELSE IF sent[n] > unclear[n] THEN "sent"
    ELSE IF born[n] > 0 THEN "lost"
    ELSE "dropped"

Fates == [n \in Notices |-> Fate(n)]

Book == INSTANCE NoticeBook WITH fate <- Fates, copies <- sent, unknown <- unclear

(* The queue implements NoticeBook: whatever its operators do at once and  *)
(* whatever fails, a notice is decided once and for good; one that waits   *)
(* goes missing by the exception that ends its own request (`broken`), and *)
(* otherwise only when the process dies or two operators meet in the table *)
(* (operator.py:173-179, store.py:267).                                    *)
ImplementsNoticeBook == Book!BookSpec
=============================================================================
