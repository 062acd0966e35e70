---------------------------- MODULE ReviewProofs ----------------------------
(***************************************************************************)
(* Why no notice is decided twice: it is in one place at a time, and while *)
(* it is in one, nothing has been decided about it.                        *)
(***************************************************************************)
EXTENDS ReviewQueue, SumProofs, TLAPS

PlaceTypes ==
    /\ seen \subseteq Notices
    /\ turn \in Notices \cup {None}
    /\ queue \subseteq Notices
    /\ pc \in [Operators -> PCs]
    /\ hand \in [Operators -> Notices \cup {None}]
    /\ sent \in [Notices -> Nat]
    /\ unclear \in [Notices -> Nat]
    /\ rejected \subseteq Notices

(* A request holds a notice while it dispatches it or puts it back. *)
HandInv ==
    \A o \in Operators :
        hand[o] # None <=> pc[o] \in {"dispatch", "requeue", "insert"}

(* The pipeline, the queue and the hands never share a notice. *)
ApartInv ==
    /\ queue \subseteq seen
    /\ turn # None => turn \in seen /\ turn \notin queue
    /\ \A o \in Operators : hand[o] # None =>
        /\ hand[o] \in seen
        /\ hand[o] \notin queue
        /\ hand[o] # turn
        /\ \A p \in Operators : hand[p] = hand[o] => p = o

Pending(n) == n \notin seen \/ n = turn \/ n \in queue \/ \E o \in Operators : hand[o] = n

(* Nothing has been decided about a notice that is still somewhere. *)
UndecidedInv ==
    \A n \in Notices : Pending(n) =>
        sent[n] = unclear[n] /\ n \notin rejected /\ n \notin broken

PlaceInv == PlaceTypes /\ HandInv /\ ApartInv /\ UndecidedInv /\ DecidedOnce

-----------------------------------------------------------------------------
LEMMA PlaceInit == Init => PlaceInv
  BY QueueAssumption DEF Init, PlaceInv, PlaceTypes, PCs, HandInv, ApartInv, UndecidedInv,
     Pending, DecidedOnce

(* What an operator's request does to the places and the outcomes. *)
LEMMA OperatorKeepsPlaces ==
    ASSUME PlaceInv, NEW o \in Operators, Operator(o)
    PROVE  PlaceInv'
<1> USE QueueAssumption DEF PlaceInv, PlaceTypes, PCs
<1>1. ASSUME NEW n \in Notices, View(o, n)
      PROVE  PlaceInv'
  BY <1>1 DEF View, Goto, pipeVars, queueVars, outcomeVars, HandInv, ApartInv,
     UndecidedInv, Pending, DecidedOnce
<1>2. CASE Approve(o)
  <2>1. hand' = hand
    BY <1>2 DEF Approve, Finish, Goto, HandInv
  <2>2. PlaceTypes' /\ HandInv'
    BY <1>2, <2>1 DEF Approve, Finish, Goto, HandInv, pipeVars, queueVars, outcomeVars
  <2> QED
    BY <1>2, <2>1, <2>2 DEF Approve, pipeVars, queueVars, outcomeVars, ApartInv,
       UndecidedInv, Pending, DecidedOnce
<1>3. CASE Pop(o)
  <2>1. PICK n \in queue : hand' = [hand EXCEPT ![o] = n] /\ queue' = queue \ {n}
    BY <1>3 DEF Pop
  <2>2. PlaceTypes' /\ HandInv'
    BY <1>3, <2>1 DEF Pop, Goto, HandInv, pipeVars, outcomeVars
  <2>3. ApartInv'
    BY <1>3, <2>1 DEF Pop, Goto, HandInv, ApartInv, pipeVars
  <2>4. UndecidedInv' /\ DecidedOnce'
    BY <1>3, <2>1 DEF Pop, Goto, HandInv, UndecidedInv, Pending, DecidedOnce, pipeVars,
       outcomeVars
  <2> QED
    BY <2>2, <2>3, <2>4
<1>4. CASE PopNothing(o)
  <2>1. hand' = hand
    BY <1>4 DEF PopNothing, Finish, Goto, HandInv
  <2>2. PlaceTypes' /\ HandInv'
    BY <1>4, <2>1 DEF PopNothing, Finish, Goto, HandInv, pipeVars, queueVars, outcomeVars
  <2> QED
    BY <1>4, <2>1, <2>2 DEF PopNothing, pipeVars, queueVars, outcomeVars, ApartInv,
       UndecidedInv, Pending, DecidedOnce
<1>5. CASE Delivered(o)
  <2>1. PICK n \in Notices : n = hand[o]
    BY <1>5 DEF Delivered, HandInv
  <2>2. hand' = [hand EXCEPT ![o] = None] /\ sent' = [sent EXCEPT ![n] = sent[n] + 1]
    BY <1>5, <2>1 DEF Delivered, Finish
  <2>3. PlaceTypes' /\ HandInv'
    BY <1>5, <2>1, <2>2 DEF Delivered, Finish, Goto, HandInv, pipeVars, queueVars
  <2>4. ApartInv'
    BY <1>5, <2>2 DEF Delivered, ApartInv, pipeVars, queueVars
  <2>5. n \in seen /\ n # turn /\ n \notin queue
    BY <2>1, <1>5 DEF ApartInv
  <2>6. \A p \in Operators : hand'[p] # n
    BY <2>1, <2>2 DEF ApartInv
  <2>7. \A m \in Notices : Pending(m)' => Pending(m) /\ m # n
    BY <1>5, <2>2, <2>5, <2>6 DEF Delivered, Pending, pipeVars, queueVars
  <2>8. UndecidedInv'
    BY <1>5, <2>2, <2>7 DEF Delivered, UndecidedInv
  <2>9. sent[n] = unclear[n] /\ n \notin rejected
    BY <2>1 DEF UndecidedInv, Pending
  <2>10. DecidedOnce'
    BY <1>5, <2>2, <2>9 DEF Delivered, DecidedOnce
  <2> QED
    BY <2>3, <2>4, <2>8, <2>10
<1>6. CASE DispatchFails(o)
  <2>1. hand[o] \in Notices /\ hand' = hand
    BY <1>6 DEF DispatchFails, HandInv
  <2>2. PlaceTypes' /\ HandInv'
    BY <1>6, <2>1 DEF DispatchFails, Goto, HandInv, pipeVars, queueVars
  <2>3. ApartInv' /\ (\A n \in Notices : Pending(n)' <=> Pending(n))
    BY <1>6, <2>1 DEF DispatchFails, ApartInv, Pending, pipeVars, queueVars
  <2>4. CASE UNCHANGED <<sent, unclear>>
    BY <1>6, <2>2, <2>3, <2>4 DEF DispatchFails, UndecidedInv, DecidedOnce
  <2>5. CASE /\ sent' = [sent EXCEPT ![hand[o]] = sent[hand[o]] + 1]
             /\ unclear' = [unclear EXCEPT ![hand[o]] = unclear[hand[o]] + 1]
    <3>1. UndecidedInv'
      BY <1>6, <2>1, <2>3, <2>5 DEF DispatchFails, UndecidedInv
    <3>2. DecidedOnce'
      BY <1>6, <2>1, <2>5 DEF DispatchFails, DecidedOnce
    <3> QED
      BY <2>2, <2>3, <3>1, <3>2
  <2> QED
    BY <1>6, <2>4, <2>5 DEF DispatchFails
<1>7. ASSUME Finish(o), hand[o] \in Notices,
             queue' = queue \cup {hand[o]} \/ (pc[o] = "insert" /\ queue' = queue),
             UNCHANGED <<pipeVars, outcomeVars>>
      PROVE  PlaceInv'
  <2>1. hand' = [hand EXCEPT ![o] = None]
    BY <1>7 DEF Finish
  <2>2. PlaceTypes' /\ HandInv'
    BY <1>7, <2>1 DEF Finish, Goto, HandInv, pipeVars, outcomeVars
  <2>3. ApartInv'
    BY <1>7, <2>1 DEF ApartInv, pipeVars
  <2>4. UndecidedInv' /\ DecidedOnce'
    BY <1>7, <2>1 DEF UndecidedInv, Pending, DecidedOnce, pipeVars, outcomeVars
  <2> QED
    BY <2>2, <2>3, <2>4
<1>8. CASE RequeueInMemory(o)
  BY <1>7, <1>8 DEF RequeueInMemory, Insert, HandInv
<1>9. CASE ReadFloor(o)
  BY <1>9 DEF ReadFloor, Goto, pipeVars, queueVars, outcomeVars, HandInv, ApartInv,
     UndecidedInv, Pending, DecidedOnce
<1>10. CASE RequeueRow(o)
  BY <1>7, <1>10 DEF RequeueRow, Insert, HandInv
<1>11. CASE Reject(o)
  <2>1. PICK n \in queue : queue' = queue \ {n} /\ rejected' = rejected \cup {n}
    BY <1>11 DEF Reject
  <2>2. hand' = hand
    BY <1>11 DEF Reject, Finish, HandInv
  <2>3. PlaceTypes' /\ HandInv'
    BY <1>11, <2>1, <2>2 DEF Reject, Finish, Goto, HandInv, pipeVars
  <2>4. ApartInv'
    BY <1>11, <2>1, <2>2 DEF Reject, ApartInv, pipeVars
  <2>5. ~ Pending(n)'
    BY <1>11, <2>1, <2>2 DEF Reject, ApartInv, Pending, pipeVars
  <2>6. UndecidedInv'
    BY <1>11, <2>1, <2>2, <2>5 DEF Reject, UndecidedInv, Pending, pipeVars
  <2>7. sent[n] = unclear[n] /\ n \notin rejected
    BY <2>1 DEF UndecidedInv, Pending
  <2>8. DecidedOnce'
    BY <1>11, <2>1, <2>7 DEF Reject, DecidedOnce
  <2> QED
    BY <2>3, <2>4, <2>6, <2>8
<1>12. CASE Leave(o)
  <2>1. hand' = hand
    BY <1>12 DEF Leave, Finish, HandInv
  <2>2. PlaceTypes' /\ HandInv'
    BY <1>12, <2>1 DEF Leave, Finish, Goto, HandInv, pipeVars, queueVars, outcomeVars
  <2> QED
    BY <1>12, <2>1, <2>2 DEF Leave, pipeVars, queueVars, outcomeVars, ApartInv,
       UndecidedInv, Pending, DecidedOnce
<1>13. CASE ApproveRaises(o)
  <2>1. PICK n \in Notices : n = hand[o]
    BY <1>13 DEF ApproveRaises, HandInv
  <2>2. /\ hand' = [hand EXCEPT ![o] = None] /\ broken' = broken \cup {n}
        /\ UNCHANGED <<seen, turn, queue, rejected>>
    BY <1>13, <2>1 DEF ApproveRaises, Finish, pipeVars, queueVars
  <2>3. \/ UNCHANGED <<sent, unclear>>
        \/ /\ sent' = [sent EXCEPT ![n] = sent[n] + 1]
           /\ unclear' = [unclear EXCEPT ![n] = unclear[n] + 1]
    BY <1>13, <2>1 DEF ApproveRaises
  <2>4. PlaceTypes' /\ HandInv'
    BY <1>13, <2>1, <2>2, <2>3 DEF ApproveRaises, Finish, Goto, HandInv
  <2>5. ApartInv'
    BY <2>2 DEF ApartInv
  <2>6. n \in seen /\ n # turn /\ n \notin queue
    BY <2>1 DEF ApartInv
  <2>7. \A p \in Operators : hand'[p] # n
    BY <2>1, <2>2 DEF ApartInv
  <2>8. \A m \in Notices : Pending(m)' => Pending(m) /\ m # n
    BY <2>2, <2>6, <2>7 DEF Pending
  <2>9. UndecidedInv'
    BY <2>2, <2>3, <2>8 DEF UndecidedInv
  <2>10. DecidedOnce'
    BY <2>2, <2>3 DEF DecidedOnce
  <2> QED
    BY <2>4, <2>5, <2>9, <2>10
<1> QED
  BY <1>1, <1>2, <1>3, <1>4, <1>5, <1>6, <1>8, <1>9, <1>10, <1>11, <1>12, <1>13
     DEF Operator

(* A notice the pipeline decides on was decided by nobody before. *)
LEMMA PipelineKeepsPlaces ==
    ASSUME PlaceInv, Pipeline
    PROVE  PlaceInv'
<1> USE QueueAssumption DEF PlaceInv, PlaceTypes, PCs
<1>1. ASSUME NEW n \in Notices, Consider(n)
      PROVE  PlaceInv'
  <2>1. PlaceTypes' /\ HandInv'
    BY <1>1 DEF Consider, queueVars, requestVars, outcomeVars, HandInv
  <2>2. ApartInv'
    BY <1>1 DEF Consider, queueVars, requestVars, ApartInv
  <2>3. \A m \in Notices : Pending(m)' => Pending(m)
    BY <1>1 DEF Consider, queueVars, requestVars, Pending
  <2> QED
    BY <1>1, <2>1, <2>2, <2>3 DEF Consider, outcomeVars, UndecidedInv, DecidedOnce
<1>2. CASE Queue
  <2>1. turn \in Notices /\ queue' = queue \cup {turn} /\ turn' = None
    BY <1>2 DEF Queue, Insert
  <2>2. PlaceTypes' /\ HandInv'
    BY <1>2, <2>1 DEF Queue, requestVars, outcomeVars, HandInv
  <2>3. ApartInv'
    BY <1>2, <2>1 DEF Queue, requestVars, ApartInv
  <2>4. \A m \in Notices : Pending(m)' => Pending(m)
    BY <1>2, <2>1 DEF Queue, requestVars, Pending
  <2> QED
    BY <1>2, <2>2, <2>3, <2>4 DEF Queue, outcomeVars, UndecidedInv, DecidedOnce
<1>3. CASE DispatchUnattended
  <2>1. turn \in Notices /\ turn' = None
    BY <1>3 DEF DispatchUnattended
  <2>2. sent' = [sent EXCEPT ![turn] = sent[turn] + 1] \/ sent' = sent
    BY <1>3 DEF DispatchUnattended
  <2>3. PlaceTypes' /\ HandInv'
    BY <1>3, <2>1, <2>2 DEF DispatchUnattended, queueVars, requestVars, HandInv
  <2>4. ApartInv'
    BY <1>3, <2>1 DEF DispatchUnattended, queueVars, requestVars, ApartInv
  <2>5. \A m \in Notices : Pending(m)' => Pending(m) /\ m # turn
    BY <1>3, <2>1 DEF DispatchUnattended, queueVars, requestVars, Pending, ApartInv
  <2>6. UndecidedInv'
    BY <1>3, <2>1, <2>2, <2>5 DEF DispatchUnattended, UndecidedInv
  <2>7. sent[turn] = unclear[turn] /\ turn \notin rejected
    BY <2>1 DEF UndecidedInv, Pending
  <2>8. DecidedOnce'
    BY <1>3, <2>1, <2>2, <2>7 DEF DispatchUnattended, DecidedOnce
  <2> QED
    BY <2>3, <2>4, <2>6, <2>8
<1> QED
  BY <1>1, <1>2, <1>3 DEF Pipeline

LEMMA PlaceStep == PlaceInv /\ [Next]_vars => PlaceInv'
<1> SUFFICES ASSUME PlaceInv, [Next]_vars
             PROVE  PlaceInv'
  OBVIOUS
<1>1. CASE Pipeline
  BY <1>1, PipelineKeepsPlaces
<1>2. ASSUME NEW o \in Operators, Operator(o)
      PROVE  PlaceInv'
  BY <1>2, OperatorKeepsPlaces
<1>3. CASE SetKillSwitch
  BY <1>3 DEF SetKillSwitch, pipeVars, queueVars, requestVars, outcomeVars, PlaceInv,
     PlaceTypes, HandInv, ApartInv, UndecidedInv, Pending, DecidedOnce
<1>4. CASE Crash
  <2>1. PlaceTypes' /\ HandInv' /\ ApartInv'
    BY <1>4, QueueAssumption DEF Crash, outcomeVars, PlaceInv, PlaceTypes, PCs, HandInv,
       ApartInv
  <2>2. \A n \in Notices : Pending(n)' => Pending(n)
    BY <1>4, QueueAssumption DEF Crash, Pending
  <2> QED
    BY <1>4, <2>1, <2>2 DEF Crash, outcomeVars, PlaceInv, UndecidedInv, DecidedOnce
<1>5. CASE UNCHANGED vars
  BY <1>5 DEF vars, pipeVars, queueVars, requestVars, outcomeVars, PlaceInv,
     PlaceTypes, HandInv, ApartInv, UndecidedInv, Pending, DecidedOnce
<1> QED
  BY <1>1, <1>2, <1>3, <1>4, <1>5 DEF Next

(* In both storage modes, with any number of operators, crashes and failed *)
(* dispatches, each notice is decided once and every further copy is owed  *)
(* to a lost answer.                                                       *)
THEOREM EachDecidedOnce == Spec => []DecidedOnce
<1>1. PlaceInv => DecidedOnce
  BY DEF PlaceInv
<1> QED
  BY PlaceInit, PlaceStep, <1>1, PTL DEF Spec
-----------------------------------------------------------------------------
(* One operator at work, on a queue in memory or in the database. *)
OneOperator == \A o, p \in Operators : o = p

Same(m, n) == DebtorOf[m] = DebtorOf[n]

Ahead(m, n) == born[m] < born[n] /\ rank[m] < rank[n]

IsFront(r) == r \in Int /\ r <= serial /\ \A n \in queue : r < rank[n]

OrderTypes ==
    /\ IsFiniteSet(queue)
    /\ rank \in [Notices -> Int]
    /\ born \in [Notices -> Nat]
    /\ serial \in Nat
    /\ shown \in [Operators -> Notices \cup {None}]
    /\ floor \in [Operators -> Int]
    /\ \A n \in Notices : born[n] <= serial
    /\ \A n \in queue : rank[n] <= serial

(* Of one debtor's notices the queue has the one queued first ahead, and   *)
(* one taken off it came before those that are left.                       *)
InOrder ==
    /\ \A m, n \in queue : Same(m, n) => m = n \/ Ahead(m, n) \/ Ahead(n, m)
    /\ \A o \in Operators, m \in queue :
        hand[o] # None /\ Same(hand[o], m) => born[hand[o]] < born[m]

(* What a request acts on is what its page showed, and the id it puts a    *)
(* notice back at stays in front of the queue, and free.                   *)
ActsOn(o) ==
    /\ pc[o] \in {"viewing", "pop"} => Oldest(shown[o])
    /\ hand[o] # None => hand[o] = shown[o]
    /\ pc[o] = "insert" => IsFront(floor[o])

OrderInv == OrderTypes /\ InOrder /\ \A o \in Operators : ActsOn(o)

LEMMA OrderInit == Init => OrderInv
  BY FS_EmptySet DEF Init, OrderInv, OrderTypes, InOrder, ActsOn

(* A notice put back goes in front of all that wait. *)
LEMMA HeadIsAhead ==
  ASSUME OrderTypes, queue \subseteq Notices
  PROVE  IsFront(Head)
<1>1. CASE queue = {}
  BY <1>1 DEF Head, IsFront, OrderTypes
<1>2. CASE queue # {}
  <2> DEFINE f == [n \in queue |-> serial - rank[n]]
             S == {rank[n] : n \in queue}
  <2>1. \A n \in queue : rank[n] \in Int /\ rank[n] <= serial /\ serial \in Nat
    BY DEF OrderTypes
  <2>2. PICK m \in queue : \A n \in queue : f[n] <= f[m]
    <3>1. IsFiniteSet(queue) /\ \A n \in queue : f[n] \in Nat
      BY <2>1 DEF OrderTypes
    <3> HIDE DEF f
    <3>2. QED
      BY <1>2, <3>1, GreatestOf
  <2>3. \A n \in queue : rank[m] <= rank[n]
    BY <2>1, <2>2
  <2>4. rank[m] \in S /\ \A x \in S : rank[m] <= x
    BY <2>3
  <2> HIDE DEF S
  <2>5. Min(S) \in S /\ \A x \in S : Min(S) <= x
    BY <2>4 DEF Min
  <2>6. Min(S) \in Int /\ Min(S) <= rank[m] /\ \A n \in queue : Min(S) <= rank[n]
    BY <2>1, <2>5 DEF S
  <2>7. Head = Min(S) - 1
    BY <1>2 DEF Head, S
  <2>8. QED
    BY <2>1, <2>6, <2>7 DEF IsFront
<1>3. QED
  BY <1>1, <1>2

(* Nothing the order depends on changes. *)
LEMMA SameOrder ==
  ASSUME OrderInv, UNCHANGED <<queueVars, requestVars>>
  PROVE  OrderInv'
  BY DEF OrderInv, OrderTypes, InOrder, Ahead, Same, ActsOn, IsFront, Oldest, queueVars,
     requestVars

(* The request is over, and the queue has lost at most a notice. *)
LEMMA FinishKeepsOrder ==
  ASSUME OneOperator, PlaceInv, OrderInv, NEW o \in Operators, Finish(o),
         queue' \subseteq queue, UNCHANGED <<rank, serial, born>>
  PROVE  OrderInv'
<1> USE DEF OrderInv
<1>1. \A p \in Operators : p = o
  BY DEF OneOperator
<1>2. pc'[o] = "idle" /\ hand'[o] = None /\ shown'[o] = None
  BY DEF Finish, Goto, PlaceInv, PlaceTypes, OrderTypes
<1>3. OrderTypes'
  <2>1. IsFiniteSet(queue')
    BY FS_Subset DEF OrderTypes
  <2>2. shown' \in [Operators -> Notices \cup {None}] /\ floor' \in [Operators -> Int]
    BY DEF Finish, OrderTypes
  <2>3. QED
    BY <2>1, <2>2 DEF OrderTypes
<1>4. InOrder'
  BY <1>1, <1>2 DEF InOrder, Ahead, Same
<1>5. ActsOn(o)'
  BY <1>2 DEF ActsOn
<1>6. QED
  BY <1>1, <1>3, <1>4, <1>5

LEMMA PopKeepsOrder ==
  ASSUME OneOperator, PlaceInv, OrderInv, NEW o \in Operators, Pop(o)
  PROVE  OrderInv'
<1> USE DEF OrderInv
<1>1. \A p \in Operators : p = o
  BY DEF OneOperator
<1>2. PICK n \in queue : /\ Oldest(n) /\ DebtorOf[n] = DebtorOf[shown[o]]
                         /\ hand' = [hand EXCEPT ![o] = n] /\ queue' = queue \ {n}
  BY DEF Pop
<1>3. pc[o] = "pop" /\ Oldest(shown[o])
  BY DEF Pop, ActsOn
<1>4. \A m \in queue : rank[m] \in Int /\ born[m] \in Nat
  BY DEF PlaceInv, PlaceTypes, OrderTypes
<1>5. n = shown[o]
  <2>1. shown[o] \in queue /\ rank[n] <= rank[shown[o]] /\ rank[shown[o]] <= rank[n]
    BY <1>2, <1>3 DEF Oldest
  <2>2. QED
    BY <1>2, <1>4, <2>1 DEF InOrder, Same, Ahead
<1>6. \A m \in queue' : Same(n, m) => born[n] < born[m]
  <2> SUFFICES ASSUME NEW m \in queue', Same(n, m) PROVE born[n] < born[m]
    OBVIOUS
  <2>1. m \in queue /\ m # n /\ rank[n] <= rank[m]
    BY <1>2 DEF Oldest, Same
  <2>2. QED
    BY <1>4, <2>1 DEF InOrder, Ahead
<1>7. hand'[o] = n /\ pc'[o] = "dispatch" /\ UNCHANGED <<rank, serial, born, shown, floor>>
  BY <1>2 DEF Pop, Goto, PlaceInv, PlaceTypes
<1>8. OrderTypes'
  <2>1. IsFiniteSet(queue')
    BY <1>2, FS_Subset DEF OrderTypes
  <2>2. QED
    BY <1>2, <1>7, <2>1 DEF OrderTypes
<1>9. InOrder'
  BY <1>1, <1>2, <1>6, <1>7 DEF InOrder, Ahead, Same
<1>10. ActsOn(o)'
  BY <1>5, <1>7 DEF ActsOn
<1>11. QED
  BY <1>1, <1>8, <1>9, <1>10

(* Put back in front of the queue, the notice is where it was. *)
LEMMA RequeueKeepsOrder ==
  ASSUME OneOperator, PlaceInv, OrderInv, NEW o \in Operators, NEW r, IsFront(r),
         hand[o] # None, Insert(hand[o], r), Finish(o), UNCHANGED <<serial, born>>
  PROVE  OrderInv'
<1> USE DEF OrderInv
<1>1. \A p \in Operators : p = o
  BY DEF OneOperator
<1>2. PICK n \in Notices : n = hand[o]
  BY DEF PlaceInv, PlaceTypes
<1>3. n \notin queue /\ n # None /\ queue \subseteq Notices
  BY <1>2, QueueAssumption DEF PlaceInv, PlaceTypes, ApartInv
<1>4. r \in Int /\ r <= serial /\ \A m \in queue : r < rank[m]
  BY DEF IsFront
<1>5. /\ queue' = queue \cup {n} /\ rank' = [rank EXCEPT ![n] = r]
      /\ UNCHANGED <<serial, born>> /\ Finish(o)
  BY <1>2 DEF Insert
<1>6. /\ pc'[o] = "idle" /\ hand'[o] = None
      /\ shown' \in [Operators -> Notices \cup {None}] /\ floor' \in [Operators -> Int]
  BY <1>5 DEF Finish, Goto, PlaceInv, PlaceTypes, OrderTypes
<1>7. rank'[n] = r /\ \A m \in queue : rank'[m] = rank[m]
  BY <1>3, <1>5 DEF OrderTypes
<1>8. OrderTypes'
  <2>1. IsFiniteSet(queue')
    BY <1>5, FS_AddElement DEF OrderTypes
  <2>2. rank' \in [Notices -> Int]
    BY <1>4, <1>5 DEF OrderTypes
  <2>3. \A m \in queue' : rank'[m] <= serial
    BY <1>4, <1>5, <1>7 DEF OrderTypes
  <2>4. QED
    BY <1>5, <1>6, <2>1, <2>2, <2>3 DEF OrderTypes
<1>9. InOrder'
  <2>1. \A m \in queue : Same(n, m) => Ahead(n, m)'
    BY <1>2, <1>3, <1>4, <1>5, <1>7 DEF InOrder, Ahead
  <2>2. \A k, m \in queue : Ahead(k, m)' <=> Ahead(k, m)
    BY <1>5, <1>7 DEF Ahead
  <2>3. QED
    BY <1>1, <1>5, <1>6, <2>1, <2>2 DEF InOrder, Same
<1>10. ActsOn(o)'
  BY <1>6 DEF ActsOn
<1>11. QED
  BY <1>1, <1>8, <1>9, <1>10

LEMMA OperatorKeepsOrder ==
  ASSUME OneOperator, PlaceInv, OrderInv, NEW o \in Operators, Operator(o)
  PROVE  OrderInv'
<1>1. \A p \in Operators : p = o
  BY DEF OneOperator
<1>2. ASSUME UNCHANGED queueVars, hand' = hand, ActsOn(o)',
             shown' \in [Operators -> Notices \cup {None}], floor' \in [Operators -> Int]
      PROVE  OrderInv'
  BY <1>1, <1>2 DEF OrderInv, OrderTypes, InOrder, Ahead, Same, queueVars
<1>3. ASSUME NEW n \in Notices, View(o, n) PROVE OrderInv'
  <2>1. /\ UNCHANGED queueVars /\ hand' = hand /\ Oldest(n)
        /\ pc'[o] = "viewing" /\ shown'[o] = n
        /\ shown' \in [Operators -> Notices \cup {None}] /\ floor' \in [Operators -> Int]
    BY <1>3 DEF View, Goto, PlaceInv, PlaceTypes, OrderInv, OrderTypes
  <2>2. hand[o] = None
    BY <1>3 DEF View, PlaceInv, HandInv
  <2>3. ActsOn(o)'
    BY <2>1, <2>2 DEF ActsOn, Oldest, queueVars
  <2>4. QED
    BY <1>2, <2>1, <2>3
<1>4. CASE Approve(o)
  <2>1. CASE kill
    BY <1>4, <2>1, FinishKeepsOrder DEF Approve, queueVars
  <2>2. CASE ~kill
    <3>1. /\ UNCHANGED <<queueVars, shown, hand, floor>>
          /\ pc[o] = "viewing" /\ pc'[o] = "pop"
      BY <1>4, <2>2 DEF Approve, Goto, PlaceInv, PlaceTypes
    <3>2. ActsOn(o)'
      BY <3>1 DEF ActsOn, Oldest, queueVars, OrderInv
    <3>3. QED
      BY <1>2, <3>1, <3>2 DEF OrderInv, OrderTypes
  <2>3. QED
    BY <2>1, <2>2
<1>5. CASE Pop(o)
  BY <1>5, PopKeepsOrder
<1>6. CASE PopNothing(o) \/ Delivered(o) \/ Leave(o)
  BY <1>6, FinishKeepsOrder DEF PopNothing, Delivered, Leave, queueVars
<1>7. CASE DispatchFails(o)
  <2>1. UNCHANGED <<queueVars, shown, hand, floor>> /\ pc'[o] = "requeue"
    BY <1>7 DEF DispatchFails, Goto, PlaceInv, PlaceTypes
  <2>2. ActsOn(o)'
    BY <2>1 DEF ActsOn, OrderInv
  <2>3. QED
    BY <1>2, <2>1, <2>2 DEF OrderInv, OrderTypes
<1>8. CASE RequeueInMemory(o)
  <2>1. hand[o] # None /\ IsFront(Head)
    BY <1>8, HeadIsAhead DEF RequeueInMemory, PlaceInv, PlaceTypes, HandInv, OrderInv
  <2>2. QED
    BY <1>8, <2>1, RequeueKeepsOrder DEF RequeueInMemory
<1>9. CASE ReadFloor(o)
  <2>1. UNCHANGED <<queueVars, shown, hand>> /\ pc[o] = "requeue" /\ pc'[o] = "insert"
    BY <1>9 DEF ReadFloor, Goto, PlaceInv, PlaceTypes
  <2>2. IsFront(Head) /\ floor' = [floor EXCEPT ![o] = Head]
    BY <1>9, HeadIsAhead DEF ReadFloor, PlaceInv, PlaceTypes, OrderInv, OrderTypes
  <2>3. ActsOn(o)'
    BY <2>1, <2>2 DEF ActsOn, IsFront, queueVars, OrderInv, OrderTypes
  <2>4. QED
    BY <1>2, <2>1, <2>2, <2>3 DEF OrderInv, OrderTypes, IsFront
<1>10. CASE RequeueRow(o)
  <2>1. hand[o] # None /\ IsFront(floor[o])
    BY <1>10 DEF RequeueRow, PlaceInv, HandInv, OrderInv, ActsOn
  <2>2. \A n \in queue : rank[n] # floor[o]
    BY <2>1 DEF IsFront, PlaceInv, PlaceTypes, OrderInv, OrderTypes
  <2>3. QED
    BY <1>10, <2>1, <2>2, RequeueKeepsOrder DEF RequeueRow
<1>11. CASE Reject(o)
  BY <1>11, FinishKeepsOrder DEF Reject
<1>12. CASE ApproveRaises(o)
  BY <1>12, FinishKeepsOrder DEF ApproveRaises, queueVars
<1>13. QED
  BY <1>3, <1>4, <1>5, <1>6, <1>7, <1>8, <1>9, <1>10, <1>11, <1>12 DEF Operator

(* A notice that is new goes behind all that wait. *)
LEMMA QueueKeepsOrder ==
  ASSUME PlaceInv, OrderInv, Queue
  PROVE  OrderInv'
<1> USE DEF OrderInv
<1>1. PICK n \in Notices : n = turn
  BY DEF Queue, PlaceInv, PlaceTypes
<1>2. n \notin queue /\ queue \subseteq Notices /\ \A o \in Operators : hand[o] # n
  BY <1>1, QueueAssumption DEF Queue, PlaceInv, PlaceTypes, ApartInv
<1>3. /\ serial' = serial + 1 /\ serial' \in Nat /\ queue' = queue \cup {n}
      /\ rank' = [rank EXCEPT ![n] = serial'] /\ born' = [born EXCEPT ![n] = serial']
      /\ UNCHANGED <<pc, shown, hand, floor>>
  BY <1>1 DEF Queue, Insert, requestVars, OrderTypes
<1>4. /\ rank'[n] = serial + 1 /\ born'[n] = serial + 1
      /\ \A m \in Notices \ {n} : rank'[m] = rank[m] /\ born'[m] = born[m]
  BY <1>3 DEF OrderTypes
<1>5. OrderTypes'
  <2>1. IsFiniteSet(queue')
    BY <1>3, FS_AddElement DEF OrderTypes
  <2>2. rank' \in [Notices -> Int] /\ born' \in [Notices -> Nat]
    BY <1>3 DEF OrderTypes
  <2>3. \A m \in Notices : born[m] \in Nat /\ rank[m] \in Int /\ serial \in Nat
    BY DEF OrderTypes
  <2>4. \A m \in Notices : born'[m] <= serial'
    BY <1>3, <1>4, <2>3 DEF OrderTypes
  <2>5. \A m \in queue' : rank'[m] <= serial'
    BY <1>2, <1>3, <1>4, <2>3 DEF OrderTypes
  <2>6. QED
    BY <1>3, <2>1, <2>2, <2>4, <2>5 DEF OrderTypes
<1>6. \A m \in queue : Ahead(m, n)'
  BY <1>2, <1>4 DEF Ahead, OrderTypes
<1>7. \A k, m \in queue : Ahead(k, m)' <=> Ahead(k, m)
  BY <1>2, <1>4 DEF Ahead
<1>8. \A o \in Operators : hand[o] # None =>
        hand[o] \in Notices /\ born'[hand[o]] = born[hand[o]] /\ born[hand[o]] <= serial
                            /\ born[hand[o]] \in Nat
  BY <1>2, <1>4 DEF PlaceInv, PlaceTypes, OrderTypes
<1>9. InOrder'
  <2>1. \A m, k \in queue' : Same(m, k) => m = k \/ Ahead(m, k)' \/ Ahead(k, m)'
    BY <1>3, <1>6, <1>7 DEF InOrder, Same
  <2>2. ASSUME NEW o \in Operators, NEW m \in queue', hand[o] # None, Same(hand[o], m)
        PROVE  born'[hand[o]] < born'[m]
    <3>1. CASE m = n
      BY <1>4, <1>8, <2>2, <3>1 DEF OrderTypes
    <3>2. CASE m # n
      BY <1>2, <1>3, <1>4, <1>8, <2>2, <3>2 DEF InOrder
    <3>3. QED
      BY <3>1, <3>2
  <2>3. QED
    BY <1>3, <2>1, <2>2 DEF InOrder, Same
<1>10. ASSUME NEW o \in Operators PROVE ActsOn(o)'
  <2>1. ASSUME Oldest(shown[o]) PROVE Oldest(shown[o])'
    <3>1. shown[o] \in queue /\ rank'[shown[o]] = rank[shown[o]]
      BY <1>2, <1>4, <2>1 DEF Oldest
    <3>2. rank[shown[o]] < rank'[n]
      BY <1>2, <1>4, <3>1 DEF OrderTypes
    <3>3. ASSUME NEW m \in queue', DebtorOf[m] = DebtorOf[shown[o]]
          PROVE  rank'[shown[o]] <= rank'[m]
      <4>1. CASE m = n
        BY <1>2, <1>3, <1>4, <3>1, <3>2, <4>1 DEF OrderTypes
      <4>2. CASE m # n
        BY <1>2, <1>3, <1>4, <2>1, <3>1, <3>3, <4>2 DEF Oldest
      <4>3. QED
        BY <4>1, <4>2
    <3>4. QED
      BY <1>3, <3>1, <3>3 DEF Oldest
  <2>2. ASSUME IsFront(floor[o]) PROVE IsFront(floor[o])'
    BY <1>2, <1>3, <1>4, <2>2 DEF IsFront, OrderTypes
  <2>3. QED
    BY <1>3, <2>1, <2>2 DEF ActsOn
<1>11. QED
  BY <1>5, <1>9, <1>10

LEMMA OrderStep == OneOperator /\ PlaceInv /\ OrderInv /\ [Next]_vars => OrderInv'
<1> SUFFICES ASSUME OneOperator, PlaceInv, OrderInv, [Next]_vars
             PROVE  OrderInv'
  OBVIOUS
<1>1. ASSUME NEW n \in Notices, Consider(n) PROVE OrderInv'
  BY <1>1, SameOrder DEF Consider
<1>2. CASE Queue
  BY <1>2, QueueKeepsOrder
<1>3. CASE DispatchUnattended \/ SetKillSwitch \/ UNCHANGED vars
  BY <1>3, SameOrder DEF DispatchUnattended, SetKillSwitch, vars
<1>4. ASSUME NEW o \in Operators, Operator(o) PROVE OrderInv'
  BY <1>4, OperatorKeepsOrder
<1>5. CASE Crash
  <2>1. /\ queue' \subseteq queue /\ UNCHANGED <<rank, born, serial>>
        /\ \A o \in Operators : pc'[o] = "idle" /\ hand'[o] = None
        /\ shown' \in [Operators -> Notices \cup {None}] /\ floor' \in [Operators -> Int]
    BY <1>5 DEF Crash
  <2>2. OrderTypes'
    BY <2>1, FS_Subset DEF OrderInv, OrderTypes
  <2>3. InOrder' /\ \A o \in Operators : ActsOn(o)'
    BY <2>1 DEF OrderInv, InOrder, Ahead, Same, ActsOn
  <2>4. QED
    BY <2>2, <2>3 DEF OrderInv
<1>6. QED
  BY <1>1, <1>2, <1>3, <1>4, <1>5 DEF Next, Pipeline

(* With one operator, in both storage modes and whatever crashes, a notice *)
(* put back after a failed dispatch is ahead of what was queued after it   *)
(* (operator.py:176, store.py:286).                                        *)
THEOREM QueueIsFifoHolds ==
    ASSUME OneOperator
    PROVE  Spec => []QueueIsFifo
<1>1. PlaceInv /\ OrderInv /\ [Next]_vars => OrderInv'
  BY OrderStep, OneOperator
<1>2. PlaceInv /\ OrderInv => QueueIsFifo
  <2> SUFFICES ASSUME PlaceInv, OrderInv, NEW m \in queue, NEW n \in queue,
                      DebtorOf[m] = DebtorOf[n], born[m] < born[n]
               PROVE  rank[m] < rank[n]
    BY DEF QueueIsFifo
  <2>1. born[m] \in Nat /\ born[n] \in Nat
    BY DEF PlaceInv, PlaceTypes, OrderInv, OrderTypes
  <2>2. QED
    BY <2>1 DEF OrderInv, InOrder, Same, Ahead
<1> QED
  BY PlaceInit, PlaceStep, OrderInit, <1>1, <1>2, PTL DEF Spec

(* With one operator what is approved is what the page showed, although    *)
(* the request names the debtor alone (server.py:219).                     *)
THEOREM ApprovedWasShownHolds ==
    ASSUME OneOperator
    PROVE  Spec => []ApprovedWasShown
<1>1. PlaceInv /\ OrderInv /\ [Next]_vars => OrderInv'
  BY OrderStep, OneOperator
<1>2. OrderInv => ApprovedWasShown
  BY DEF OrderInv, ActsOn, ApprovedWasShown
<1> QED
  BY PlaceInit, PlaceStep, OrderInit, <1>1, <1>2, PTL DEF Spec
-----------------------------------------------------------------------------
(* Where the process lives a notice is lost only to an id that is taken    *)
(* when it goes back: in memory there are none, and one operator finds the *)
(* front of the queue where it left it.                                    *)
KeptInv ==
    /\ born \in [Notices -> Nat]
    /\ serial \in Nat
    /\ crashes \in 0..MaxCrashes
    /\ \A o \in Operators : pc[o] = "insert" => Durable
    /\ NoticeKept

FrontInv == OneOperator => OrderInv

LEMMA KeptInit == Init => KeptInv
  BY QueueAssumption DEF Init, KeptInv, NoticeKept

LEMMA OperatorKeepsNotices ==
    ASSUME ~MayLose, PlaceInv, FrontInv, KeptInv, NEW o \in Operators, Operator(o)
    PROVE  KeptInv'
<1> USE QueueAssumption DEF KeptInv, PlaceInv, PlaceTypes, PCs
<1>1. ASSUME UNCHANGED <<queueVars, hand, outcomeVars, crashes>>,
             \A p \in Operators : pc'[p] = "insert" => Durable
      PROVE  KeptInv'
  BY <1>1 DEF NoticeKept, queueVars, outcomeVars
<1>2. ASSUME NEW n \in Notices, View(o, n)
      PROVE  KeptInv'
  BY <1>1, <1>2 DEF View, Goto
<1>3. CASE Approve(o) \/ PopNothing(o) \/ Leave(o)
  <2>1. hand' = hand /\ \A p \in Operators : pc'[p] = "insert" => Durable
    BY <1>3 DEF Approve, PopNothing, Leave, Finish, Goto, HandInv
  <2> QED
    BY <1>1, <1>3, <2>1 DEF Approve, PopNothing, Leave
<1>4. CASE Pop(o)
  <2>1. PICK n \in queue : hand' = [hand EXCEPT ![o] = n] /\ queue' = queue \ {n}
    BY <1>4 DEF Pop
  <2>2. hand[o] = None
    BY <1>4 DEF Pop, HandInv
  <2>3. NoticeKept'
    BY <1>4, <2>1, <2>2 DEF Pop, NoticeKept, outcomeVars
  <2> QED
    BY <1>4, <2>3 DEF Pop, Goto
<1>5. CASE Delivered(o)
  <2>1. PICK n \in Notices : n = hand[o]
    BY <1>5 DEF Delivered, HandInv
  <2>2. hand' = [hand EXCEPT ![o] = None] /\ sent' = [sent EXCEPT ![n] = sent[n] + 1]
    BY <1>5, <2>1 DEF Delivered, Finish
  <2>3. sent[n] = unclear[n]
    BY <2>1 DEF UndecidedInv, Pending
  <2>4. NoticeKept'
    BY <1>5, <2>1, <2>2, <2>3 DEF Delivered, NoticeKept, queueVars
  <2> QED
    BY <1>5, <2>4 DEF Delivered, Finish, Goto, queueVars
<1>6. CASE DispatchFails(o)
  <2>1. PICK n \in Notices : n = hand[o]
    BY <1>6 DEF DispatchFails, HandInv
  <2>2. UNCHANGED <<hand, queue, rejected, broken, born>>
    BY <1>6 DEF DispatchFails, queueVars
  <2>3. \A m \in Notices : m # n => sent'[m] = sent[m] /\ unclear'[m] = unclear[m]
    BY <1>6, <2>1 DEF DispatchFails
  <2>4. NoticeKept'
    BY <2>1, <2>2, <2>3 DEF NoticeKept
  <2> QED
    BY <1>6, <2>4 DEF DispatchFails, Goto, queueVars
<1>7. CASE RequeueInMemory(o)
  <2>1. /\ hand' = [hand EXCEPT ![o] = None]
        /\ queue' = queue \cup {hand[o]}
    BY <1>7 DEF RequeueInMemory, Insert, Finish
  <2>2. NoticeKept'
    BY <1>7, <2>1 DEF RequeueInMemory, NoticeKept, outcomeVars
  <2> QED
    BY <1>7, <2>2 DEF RequeueInMemory, Finish, Goto
<1>8. CASE ReadFloor(o)
  BY <1>1, <1>8 DEF ReadFloor, Goto
<1>9. CASE RequeueRow(o)
  <2>1. pc[o] = "insert" /\ OneOperator
    BY <1>9 DEF RequeueRow, MayLose, OneOperator
  <2>2. \A n \in queue : rank[n] # floor[o]
    BY <2>1 DEF FrontInv, OrderInv, OrderTypes, ActsOn, IsFront
  <2>3. /\ hand' = [hand EXCEPT ![o] = None]
        /\ queue' = queue \cup {hand[o]}
    BY <1>9, <2>2 DEF RequeueRow, Insert, Finish
  <2>4. NoticeKept'
    BY <1>9, <2>3 DEF RequeueRow, NoticeKept, outcomeVars
  <2> QED
    BY <1>9, <2>4 DEF RequeueRow, Finish, Goto
<1>10. CASE Reject(o)
  <2>1. PICK n \in queue : queue' = queue \ {n} /\ rejected' = rejected \cup {n}
    BY <1>10 DEF Reject
  <2>2. hand' = hand
    BY <1>10 DEF Reject, Finish, HandInv
  <2>3. NoticeKept'
    BY <1>10, <2>1, <2>2 DEF Reject, NoticeKept
  <2> QED
    BY <1>10, <2>3 DEF Reject, Finish, Goto
<1>11. CASE ApproveRaises(o)
  <2>1. PICK n \in Notices : n = hand[o]
    BY <1>11 DEF ApproveRaises, HandInv
  <2>2. /\ hand' = [hand EXCEPT ![o] = None] /\ broken' = broken \cup {n}
        /\ UNCHANGED <<queueVars, rejected>>
    BY <1>11, <2>1 DEF ApproveRaises, Finish
  <2>3. \A m \in Notices : m # n => sent'[m] = sent[m] /\ unclear'[m] = unclear[m]
    BY <1>11, <2>1 DEF ApproveRaises
  <2>4. NoticeKept'
    BY <2>1, <2>2, <2>3 DEF NoticeKept, queueVars
  <2> QED
    BY <1>11, <2>2, <2>4 DEF ApproveRaises, Finish, Goto, queueVars
<1> QED
  BY <1>2, <1>3, <1>4, <1>5, <1>6, <1>7, <1>8, <1>9, <1>10, <1>11 DEF Operator

LEMMA KeptStep == ~MayLose /\ PlaceInv /\ FrontInv /\ KeptInv /\ [Next]_vars => KeptInv'
<1> SUFFICES ASSUME ~MayLose, PlaceInv, FrontInv, KeptInv, [Next]_vars
             PROVE  KeptInv'
  OBVIOUS
<1> USE QueueAssumption DEF KeptInv
<1>1. ASSUME NEW n \in Notices, Consider(n)
      PROVE  KeptInv'
  BY <1>1 DEF Consider, NoticeKept, queueVars, requestVars, outcomeVars
<1>2. CASE Queue
  <2>1. turn \in Notices
    BY <1>2 DEF Queue, PlaceInv, PlaceTypes
  <2>2. queue' = queue \cup {turn} /\ born' = [born EXCEPT ![turn] = serial']
    BY <1>2 DEF Queue, Insert
  <2>3. NoticeKept'
    BY <1>2, <2>1, <2>2 DEF Queue, NoticeKept, requestVars, outcomeVars
  <2>4. serial' \in Nat /\ UNCHANGED <<pc, crashes>>
    BY <1>2 DEF Queue, requestVars
  <2>5. born' \in [Notices -> Nat]
    BY <2>2, <2>4
  <2> QED
    BY <2>3, <2>4, <2>5
<1>3. CASE DispatchUnattended
  <2>1. turn \in Notices
    BY <1>3 DEF DispatchUnattended, PlaceInv, PlaceTypes
  <2>2. \A n \in Notices : sent'[n] >= sent[n] /\ sent'[n] \in Nat
    BY <1>3, <2>1 DEF DispatchUnattended, PlaceInv, PlaceTypes
  <2>3. NoticeKept'
    BY <1>3, <2>2 DEF DispatchUnattended, NoticeKept, queueVars, requestVars, PlaceInv,
       PlaceTypes
  <2> QED
    BY <1>3, <2>3 DEF DispatchUnattended, queueVars, requestVars
<1>4. CASE SetKillSwitch
  BY <1>4 DEF SetKillSwitch, NoticeKept, queueVars, requestVars, outcomeVars
<1>5. ASSUME NEW o \in Operators, Operator(o)
      PROVE  KeptInv'
  BY <1>5, OperatorKeepsNotices
<1>6. CASE Crash
  BY <1>6 DEF Crash, MayLose
<1>7. CASE UNCHANGED vars
  BY <1>7 DEF vars, NoticeKept, queueVars, requestVars, outcomeVars
<1> QED
  BY <1>1, <1>2, <1>3, <1>4, <1>5, <1>6, <1>7 DEF Next, Pipeline

(* While the process lives, a queued notice goes missing by no answer an   *)
(* operator is given, however many dispatches fail, and by no other        *)
(* request than its own that an exception ends: in memory whatever         *)
(* operators do at once, and in the database with one operator.            *)
THEOREM NoticesKept ==
    ASSUME ~MayLose
    PROVE  Spec => []NoticeKept
<1>1. Init => FrontInv
  BY OrderInit DEF FrontInv
<1>2. PlaceInv /\ FrontInv /\ [Next]_vars => FrontInv'
  BY OrderStep DEF FrontInv
<1>3. PlaceInv /\ FrontInv /\ KeptInv /\ [Next]_vars => KeptInv'
  BY KeptStep
<1>4. KeptInv => NoticeKept
  BY DEF KeptInv
<1> QED
  BY PlaceInit, PlaceStep, KeptInit, <1>1, <1>2, <1>3, <1>4, PTL DEF Spec
-----------------------------------------------------------------------------
(* What tells a notice that was queued from one that never was.            *)
BornInv ==
    /\ born \in [Notices -> Nat]
    /\ serial \in Nat
    /\ crashes \in Nat
    /\ \A n \in Notices : n \notin seen \/ n = turn => born[n] = 0
    /\ \A n \in Notices : Held(n) => born[n] > 0
    /\ \A o \in Operators : pc[o] = "insert" => Durable

LEMMA BornInit == Init => BornInv
  BY QueueAssumption DEF Init, BornInv, Held

LEMMA BornStep == ASSUME PlaceInv, BornInv, [Next]_vars PROVE BornInv'
<1> USE QueueAssumption DEF PlaceInv, PlaceTypes, BornInv
<1>1. ASSUME NEW n \in Notices, Consider(n) PROVE BornInv'
  BY <1>1 DEF Consider, queueVars, requestVars, Held, ApartInv
<1>2. CASE Queue
  <2>1. turn \in Notices /\ serial' = serial + 1 /\ serial' \in Nat /\ serial' > 0
    BY <1>2 DEF Queue
  <2>2. /\ queue' = queue \cup {turn} /\ born' = [born EXCEPT ![turn] = serial']
        /\ turn' = None /\ UNCHANGED <<seen, pc, hand, crashes>>
    BY <1>2 DEF Queue, Insert, requestVars
  <2>3. born' \in [Notices -> Nat] /\ born'[turn] > 0
    BY <2>1, <2>2
  <2>4. \A n \in Notices : n \notin seen' \/ n = turn' => born'[n] = 0
    BY <2>1, <2>2 DEF ApartInv
  <2>5. \A n \in Notices : Held(n)' => born'[n] > 0
    BY <2>1, <2>2, <2>3 DEF Held
  <2>6. QED
    BY <2>1, <2>2, <2>3, <2>4, <2>5
<1>3. CASE DispatchUnattended
  BY <1>3 DEF DispatchUnattended, queueVars, requestVars, Held
<1>4. CASE SetKillSwitch \/ UNCHANGED vars
  BY <1>4 DEF SetKillSwitch, vars, pipeVars, queueVars, requestVars, Held
<1>5. ASSUME NEW o \in Operators, Operator(o) PROVE BornInv'
  <2>1. UNCHANGED <<pipeVars, serial, born, crashes>>
    BY <1>5 DEF Operator, View, Approve, Pop, PopNothing, Delivered, DispatchFails,
       ApproveRaises, RequeueInMemory, ReadFloor, RequeueRow, Reject, Leave, queueVars
  <2>2. \A n \in Notices : Held(n)' => Held(n)
    BY <1>5 DEF Operator, View, Approve, Pop, PopNothing, Delivered, DispatchFails,
       ApproveRaises, RequeueInMemory, ReadFloor, RequeueRow, Reject, Leave, queueVars,
       Finish, Insert, Held
  <2>3. \A p \in Operators : pc'[p] = "insert" => Durable
    BY <1>5 DEF Operator, View, Approve, Pop, PopNothing, Delivered, DispatchFails,
       ApproveRaises, RequeueInMemory, ReadFloor, RequeueRow, Reject, Leave, Finish, Goto
  <2>4. QED
    BY <2>1, <2>2, <2>3 DEF pipeVars
<1>6. CASE Crash
  <2>1. \A n \in Notices : Held(n)' => Held(n)
    BY <1>6 DEF Crash, Held
  <2>2. QED
    BY <1>6, <2>1 DEF Crash
<1>7. QED
  BY <1>1, <1>2, <1>3, <1>4, <1>5, <1>6 DEF Next, Pipeline

(* A notice nothing is done about stays where it is. *)
Untouched(n) ==
    /\ n \in seen' <=> n \in seen
    /\ n = turn' <=> n = turn
    /\ Held(n)' <=> Held(n)
    /\ n \in rejected' <=> n \in rejected
    /\ n \in broken' <=> n \in broken
    /\ sent'[n] = sent[n] /\ unclear'[n] = unclear[n]
    /\ born'[n] = born[n]

LEMMA UntouchedStays ==
  ASSUME NEW n \in Notices, Untouched(n)
  PROVE  Fate(n)' = Fate(n)
  BY DEF Untouched, Fate

LEMMA NoneTouched ==
  ASSUME \A n \in Notices : Untouched(n), UNCHANGED <<sent, unclear>>
  PROVE  UNCHANGED Book!bookVars
<1>1. Fates' = Fates
  BY UntouchedStays DEF Fates
<1>2. QED
  BY <1>1 DEF Book!bookVars

LEMMA OneTouched ==
  ASSUME NEW n \in Notices, \A m \in Notices \ {n} : Untouched(m)
  PROVE  Book!Turn(n, Fate(n), Fate(n)')
<1>1. \A m \in Notices \ {n} : Fate(m)' = Fate(m)
  BY UntouchedStays
<1>2. Fates' = [Fates EXCEPT ![n] = Fate(n)']
  BY <1>1 DEF Fates
<1>3. Fates[n] = Fate(n)
  BY DEF Fates
<1>4. QED
  BY <1>2, <1>3 DEF Book!Turn

(* A notice somewhere is where Fate says, and undecided. *)
LEMMA FateOfPending ==
  ASSUME PlaceInv, NEW n \in Notices
  PROVE  /\ n \notin seen => Fate(n) = "new" /\ ~Held(n) /\ n # turn
         /\ n = turn => Fate(n) = "drafted" /\ n \in seen /\ ~Held(n)
         /\ Held(n) => Fate(n) = "waiting" /\ n \in seen /\ n # turn
         /\ Pending(n) => /\ sent[n] = unclear[n] /\ sent[n] \in Nat
                          /\ n \notin rejected /\ n \notin broken
<1> USE QueueAssumption DEF PlaceInv, PlaceTypes
<1>1. n \notin seen => ~Held(n) /\ n # turn
  BY DEF ApartInv, Held
<1>2. n = turn => n \in seen /\ ~Held(n)
  BY DEF ApartInv, Held
<1>3. Held(n) => n \in seen /\ n # turn
  BY <1>1, <1>2
<1>4. Pending(n) => /\ sent[n] = unclear[n] /\ sent[n] \in Nat
                    /\ n \notin rejected /\ n \notin broken
  BY DEF UndecidedInv
<1>5. QED
  BY <1>1, <1>2, <1>3, <1>4 DEF Fate

LEMMA PipelineBooks ==
  ASSUME PlaceInv, BornInv, Pipeline
  PROVE  Book!BookNext
<1> USE QueueAssumption
<1>1. ASSUME NEW n \in Notices, Consider(n) PROVE Book!BookNext
  <2>1. /\ turn = None /\ n \notin seen /\ seen' = seen \cup {n}
        /\ turn' = IF kill THEN None ELSE n
        /\ UNCHANGED <<queueVars, requestVars, outcomeVars>>
    BY <1>1 DEF Consider
  <2>2. \A m \in Notices : Held(m)' <=> Held(m)
    BY <2>1 DEF Held, queueVars, requestVars
  <2>3. \A m \in Notices \ {n} : Untouched(m)
    BY <2>1, <2>2 DEF Untouched, queueVars, outcomeVars
  <2>4. /\ Fate(n) = "new" /\ ~Held(n) /\ sent[n] = unclear[n] /\ sent[n] \in Nat
        /\ n \notin rejected /\ n \notin broken
    BY <2>1, FateOfPending DEF Pending
  <2>5. Fate(n)' = IF kill THEN "dropped" ELSE "drafted"
    BY <2>1, <2>2, <2>4 DEF Fate, BornInv, queueVars, outcomeVars
  <2>6. Book!Turn(n, "new", Fate(n)')
    BY <2>3, <2>4, OneTouched
  <2>7. Book!Reach(n)
    BY <2>1, <2>5, <2>6 DEF Book!Reach, outcomeVars
  <2>8. QED
    BY <2>7 DEF Book!BookNext
<1>2. CASE Queue
  <2>1. PICK n \in Notices : n = turn
    BY <1>2 DEF Queue, PlaceInv, PlaceTypes
  <2>2. /\ turn = n /\ turn' = None /\ queue' = queue \cup {n}
        /\ serial' = serial + 1 /\ born' = [born EXCEPT ![n] = serial']
        /\ UNCHANGED <<seen, requestVars, outcomeVars>>
    BY <1>2, <2>1 DEF Queue, Insert
  <2>3. \A m \in Notices \ {n} : Untouched(m)
    BY <2>2 DEF Untouched, Held, requestVars, outcomeVars, BornInv
  <2>4. Fate(n) = "drafted" /\ n \in seen
    BY <2>2, FateOfPending
  <2>5. Fate(n)' = "waiting"
    BY <2>2, <2>4 DEF Fate, Held
  <2>6. Book!Turn(n, "drafted", "waiting")
    BY <2>2, <2>3, <2>4, <2>5, OneTouched
  <2>7. Book!Submit(n)
    BY <2>2, <2>6 DEF Book!Submit, outcomeVars
  <2>8. QED
    BY <2>2, <2>7 DEF Book!BookNext
<1>3. CASE DispatchUnattended
  <2>1. PICK n \in Notices : n = turn
    BY <1>3 DEF DispatchUnattended, PlaceInv, PlaceTypes
  <2>2. /\ turn = n /\ turn' = None
        /\ \/ sent' = [sent EXCEPT ![n] = sent[n] + 1]
           \/ sent' = sent
        /\ UNCHANGED <<seen, queueVars, requestVars, rejected, unclear, broken>>
    BY <1>3, <2>1 DEF DispatchUnattended
  <2>3. \A m \in Notices : Held(m)' <=> Held(m)
    BY <2>2 DEF Held, queueVars, requestVars
  <2>4. \A m \in Notices \ {n} : Untouched(m)
    BY <2>2, <2>3 DEF Untouched, queueVars, PlaceInv, PlaceTypes
  <2>5. /\ Fate(n) = "drafted" /\ ~Held(n) /\ n \in seen
        /\ sent[n] = unclear[n] /\ sent[n] \in Nat
        /\ n \notin rejected /\ n \notin broken
    BY <2>2, FateOfPending DEF Pending
  <2>6. born'[n] = 0
    BY <2>2 DEF BornInv, queueVars
  <2>7. CASE sent' = sent
    <3>1. Fate(n)' = "dropped"
      BY <2>2, <2>3, <2>5, <2>6, <2>7 DEF Fate
    <3>2. Book!Turn(n, "drafted", "dropped")
      BY <2>2, <2>4, <2>5, <3>1, OneTouched
    <3>3. QED
      BY <2>2, <2>7, <3>2 DEF Book!Drop, Book!BookNext
  <2>8. CASE sent' = [sent EXCEPT ![n] = sent[n] + 1]
    <3>1. sent'[n] > unclear'[n]
      BY <2>2, <2>5, <2>8 DEF PlaceInv, PlaceTypes
    <3>2. Fate(n)' = "sent"
      BY <2>2, <2>3, <2>5, <3>1 DEF Fate
    <3>3. Book!Turn(n, "drafted", "sent")
      BY <2>2, <2>4, <2>5, <3>2, OneTouched
    <3>4. QED
      BY <2>2, <2>8, <3>3 DEF Book!Send, Book!BookNext
  <2>9. QED
    BY <2>2, <2>7, <2>8
<1>4. QED
  BY <1>1, <1>2, <1>3 DEF Pipeline

(* An operator's request moves one notice in the book, or none. *)
LEMMA OperatorBooks ==
  ASSUME PlaceInv, BornInv, FrontInv, NEW o \in Operators, Operator(o)
  PROVE  Book!BookNext \/ UNCHANGED Book!bookVars
<1> USE QueueAssumption
<1>1. UNCHANGED <<seen, turn, born>>
  BY DEF Operator, View, Approve, Pop, PopNothing, Delivered, DispatchFails,
     ApproveRaises, RequeueInMemory, ReadFloor, RequeueRow, Reject, Leave, queueVars, pipeVars
<1>2. ASSUME \A m \in Notices : Held(m)' <=> Held(m), UNCHANGED outcomeVars
      PROVE  UNCHANGED Book!bookVars
  BY <1>1, <1>2, NoneTouched DEF Untouched, outcomeVars
<1>3. CASE (\E n \in Notices : View(o, n)) \/ Approve(o) \/ PopNothing(o) \/ ReadFloor(o)
           \/ Leave(o)
  <2>1. hand' = hand
    BY <1>3 DEF View, Approve, PopNothing, ReadFloor, Leave, Finish, PlaceInv, PlaceTypes,
       HandInv
  <2>2. queue' = queue /\ UNCHANGED outcomeVars
    BY <1>3 DEF View, Approve, PopNothing, ReadFloor, Leave, queueVars
  <2>3. QED
    BY <1>2, <2>1, <2>2 DEF Held
<1>4. CASE Pop(o)
  <2>1. PICK n \in queue : hand' = [hand EXCEPT ![o] = n] /\ queue' = queue \ {n}
    BY <1>4 DEF Pop
  <2>2. hand[o] = None
    BY <1>4 DEF Pop, PlaceInv, HandInv
  <2>3. \A m \in Notices : Held(m)' <=> Held(m)
    BY <2>1, <2>2 DEF Held, PlaceInv, PlaceTypes
  <2>4. QED
    BY <1>2, <1>4, <2>3 DEF Pop
<1>5. CASE Delivered(o)
  <2>1. PICK n \in Notices : n = hand[o]
    BY <1>5 DEF Delivered, PlaceInv, PlaceTypes, HandInv
  <2>2. /\ hand' = [hand EXCEPT ![o] = None] /\ sent' = [sent EXCEPT ![n] = sent[n] + 1]
        /\ UNCHANGED <<queue, rejected, unclear, broken>>
    BY <1>5, <2>1 DEF Delivered, Finish, queueVars
  <2>3. Held(n) /\ Pending(n)
    BY <2>1 DEF Held, Pending
  <2>4. /\ Fate(n) = "waiting" /\ n \in seen /\ n # turn
        /\ sent[n] = unclear[n] /\ sent[n] \in Nat
        /\ n \notin rejected /\ n \notin broken
    BY <2>3, FateOfPending
  <2>5. ~Held(n)'
    BY <2>1, <2>2 DEF Held, PlaceInv, PlaceTypes, ApartInv
  <2>6. \A m \in Notices \ {n} : Untouched(m)
    BY <1>1, <2>1, <2>2 DEF Untouched, Held, PlaceInv, PlaceTypes
  <2>7. sent'[n] > unclear'[n]
    BY <2>2, <2>4 DEF PlaceInv, PlaceTypes
  <2>8. Fate(n)' = "sent"
    BY <1>1, <2>2, <2>4, <2>5, <2>7 DEF Fate
  <2>9. Book!Turn(n, "waiting", "sent")
    BY <2>4, <2>6, <2>8, OneTouched
  <2>10. QED
    BY <2>2, <2>9 DEF Book!Send, Book!BookNext
<1>6. CASE DispatchFails(o)
  <2>1. PICK n \in Notices : n = hand[o]
    BY <1>6 DEF DispatchFails, PlaceInv, PlaceTypes, HandInv
  <2>2. UNCHANGED <<queue, hand, rejected, broken>>
    BY <1>6 DEF DispatchFails, queueVars
  <2>3. \A m \in Notices : Held(m)' <=> Held(m)
    BY <2>2 DEF Held
  <2>4. CASE UNCHANGED <<sent, unclear>>
    BY <1>2, <2>2, <2>3, <2>4 DEF outcomeVars
  <2>5. CASE /\ sent' = [sent EXCEPT ![hand[o]] = sent[hand[o]] + 1]
             /\ unclear' = [unclear EXCEPT ![hand[o]] = unclear[hand[o]] + 1]
    <3>1. Fate(n) = "waiting" /\ n \in seen /\ n # turn /\ Held(n)
      BY <2>1, FateOfPending DEF Held
    <3>2. Fate(n)' = "waiting"
      BY <1>1, <2>3, <3>1 DEF Fate
    <3>3. \A m \in Notices \ {n} : Untouched(m)
      BY <1>1, <2>1, <2>2, <2>3, <2>5 DEF Untouched, PlaceInv, PlaceTypes
    <3>4. Fates' = Fates
      BY <3>1, <3>2, <3>3, UntouchedStays DEF Fates
    <3>5. Fates[n] = "waiting"
      BY <3>1 DEF Fates
    <3>6. Book!SendUnknown(n)
      BY <2>1, <2>5, <3>4, <3>5 DEF Book!SendUnknown
    <3>7. QED
      BY <3>6 DEF Book!BookNext
  <2>6. QED
    BY <1>6, <2>4, <2>5 DEF DispatchFails
<1>7. ASSUME hand[o] # None, hand' = [hand EXCEPT ![o] = None],
             queue' = queue \cup {hand[o]}, UNCHANGED outcomeVars
      PROVE  UNCHANGED Book!bookVars
  <2>1. \A m \in Notices : Held(m)' <=> Held(m)
    BY <1>7 DEF Held, PlaceInv, PlaceTypes
  <2>2. QED
    BY <1>2, <1>7, <2>1
<1>8. CASE RequeueInMemory(o)
  BY <1>7, <1>8 DEF RequeueInMemory, Insert, Finish, PlaceInv, HandInv
<1>9. CASE RequeueRow(o)
  <2>1. pc[o] = "insert" /\ hand[o] # None /\ UNCHANGED outcomeVars
        /\ hand' = [hand EXCEPT ![o] = None]
    BY <1>9 DEF RequeueRow, Finish, PlaceInv, HandInv
  <2>2. CASE \A n \in queue : rank[n] # floor[o]
    <3>1. queue' = queue \cup {hand[o]}
      BY <1>9, <2>2 DEF RequeueRow, Insert
    <3>2. QED
      BY <1>7, <2>1, <3>1
  <2>3. CASE \E n \in queue : rank[n] = floor[o]
    <3>1. MayLose
      <4>1. Durable
        BY <2>1 DEF BornInv
      <4>2. ~OneOperator
        BY <2>1, <2>3 DEF FrontInv, OrderInv, OrderTypes, ActsOn, IsFront
      <4>3. QED
        BY <4>1, <4>2 DEF MayLose, OneOperator
    <3>2. PICK n \in Notices : n = hand[o]
      BY <2>1 DEF PlaceInv, PlaceTypes
    <3>3. queue' = queue
      BY <1>9, <2>3 DEF RequeueRow
    <3>4. Held(n) /\ Pending(n)
      BY <3>2 DEF Held, Pending
    <3>5. /\ Fate(n) = "waiting" /\ n \in seen /\ n # turn
          /\ sent[n] = unclear[n] /\ sent[n] \in Nat
        /\ n \notin rejected /\ n \notin broken
      BY <3>4, FateOfPending
    <3>6. ~Held(n)' /\ born[n] > 0
      BY <2>1, <3>2, <3>3, <3>4 DEF Held, PlaceInv, PlaceTypes, ApartInv, BornInv
    <3>7. Fate(n)' = "lost"
      BY <1>1, <2>1, <3>5, <3>6 DEF Fate, outcomeVars
    <3>8. \A m \in Notices \ {n} : Untouched(m)
      BY <1>1, <2>1, <3>2, <3>3 DEF Untouched, Held, outcomeVars, PlaceInv, PlaceTypes
    <3>9. Fates' = [m \in Notices |-> IF m \notin {n} THEN Fates[m]
                                      ELSE IF Fates[m] = "drafted" THEN "dropped" ELSE "lost"]
      BY <3>5, <3>7, <3>8, UntouchedStays DEF Fates
    <3>10. {n} \in SUBSET {m \in Notices : Fates[m] \in {"drafted", "waiting"}}
      BY <3>5 DEF Fates
    <3>11. Book!Lose
      BY <2>1, <3>1, <3>9, <3>10 DEF Book!Lose, outcomeVars
    <3>12. QED
      BY <3>11 DEF Book!BookNext
  <2>4. QED
    BY <2>2, <2>3
<1>10. CASE Reject(o)
  <2>1. PICK n \in queue : queue' = queue \ {n} /\ rejected' = rejected \cup {n}
    BY <1>10 DEF Reject
  <2>2. n \in Notices /\ UNCHANGED <<sent, unclear, broken>> /\ hand' = hand
    BY <1>10 DEF Reject, Finish, PlaceInv, PlaceTypes, HandInv
  <2>3. Held(n) /\ Fate(n) = "waiting" /\ n \in seen /\ n # turn
    BY <2>2, FateOfPending DEF Held
  <2>4. ~Held(n)'
    BY <2>1, <2>2 DEF Held, PlaceInv, ApartInv
  <2>5. Fate(n)' = "rejected"
    BY <1>1, <2>1, <2>3, <2>4 DEF Fate
  <2>6. \A m \in Notices \ {n} : Untouched(m)
    BY <1>1, <2>1, <2>2 DEF Untouched, Held
  <2>7. Book!Turn(n, "waiting", "rejected")
    BY <2>2, <2>3, <2>5, <2>6, OneTouched
  <2>8. QED
    BY <2>2, <2>7 DEF Book!Refuse, Book!BookNext
<1>11. CASE ApproveRaises(o)
  <2>1. PICK n \in Notices : n = hand[o]
    BY <1>11 DEF ApproveRaises, PlaceInv, PlaceTypes, HandInv
  <2>2. /\ hand' = [hand EXCEPT ![o] = None] /\ broken' = broken \cup {n}
        /\ UNCHANGED <<queue, rejected>>
    BY <1>11, <2>1 DEF ApproveRaises, Finish, queueVars
  <2>3. \/ UNCHANGED <<sent, unclear>>
        \/ /\ sent' = [sent EXCEPT ![n] = sent[n] + 1]
           /\ unclear' = [unclear EXCEPT ![n] = unclear[n] + 1]
    BY <1>11, <2>1 DEF ApproveRaises
  <2>4. Held(n)
    BY <2>1 DEF Held
  <2>5. Fate(n) = "waiting" /\ n \in seen /\ n # turn /\ n \notin rejected
    BY <2>4, FateOfPending DEF Pending, Held
  <2>6. ~Held(n)'
    BY <2>1, <2>2 DEF Held, PlaceInv, PlaceTypes, ApartInv
  <2>7. Fate(n)' = "broken"
    BY <1>1, <2>2, <2>5, <2>6 DEF Fate
  <2>8. \A m \in Notices \ {n} : Untouched(m)
    BY <1>1, <2>1, <2>2, <2>3 DEF Untouched, Held, PlaceInv, PlaceTypes
  <2>9. Book!Turn(n, "waiting", "broken")
    BY <2>5, <2>7, <2>8, OneTouched
  <2>10. QED
    BY <2>3, <2>9 DEF Book!Break, Book!BookNext
<1>12. QED
  BY <1>3, <1>4, <1>5, <1>6, <1>8, <1>9, <1>10, <1>11 DEF Operator

(* A crash loses what was in turn, in a hand or in the memory's queue. *)
LEMMA CrashBooks ==
  ASSUME PlaceInv, BornInv, Crash
  PROVE  Book!BookNext
<1> USE QueueAssumption
<1> DEFINE gone == {n \in Notices : n = turn \/ (Held(n) /\ n \notin queue')}
<1>1. MayLose
  BY DEF Crash, MayLose, BornInv
<1>2. /\ turn' = None /\ hand' = [o \in Operators |-> None]
      /\ queue' \subseteq queue /\ UNCHANGED <<seen, born, outcomeVars>>
  BY DEF Crash
<1>3. \A n \in Notices : Held(n)' <=> n \in queue'
  BY <1>2 DEF Held
<1>4. \A n \in gone : Fate(n) = IF n = turn THEN "drafted" ELSE "waiting"
  BY FateOfPending
<1>5. \A n \in gone : Fate(n)' = IF n = turn THEN "dropped" ELSE "lost"
  <2> SUFFICES ASSUME NEW n \in gone
               PROVE  Fate(n)' = IF n = turn THEN "dropped" ELSE "lost"
    OBVIOUS
  <2>1. /\ n \in seen /\ n # None /\ Pending(n)
        /\ sent[n] = unclear[n] /\ sent[n] \in Nat
        /\ n \notin rejected /\ n \notin broken
    BY FateOfPending DEF Pending, Held
  <2>2. ~Held(n)'
    BY <1>2, <1>3, FateOfPending DEF Held
  <2>3. IF n = turn THEN born[n] = 0 ELSE born[n] > 0
    BY DEF BornInv
  <2>4. QED
    BY <1>2, <2>1, <2>2, <2>3 DEF Fate, outcomeVars
<1>6. \A n \in Notices \ gone : Untouched(n)
  BY <1>2, <1>3 DEF Untouched, Held, outcomeVars
<1>7. Fates' = [n \in Notices |-> IF n \notin gone THEN Fates[n]
                                  ELSE IF Fates[n] = "drafted" THEN "dropped" ELSE "lost"]
  <2> HIDE DEF gone
  <2>1. gone \subseteq Notices
    BY DEF gone
  <2>2. QED
    BY <1>4, <1>5, <1>6, <2>1, UntouchedStays DEF Fates
<1>8. gone \in SUBSET {n \in Notices : Fates[n] \in {"drafted", "waiting"}}
  BY <1>4 DEF Fates
<1>9. Book!Lose
  <2> HIDE DEF gone
  <2>1. QED
    BY <1>1, <1>2, <1>7, <1>8 DEF Book!Lose, outcomeVars
<1>10. QED
  BY <1>9 DEF Book!BookNext

LEMMA BookStep ==
  ASSUME PlaceInv, BornInv, FrontInv, [Next]_vars
  PROVE  [Book!BookNext]_(Book!bookVars)
<1>1. CASE SetKillSwitch \/ UNCHANGED vars
  BY <1>1, NoneTouched
     DEF SetKillSwitch, vars, pipeVars, queueVars, requestVars, outcomeVars, Untouched, Held
<1>2. QED
  BY <1>1, PipelineBooks, OperatorBooks, CrashBooks DEF Next

(* Every behaviour of the queue, for any operators, failures, exceptions,  *)
(* crashes and either storage, is one of NoticeBook: a notice is decided   *)
(* once and for good; one that waits is broken by the exception that ends  *)
(* its own request, and unless the process may die or two operators meet   *)
(* in the table none is lost besides.                                      *)
THEOREM QueueImplementsNoticeBook == Spec => ImplementsNoticeBook
<1>1. Init => Book!BookInit /\ FrontInv
  <2>1. Init => FrontInv
    BY OrderInit DEF FrontInv
  <2>2. ASSUME Init PROVE Book!BookInit
    <3>1. \A n \in Notices : Fate(n) = "new"
      BY <2>2 DEF Init, Fate
    <3>2. Fates = [n \in Notices |-> "new"]
      BY <3>1 DEF Fates
    <3>3. QED
      BY <2>2, <3>2 DEF Init, Book!BookInit
  <2>3. QED
    BY <2>1, <2>2
<1>2. PlaceInv /\ FrontInv /\ [Next]_vars => FrontInv'
  BY OrderStep DEF FrontInv
<1>3. PlaceInv /\ BornInv /\ [Next]_vars => BornInv'
  BY BornStep
<1>4. PlaceInv /\ BornInv /\ FrontInv /\ [Next]_vars => [Book!BookNext]_(Book!bookVars)
  BY BookStep
<1> QED
  BY PlaceInit, PlaceStep, BornInit, <1>1, <1>2, <1>3, <1>4, PTL
     DEF Spec, ImplementsNoticeBook, Book!BookSpec
=============================================================================
