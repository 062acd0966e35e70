-------------------------- MODULE SettlementProofs --------------------------
(***************************************************************************)
(* Settlement proved for every number of orders, deliveries and requests.  *)
(* One process takes the deliveries: with more, ClaimLookup and            *)
(* ClaimInsert of two processes interleave and CountedOnce is false        *)
(* (claim_race.cfg).  The routes may be served by any others.              *)
(***************************************************************************)
EXTENDS Settlement, SumProofs, TLAPS

OneInstance == \A i, j \in Instances : i = j

OneReceiver == \A g, h \in Hooks : Home[g] = Home[h]

(* What a request at each program counter carries. *)
RequestInv ==
    /\ \A h \in Hooks : pc[h] # "idle" => arg[h] \in Orders
    /\ \A h \in Hooks : pc[h] = "log" => kind[h] \in {"partial", "confirmed"}
    /\ \A h \in Hooks : pc[h] \in {"settle", "build", "save"} =>
                            kind[h] \in {"partial", "confirmed"}
    /\ \A h \in Hooks : pc[h] \notin {"check", "write", "reply"}
    /\ \A t \in Threads : pc[t] \in {"write", "build", "save", "reply"} =>
                            kind[t] \in {"order", "promise", "dispute"}
    /\ \A t \in Threads : pc[t] \in {"write", "build", "save", "reply"} /\ kind[t] = "order"
                            => arg[t] \in Orders

TypeInv == TypeOK /\ RequestInv

LEMMA ReceiverOfOne == ASSUME OneInstance PROVE OneReceiver
  BY RequestsAssumption DEF OneInstance, OneReceiver, Requests

LEMMA SeedIsRecord == Seed \in Record
  BY DEF Seed, Record, Statuses

LEMMA FoldedIsRecord ==
  ASSUME NEW m \in Record, NEW s \in Record
  PROVE  /\ Folded(m, s) \in Record
         /\ Folded(m, s).received = s.received
  BY DEF Folded, Record

LEMMA WithStatusIsRecord ==
  ASSUME NEW m \in Record, NEW s \in Statuses
  PROVE  /\ WithStatus(m, s) \in Record
         /\ WithStatus(m, s).received = m.received
  BY DEF WithStatus, Record

LEMMA AssignedIsRecord ==
  ASSUME NEW t, NEW m \in Record, kind[t] \in {"order", "promise", "dispute"},
         kind[t] = "order" => arg[t] \in Orders
  PROVE  /\ Assigned(t, m) \in Record
         /\ Assigned(t, m).received = m.received
<1>1. CASE kind[t] = "order"
  BY <1>1 DEF Assigned, Record
<1>2. CASE kind[t] # "order"
  <2> DEFINE s == IF kind[t] = "promise" THEN "PROMISED" ELSE "DISPUTED"
  <2>1. s \in Statuses
    BY DEF Statuses
  <2>2. Assigned(t, m) = WithStatus(m, s)
    BY <1>2 DEF Assigned
  <2> HIDE DEF s
  <2>3. QED
    BY <2>1, <2>2, WithStatusIsRecord
<1>3. QED
  BY <1>1, <1>2

LEMMA CreditedIsRecord ==
  ASSUME NEW m \in Record, NEW o \in Orders
  PROVE  /\ Credited(m, o) \in Record
         /\ Credited(m, o).received = [m.received EXCEPT ![o] = @ + 1]
  BY DEF Credited, Record

LEMMA TypeInit == Init => TypeInv
<1> SUFFICES ASSUME Init PROVE TypeInv
  OBVIOUS
<1>1. TypeOK
  <2>1. /\ mem \in [Instances -> Record] /\ row \in Record
        /\ snap \in [Requests -> Record]
    BY SeedIsRecord DEF Init
  <2>2. /\ claimed \subseteq Orders /\ log \subseteq LogEntry
        /\ lock \in [Instances -> Hooks \cup {None}]
    BY DEF Init
  <2>3. stored \in BOOLEAN
    BY Zenon DEF Init
  <2>4. faults \in 0..MaxFaults
    BY SizesAssumption DEF Init
  <2>5. /\ stage \in [Orders -> Stages] /\ amount \in [Orders -> Nat]
        /\ pc \in [Requests -> PCs] /\ kind \in [Requests -> Kinds]
        /\ arg \in [Requests -> Orders \cup {None}]
    BY DEF Init, Stages, PCs, Kinds
  <2>6. QED
    BY <2>1, <2>2, <2>3, <2>4, <2>5 DEF TypeOK
<1>2. RequestInv
  BY DEF Init, RequestInv, Requests
<1>3. QED
  BY <1>1, <1>2 DEF TypeInv

LEMMA TypeStep == TypeInv /\ [Next]_vars => TypeInv'
<1> SUFFICES ASSUME TypeInv, [Next]_vars PROVE TypeInv'
  OBVIOUS
<1> USE RequestsAssumption, SizesAssumption DEF TypeInv, TypeOK, RequestInv
<1>1. ASSUME NEW o \in Orders, Capture(o) PROVE TypeInv'
  BY <1>1 DEF Capture, sharedVars, requestVars, Stages
<1>2. ASSUME NEW h \in Hooks, NEW o \in Orders, Deliver(h, o) PROVE TypeInv'
  BY <1>2 DEF Deliver, Goto, sharedVars, gatewayVars, Requests, PCs, Kinds
<1>3. ASSUME NEW t \in Threads, NEW k \in {"order", "promise", "dispute", "page"}, Arrive(t, k)
      PROVE TypeInv'
  BY <1>3 DEF Arrive, Goto, sharedVars, gatewayVars, Requests, PCs, Kinds
<1>4. ASSUME NEW p \in Requests, LoadRow(p) PROVE TypeInv'
  BY <1>4 DEF LoadRow, Goto, sharedVars, gatewayVars, Requests, PCs
<1>5. ASSUME NEW p \in Requests, FoldRow(p) PROVE TypeInv'
  BY <1>5, SeedIsRecord, FoldedIsRecord DEF FoldRow, Goto, gatewayVars, Requests, PCs
<1>6. ASSUME NEW p \in Requests, BuildState(p) PROVE TypeInv'
  BY <1>6 DEF BuildState, Goto, sharedVars, gatewayVars, Requests, PCs
<1>7. ASSUME NEW p \in Requests, SaveRow(p) PROVE TypeInv'
  BY <1>7, SeedIsRecord DEF SaveRow, Goto, gatewayVars, Requests, PCs
<1>8. ASSUME NEW h \in Hooks, MatchOrder(h) PROVE TypeInv'
  BY <1>8 DEF MatchOrder, Goto, sharedVars, gatewayVars, Requests, PCs
<1>9. ASSUME NEW h \in Hooks, UnmatchedOrder(h) PROVE TypeInv'
  BY <1>9 DEF UnmatchedOrder, Goto, gatewayVars, Requests, PCs, LogEntry
<1>10. ASSUME NEW h \in Hooks, Acquire(h) PROVE TypeInv'
  BY <1>10 DEF Acquire, Goto, gatewayVars, Requests, PCs
<1>11. ASSUME NEW h \in Hooks, ClaimInList(h) PROVE TypeInv'
  BY <1>11 DEF ClaimInList, Goto, gatewayVars, Requests, PCs
<1>12. ASSUME NEW h \in Hooks, ClaimLookup(h) PROVE TypeInv'
  BY <1>12 DEF ClaimLookup, Goto, sharedVars, gatewayVars, Requests, PCs
<1>13. ASSUME NEW h \in Hooks, ClaimInsert(h) PROVE TypeInv'
  BY <1>13 DEF ClaimInsert, Goto, gatewayVars, Requests, PCs
<1>14. ASSUME NEW h \in Hooks, IgnoreDuplicate(h) PROVE TypeInv'
  BY <1>14 DEF IgnoreDuplicate, Goto, Release, gatewayVars, Requests, PCs, LogEntry
<1>15. ASSUME NEW h \in Hooks, CreditCapture(h) PROVE TypeInv'
  <2>1. mem' \in [Instances -> Record]
    BY <1>15, CreditedIsRecord DEF CreditCapture, Requests
  <2>2. QED
    BY <1>15, <2>1 DEF CreditCapture, Goto, gatewayVars, Requests, PCs, Kinds
<1>16. ASSUME NEW h \in Hooks, SettleStatus(h) PROVE TypeInv'
  <2>1. SettledStatus(h) \in Statuses
    BY DEF SettledStatus, Statuses
  <2>2. mem' \in [Instances -> Record]
    BY <1>16, <2>1, WithStatusIsRecord DEF SettleStatus, Requests
  <2>3. QED
    BY <1>16, <2>2 DEF SettleStatus, Goto, gatewayVars, Requests, PCs
<1>17. ASSUME NEW h \in Hooks, LogSettlement(h) PROVE TypeInv'
  BY <1>17 DEF LogSettlement, Goto, Release, gatewayVars, Requests, PCs, LogEntry
<1>18. ASSUME NEW h \in Hooks, Acknowledge(h) PROVE TypeInv'
  BY <1>18, SeedIsRecord
     DEF Acknowledge, Finish, Goto, sharedVars, Requests, PCs, Kinds, Stages
<1>19. ASSUME NEW t \in Threads, EndUnwritten(t) PROVE TypeInv'
  BY <1>19, SeedIsRecord
     DEF EndUnwritten, Finish, Goto, sharedVars, gatewayVars, Requests, PCs, Kinds
<1>20. ASSUME NEW t \in Threads, CheckOrder(t) PROVE TypeInv'
  BY <1>20 DEF CheckOrder, Goto, sharedVars, Requests, PCs, Stages
<1>21. ASSUME NEW t \in Threads, CheckMutation(t) PROVE TypeInv'
  BY <1>21 DEF CheckMutation, Goto, sharedVars, gatewayVars, Requests, PCs
<1>22. ASSUME NEW t \in Threads, Write(t) PROVE TypeInv'
  <2>1. mem' \in [Instances -> Record]
    BY <1>22, AssignedIsRecord DEF Write, Requests
  <2>2. QED
    BY <1>22, <2>1 DEF Write, Goto, gatewayVars, Requests, PCs
<1>23. ASSUME NEW t \in Threads, Reply(t) PROVE TypeInv'
  BY <1>23, SeedIsRecord DEF Reply, Finish, Goto, sharedVars, Requests, PCs, Kinds, Stages
<1>24. ASSUME NEW p \in Requests, StoreFails(p) PROVE TypeInv'
  BY <1>24, SeedIsRecord
     DEF StoreFails, Finish, Goto, Release, gatewayVars, Requests, PCs, Kinds
<1>25. ASSUME NEW i \in Instances, Crash(i) PROVE TypeInv'
  BY <1>25, SeedIsRecord DEF Crash, gatewayVars, Requests, PCs, Kinds
<1>26. CASE UNCHANGED vars
  BY <1>26 DEF vars, sharedVars, gatewayVars, requestVars
<1>27. QED
  BY <1>1, <1>2, <1>3, <1>4, <1>5, <1>6, <1>7, <1>8, <1>9, <1>10, <1>11, <1>12, <1>13,
     <1>14, <1>15, <1>16, <1>17, <1>18, <1>19, <1>20, <1>21, <1>22, <1>23, <1>24, <1>25,
     <1>26
     DEF Next, Webhook, Route, Hydrate, Persist, Requests

(* Every variable keeps its type, and every request under way for an order *)
(* knows which one: the handlers of app/server.py cannot lose their        *)
(* argument between two store calls.                                       *)
THEOREM TypeCorrect == Spec => []TypeOK
<1>1. TypeInv => TypeOK
  BY DEF TypeInv
<1>2. QED
  BY <1>1, TypeInit, TypeStep, PTL DEF Spec
-----------------------------------------------------------------------------
LockInv == \A h \in Hooks : pc[h] \in Critical => lock[Home[h]] = h

(* A copy counts an order once at most, only a claimed one, and not yet    *)
(* one that a delivery is about to credit.                                 *)
CopyOK(c) ==
    \A o \in Orders :
        /\ c.received[o] \in {0, 1}
        /\ c.received[o] = 1 => o \in claimed
        /\ \A h \in Hooks : pc[h] = "credit" /\ arg[h] = o => c.received[o] = 0

(* Without a database no request carries a state dict. *)
FileInv ==
    ~Durable => /\ row = Seed
                /\ \A p \in Requests :
                    snap[p] = Seed /\ pc[p] \notin {"load", "fold", "build", "save", "insert"}

CountInv ==
    /\ \A i \in Instances : CopyOK(mem[i])
    /\ CopyOK(row)
    /\ \A p \in Requests : CopyOK(snap[p])
    /\ \A h \in Hooks : pc[h] = "insert" => arg[h] \notin claimed
    /\ \A h \in Hooks : pc[h] = "credit" => arg[h] \in claimed

SettleInv == TypeInv /\ LockInv /\ FileInv /\ CountInv

LEMMA SettleInit == Init => SettleInv
<1> SUFFICES ASSUME Init PROVE SettleInv
  OBVIOUS
<1>1. TypeInv
  BY TypeInit
<1>2. LockInv /\ FileInv
  BY DEF Init, LockInv, FileInv, Critical, Requests
<1>3. CountInv
  BY DEF Init, CountInv, CopyOK, Seed, Requests
<1>4. QED
  BY <1>1, <1>2, <1>3 DEF SettleInv

(* The lock excludes: a second delivery of the same process is outside. *)
LEMMA Exclusion ==
  ASSUME OneReceiver, TypeInv, LockInv,
         NEW h \in Hooks, NEW g \in Hooks, pc[h] \in Critical, pc[g] \in Critical
  PROVE  h = g
  BY DEF OneReceiver, LockInv

LEMMA LockStep == ASSUME OneReceiver, TypeInv, LockInv, [Next]_vars PROVE LockInv'
<1> USE RequestsAssumption DEF TypeInv, TypeOK, LockInv, Critical, Requests
<1>1. ASSUME NEW p \in Requests, LoadRow(p) \/ FoldRow(p) \/ BuildState(p) \/ SaveRow(p)
      PROVE  LockInv'
  BY <1>1 DEF LoadRow, FoldRow, BuildState, SaveRow, Goto, sharedVars
<1>2. ASSUME NEW h \in Hooks, Acquire(h) PROVE LockInv'
  BY <1>2 DEF Acquire, Goto, OneReceiver
<1>3. ASSUME NEW h \in Hooks, MatchOrder(h) \/ UnmatchedOrder(h) \/ ClaimInList(h)
                             \/ ClaimLookup(h) \/ ClaimInsert(h)
      PROVE  LockInv'
  BY <1>3 DEF MatchOrder, UnmatchedOrder, ClaimInList, ClaimLookup, ClaimInsert, Goto, sharedVars
<1>4. ASSUME NEW h \in Hooks, CreditCapture(h) \/ SettleStatus(h) PROVE LockInv'
  BY <1>4 DEF CreditCapture, SettleStatus, Goto
<1>5. ASSUME NEW h \in Hooks, IgnoreDuplicate(h) \/ LogSettlement(h) PROVE LockInv'
  BY <1>5 DEF IgnoreDuplicate, LogSettlement, Goto, Release
<1>6. ASSUME NEW h \in Hooks, Acknowledge(h) PROVE LockInv'
  BY <1>6 DEF Acknowledge, Finish, Goto, sharedVars
<1>7. ASSUME NEW t \in Threads, Route(t) PROVE LockInv'
  <2>1. CASE LoadRow(t) \/ FoldRow(t) \/ BuildState(t) \/ SaveRow(t)
    BY <1>1, <2>1
  <2>2. CASE EndUnwritten(t) \/ CheckOrder(t) \/ CheckMutation(t) \/ Write(t) \/ Reply(t)
    BY <2>2 DEF EndUnwritten, CheckOrder, CheckMutation, Write, Reply, Finish, Goto, sharedVars
  <2>3. QED
    BY <1>7, <2>1, <2>2 DEF Route, Hydrate, Persist
<1>8. ASSUME NEW p \in Requests, StoreFails(p) PROVE LockInv'
  BY <1>8 DEF StoreFails, Finish, Goto, Release
<1>9. ASSUME NEW i \in Instances, Crash(i) PROVE LockInv'
  BY <1>9 DEF Crash
<1>10. ASSUME NEW o \in Orders, Capture(o) PROVE LockInv'
  BY <1>10 DEF Capture, sharedVars, requestVars
<1>11. ASSUME NEW h \in Hooks, NEW o \in Orders, Deliver(h, o) PROVE LockInv'
  BY <1>11 DEF Deliver, Goto, sharedVars
<1>12. ASSUME NEW t \in Threads, NEW k \in {"order", "promise", "dispute", "page"}, Arrive(t, k)
       PROVE  LockInv'
  BY <1>12 DEF Arrive, Goto, sharedVars
<1>13. CASE UNCHANGED vars
  BY <1>13 DEF vars, sharedVars, requestVars
<1>14. QED
  BY <1>1, <1>2, <1>3, <1>4, <1>5, <1>6, <1>7, <1>8, <1>9, <1>10, <1>11, <1>12, <1>13
     DEF Next, Webhook, Hydrate, Persist

(* Without a database the row and the state dicts stay untouched. *)
LEMMA FileStep == ASSUME TypeInv, FileInv, [Next]_vars PROVE FileInv'
<1> SUFFICES ASSUME ~Durable
             PROVE  /\ row' = Seed
                    /\ \A p \in Requests : /\ snap'[p] = Seed
                          /\ pc'[p] \notin {"load", "fold", "build", "save", "insert"}
  BY DEF FileInv
<1> USE RequestsAssumption DEF TypeInv, TypeOK, FileInv, Requests
<1>1. ASSUME NEW p \in Requests, LoadRow(p) \/ FoldRow(p) \/ BuildState(p) \/ SaveRow(p)
      PROVE  FALSE
  BY <1>1 DEF LoadRow, FoldRow, BuildState, SaveRow
<1>2. ASSUME NEW h \in Hooks, Webhook(h) PROVE FileInv'
  <2>1. CASE MatchOrder(h) \/ UnmatchedOrder(h) \/ Acquire(h) \/ ClaimInList(h)
             \/ ClaimLookup(h) \/ ClaimInsert(h) \/ IgnoreDuplicate(h)
    BY <2>1 DEF MatchOrder, UnmatchedOrder, Acquire, ClaimInList, ClaimLookup, ClaimInsert,
                IgnoreDuplicate, Goto, sharedVars
  <2>2. CASE CreditCapture(h) \/ SettleStatus(h) \/ LogSettlement(h)
    BY <2>2 DEF CreditCapture, SettleStatus, LogSettlement, Goto
  <2>3. CASE Acknowledge(h)
    BY <2>3 DEF Acknowledge, Finish, Goto, sharedVars
  <2>4. QED
    BY <1>1, <1>2, <2>1, <2>2, <2>3 DEF Webhook, Hydrate, Persist
<1>3. ASSUME NEW t \in Threads, Route(t) PROVE FileInv'
  <2>1. CASE EndUnwritten(t) \/ Reply(t)
    BY <2>1 DEF EndUnwritten, Reply, Finish, Goto, sharedVars
  <2>2. CASE CheckOrder(t) \/ CheckMutation(t) \/ Write(t)
    BY <2>2 DEF CheckOrder, CheckMutation, Write, Goto, sharedVars
  <2>3. QED
    BY <1>1, <1>3, <2>1, <2>2 DEF Route, Hydrate, Persist
<1>4. ASSUME NEW i \in Instances, Crash(i) PROVE FileInv'
  BY <1>4 DEF Crash
<1>5. CASE (\E o \in Orders : Capture(o)) \/ (\E h \in Hooks, o \in Orders : Deliver(h, o))
           \/ \E t \in Threads, k \in {"order", "promise", "dispute", "page"} : Arrive(t, k)
  BY <1>5 DEF Capture, Deliver, Arrive, Goto, sharedVars, requestVars
<1>6. ASSUME NEW p \in Requests, StoreFails(p) PROVE FileInv'
  BY <1>6 DEF StoreFails, Finish, Goto
<1>7. CASE UNCHANGED vars
  BY <1>7 DEF vars, sharedVars, requestVars
<1>8. QED
  BY <1>1, <1>2, <1>3, <1>4, <1>5, <1>6, <1>7 DEF Next, FileInv, Requests

(* A step that changes neither a copy nor the claims, and starts no claim, *)
(* keeps the counts.                                                       *)
LEMMA CountFrame ==
  ASSUME CountInv,
         UNCHANGED <<mem, row, snap, claimed>>,
         \A h \in Hooks : pc'[h] \in {"insert", "credit"} =>
                              pc[h] = pc'[h] /\ arg[h] = arg'[h]
  PROVE  CountInv'
  BY DEF CountInv, CopyOK

LEMMA CountStep ==
  ASSUME OneReceiver, TypeInv, TypeInv', LockInv, FileInv, CountInv, [Next]_vars
  PROVE  CountInv'
<1> USE RequestsAssumption DEF Requests
<1>1. ASSUME NEW o \in Orders, Capture(o) PROVE CountInv'
  BY <1>1, CountFrame DEF Capture, sharedVars, requestVars
<1>2. ASSUME NEW h \in Hooks, NEW o \in Orders, Deliver(h, o) PROVE CountInv'
  BY <1>2, CountFrame DEF Deliver, Goto, sharedVars, TypeInv, TypeOK
<1>3. ASSUME NEW t \in Threads, NEW k \in {"order", "promise", "dispute", "page"}, Arrive(t, k)
      PROVE  CountInv'
  BY <1>3, CountFrame DEF Arrive, Goto, sharedVars, TypeInv, TypeOK
<1>4. ASSUME NEW p \in Requests, LoadRow(p) PROVE CountInv'
  BY <1>4 DEF LoadRow, Goto, sharedVars, TypeInv, TypeOK, CountInv, CopyOK
<1>5. ASSUME NEW p \in Requests, FoldRow(p) PROVE CountInv'
  BY <1>5, FoldedIsRecord DEF FoldRow, Goto, TypeInv, TypeOK, CountInv, CopyOK, Seed
<1>6. ASSUME NEW p \in Requests, BuildState(p) PROVE CountInv'
  BY <1>6 DEF BuildState, Goto, sharedVars, TypeInv, TypeOK, CountInv, CopyOK
<1>7. ASSUME NEW p \in Requests, SaveRow(p) PROVE CountInv'
  BY <1>7 DEF SaveRow, Goto, TypeInv, TypeOK, CountInv, CopyOK, Seed
<1>8. ASSUME NEW h \in Hooks,
             MatchOrder(h) \/ UnmatchedOrder(h) \/ Acquire(h) \/ IgnoreDuplicate(h)
               \/ LogSettlement(h)
      PROVE  CountInv'
  BY <1>8, CountFrame
     DEF MatchOrder, UnmatchedOrder, Acquire, IgnoreDuplicate, LogSettlement, Goto, sharedVars,
         TypeInv, TypeOK
<1>9. ASSUME NEW h \in Hooks, ClaimInList(h) PROVE CountInv'
  <2>1. CASE pc' = [pc EXCEPT ![h] = "ignore"] /\ UNCHANGED claimed
    BY <1>9, <2>1, CountFrame DEF ClaimInList, TypeInv, TypeOK
  <2>2. CASE arg[h] \notin claimed /\ pc' = [pc EXCEPT ![h] = "credit"]
             /\ claimed' = claimed \cup {arg[h]}
    <3>1. UNCHANGED <<mem, row, snap, arg>>
      BY <1>9 DEF ClaimInList
    <3>2. \A g \in Hooks : pc'[g] = "credit" => g = h \/ pc[g] = "credit"
      BY <2>2 DEF TypeInv, TypeOK
    <3>3. \A g \in Hooks : pc'[g] # "insert"
      BY <1>9, <2>2 DEF ClaimInList, FileInv, TypeInv, TypeOK
    <3>4. QED
      BY <2>2, <3>1, <3>2, <3>3 DEF CountInv, CopyOK, TypeInv, RequestInv
  <2>3. QED
    BY <1>9, <2>1, <2>2 DEF ClaimInList, Goto
<1>10. ASSUME NEW h \in Hooks, ClaimLookup(h) PROVE CountInv'
  BY <1>10 DEF ClaimLookup, Goto, sharedVars, TypeInv, TypeOK, CountInv, CopyOK
<1>11. ASSUME NEW h \in Hooks, ClaimInsert(h) PROVE CountInv'
  <2>1. \A g \in Hooks : pc[g] \in {"insert", "credit"} => g = h
    BY <1>11, Exclusion DEF ClaimInsert, Critical
  <2>2. /\ UNCHANGED <<mem, row, snap, arg>>
        /\ arg[h] \notin claimed
        /\ claimed' = claimed \cup {arg[h]}
        /\ \A g \in Hooks : pc'[g] = "credit" => g = h
        /\ \A g \in Hooks : pc'[g] # "insert"
    BY <1>11, <2>1 DEF ClaimInsert, Goto, CountInv, TypeInv, TypeOK
  <2>3. QED
    BY <2>2 DEF CountInv, CopyOK, TypeInv, RequestInv
<1>12. ASSUME NEW h \in Hooks, CreditCapture(h) PROVE CountInv'
  <2>1. \A g \in Hooks : pc[g] \in {"insert", "credit"} => g = h
    BY <1>12, Exclusion DEF CreditCapture, Critical
  <2>2. /\ UNCHANGED <<row, snap, arg, claimed>>
        /\ \A g \in Hooks : pc'[g] \notin {"insert", "credit"}
    BY <1>12, <2>1 DEF CreditCapture, Goto, TypeInv, TypeOK
  <2>3. \A i \in Instances, o \in Orders :
           \/ mem'[i].received[o] = mem[i].received[o]
           \/ o = arg[h] /\ mem'[i].received[o] = mem[i].received[o] + 1
    <3>1. arg[h] \in Orders /\ Home[h] \in Instances /\ mem[Home[h]] \in Record
      BY <1>12 DEF CreditCapture, TypeInv, TypeOK, RequestInv
    <3>2. Credited(mem[Home[h]], arg[h]).received
             = [mem[Home[h]].received EXCEPT ![arg[h]] = @ + 1]
      BY <3>1, CreditedIsRecord
    <3>3. mem[Home[h]].received \in [Orders -> Nat]
      BY <3>1 DEF Record
    <3>4. mem' = [mem EXCEPT ![Home[h]] = Credited(mem[Home[h]], arg[h])]
      BY <1>12 DEF CreditCapture
    <3>5. \A o \in Orders :
             \/ Credited(mem[Home[h]], arg[h]).received[o] = mem[Home[h]].received[o]
             \/ o = arg[h] /\ Credited(mem[Home[h]], arg[h]).received[o]
                                = mem[Home[h]].received[o] + 1
      BY <3>2, <3>3
    <3>6. QED
      BY <3>1, <3>4, <3>5 DEF TypeInv, TypeOK
  <2>4. arg[h] \in claimed /\ \A i \in Instances : mem[i].received[arg[h]] = 0
    BY <1>12 DEF CreditCapture, CountInv, CopyOK, TypeInv, RequestInv
  <2>5. \A i \in Instances : CopyOK(mem[i])'
    BY <2>2, <2>3, <2>4 DEF CountInv, CopyOK
  <2>6. QED
    BY <2>2, <2>5 DEF CountInv, CopyOK
<1>13. ASSUME NEW h \in Hooks, SettleStatus(h) PROVE CountInv'
  <2>1. SettledStatus(h) \in Statuses
    BY DEF SettledStatus, Statuses
  <2>2. \A i \in Instances : mem'[i].received = mem[i].received
    BY <1>13, <2>1, WithStatusIsRecord DEF SettleStatus, TypeInv, TypeOK
  <2>3. /\ UNCHANGED <<row, snap, arg, claimed>>
        /\ \A g \in Hooks : pc'[g] \in {"insert", "credit"} => pc[g] = pc'[g]
    BY <1>13 DEF SettleStatus, Goto, TypeInv, TypeOK
  <2>4. QED
    BY <2>2, <2>3 DEF CountInv, CopyOK
<1>14. ASSUME NEW h \in Hooks, Acknowledge(h) PROVE CountInv'
  <2>1. /\ UNCHANGED <<mem, row, claimed>>
        /\ snap' = [snap EXCEPT ![h] = Seed]
        /\ \A g \in Hooks : pc'[g] \in {"insert", "credit"} =>
                             pc[g] = pc'[g] /\ arg[g] = arg'[g]
    BY <1>14 DEF Acknowledge, Finish, Goto, sharedVars, TypeInv, TypeOK
  <2>2. QED
    BY <2>1 DEF CountInv, CopyOK, Seed, TypeInv, TypeOK
<1>15. ASSUME NEW t \in Threads, EndUnwritten(t) \/ Reply(t) PROVE CountInv'
  <2>1. /\ UNCHANGED <<mem, row, claimed>>
        /\ snap' = [snap EXCEPT ![t] = Seed]
        /\ \A g \in Hooks : pc'[g] = pc[g] /\ arg[g] = arg'[g]
    BY <1>15 DEF EndUnwritten, Reply, Finish, Goto, sharedVars, TypeInv, TypeOK
  <2>2. QED
    BY <2>1 DEF CountInv, CopyOK, Seed, TypeInv, TypeOK
<1>16. ASSUME NEW t \in Threads, CheckOrder(t) \/ CheckMutation(t) PROVE CountInv'
  BY <1>16, CountFrame DEF CheckOrder, CheckMutation, Goto, sharedVars, TypeInv, TypeOK
<1>17. ASSUME NEW t \in Threads, Write(t) PROVE CountInv'
  <2>1. \A i \in Instances : mem'[i].received = mem[i].received
    BY <1>17, AssignedIsRecord DEF Write, TypeInv, TypeOK, RequestInv
  <2>2. /\ UNCHANGED <<row, snap, arg, claimed>>
        /\ \A g \in Hooks : pc'[g] = pc[g]
    BY <1>17 DEF Write, Goto, TypeInv, TypeOK
  <2>3. QED
    BY <2>1, <2>2 DEF CountInv, CopyOK
<1>18. ASSUME NEW p \in Requests, StoreFails(p) PROVE CountInv'
  BY <1>18 DEF StoreFails, Finish, Goto, TypeInv, TypeOK, CountInv, CopyOK, Seed
<1>19. ASSUME NEW i \in Instances, Crash(i) PROVE CountInv'
  <2>1. /\ \A j \in Instances : mem'[j] \in {mem[j], Seed}
        /\ \A p \in Requests : snap'[p] \in {snap[p], Seed}
        /\ \A h \in Hooks : pc'[h] \in {"insert", "credit"} =>
                              pc[h] = pc'[h] /\ arg[h] = arg'[h]
        /\ row' = row
    BY <1>19 DEF Crash, TypeInv, TypeOK
  <2>2. CASE Durable
    <3>1. claimed' = claimed
      BY <1>19, <2>2 DEF Crash
    <3>2. QED
      BY <2>1, <3>1 DEF CountInv, CopyOK, Seed
  <2>3. CASE ~Durable
    <3>1. /\ \A j \in Instances : mem'[j] = Seed
          /\ \A p \in Requests : snap'[p] = Seed /\ pc'[p] = "idle"
          /\ row' = Seed
      BY <1>19, <2>1, <2>3, FileModeAssumption DEF Crash, FileInv, TypeInv, TypeOK
    <3>2. QED
      BY <3>1 DEF CountInv, CopyOK, Seed
  <2>4. QED
    BY <2>2, <2>3
<1>20. CASE UNCHANGED vars
  BY <1>20, CountFrame DEF vars, sharedVars, requestVars
<1>21. QED
  BY <1>1, <1>2, <1>3, <1>4, <1>5, <1>6, <1>7, <1>8, <1>9, <1>10, <1>11, <1>12, <1>13,
     <1>14, <1>15, <1>16, <1>17, <1>18, <1>19, <1>20
     DEF Next, Webhook, Route, Hydrate, Persist

LEMMA SettleStep == ASSUME OneReceiver, SettleInv, [Next]_vars PROVE SettleInv'
  BY TypeStep, LockStep, FileStep, CountStep DEF SettleInv

(* As long as one process takes the deliveries no capture is ever counted  *)
(* twice, in any copy of the invoice in any process, whatever crashes,     *)
(* store errors, redeliveries and requests happen: the replay guard and    *)
(* the lock of suppress_on_settlement.                                     *)
THEOREM CountedOnceHolds ==
  ASSUME OneReceiver
  PROVE  Spec => []CountedOnce
<1>1. SettleInv => CountedOnce
  BY DEF SettleInv, CountInv, CopyOK, CountedOnce, Copies
<1>2. SettleInv /\ [Next]_vars => SettleInv'
  BY SettleStep
<1>3. QED
  BY <1>1, <1>2, SettleInit, PTL DEF Spec

-----------------------------------------------------------------------------
(* The order a request works on is where the request's program counter     *)
(* says it is, and two routes never hold the same order.                   *)
Placing(t) == kind[t] = "order" /\ pc[t] \in {"write", "build", "save", "reply"}

OrderInv ==
    /\ \A h \in Hooks : pc[h] # "idle" => stage[arg[h]] \in {"captured", "acked"}
    /\ \A t \in Threads : Placing(t) => stage[arg[t]] = "issued"
    /\ \A t, u \in Threads : Placing(t) /\ Placing(u) /\ arg[t] = arg[u] => t = u

BookInv == SettleInv /\ OrderInv

LEMMA BookInitial == Init => BookInv
  BY SettleInit DEF BookInv, OrderInv, Placing, Init, Requests

LEMMA OrderStep == ASSUME TypeInv, OrderInv, [Next]_vars PROVE OrderInv'
<1> USE RequestsAssumption DEF Requests, TypeInv, TypeOK, RequestInv, OrderInv, Placing
<1>1. ASSUME NEW o \in Orders, Capture(o) PROVE OrderInv'
  BY <1>1 DEF Capture, requestVars
<1>2. ASSUME NEW h \in Hooks, NEW o \in Orders, Deliver(h, o) PROVE OrderInv'
  BY <1>2 DEF Deliver, Goto, gatewayVars
<1>3. ASSUME NEW t \in Threads, NEW k \in {"order", "promise", "dispute", "page"}, Arrive(t, k)
      PROVE  OrderInv'
  BY <1>3 DEF Arrive, Goto, gatewayVars
<1>4. ASSUME NEW p \in Requests, LoadRow(p) \/ FoldRow(p) \/ BuildState(p) \/ SaveRow(p)
      PROVE  OrderInv'
  BY <1>4 DEF LoadRow, FoldRow, BuildState, SaveRow, Goto, gatewayVars
<1>5. ASSUME NEW h \in Hooks,
             MatchOrder(h) \/ UnmatchedOrder(h) \/ Acquire(h) \/ ClaimInList(h) \/ ClaimLookup(h)
      PROVE  OrderInv'
  BY <1>5 DEF MatchOrder, UnmatchedOrder, Acquire, ClaimInList, ClaimLookup, Goto, gatewayVars
<1>6. ASSUME NEW h \in Hooks, ClaimInsert(h) \/ IgnoreDuplicate(h) \/ SettleStatus(h)
             \/ LogSettlement(h)
      PROVE  OrderInv'
  BY <1>6 DEF ClaimInsert, IgnoreDuplicate, SettleStatus, LogSettlement, Goto, gatewayVars
<1>7. ASSUME NEW h \in Hooks, CreditCapture(h) PROVE OrderInv'
  BY <1>7 DEF CreditCapture, Goto, gatewayVars
<1>8. ASSUME NEW h \in Hooks, Acknowledge(h) PROVE OrderInv'
  BY <1>8 DEF Acknowledge, Finish, Goto
<1>9. ASSUME NEW t \in Threads, EndUnwritten(t) \/ CheckMutation(t) \/ Write(t)
      PROVE  OrderInv'
  BY <1>9 DEF EndUnwritten, CheckMutation, Write, Finish, Goto, gatewayVars
<1>10. ASSUME NEW t \in Threads, CheckOrder(t) PROVE OrderInv'
  BY <1>10 DEF CheckOrder, Goto
<1>11. ASSUME NEW t \in Threads, Reply(t) PROVE OrderInv'
  BY <1>11 DEF Reply, Finish, Goto
<1>12. ASSUME NEW p \in Requests, StoreFails(p) PROVE OrderInv'
  BY <1>12 DEF StoreFails, Finish, Goto, gatewayVars
<1>13. ASSUME NEW i \in Instances, Crash(i) PROVE OrderInv'
  BY <1>13 DEF Crash, gatewayVars
<1>14. CASE UNCHANGED vars
  BY <1>14 DEF vars, gatewayVars, requestVars
<1>15. QED
  BY <1>1, <1>2, <1>3, <1>4, <1>5, <1>6, <1>7, <1>8, <1>9, <1>10, <1>11, <1>12, <1>13, <1>14
     DEF Next, Webhook, Route, Hydrate, Persist

(* A step that leaves Paid and the counts alone stutters in CaptureBook. *)
LEMMA BookStep ==
  ASSUME OneInstance, Instances # {}, ~Durable, ~MayCrash, BookInv, [Next]_vars
  PROVE  [Books!BookNext]_(Books!bookVars)
<1> DEFINE received == mem[TheProcess].received
<1> USE RequestsAssumption DEF Requests, BookInv, SettleInv
<1>1. TheProcess \in Instances
  BY DEF TheProcess
<1>2. ASSUME NEW o \in Orders, Capture(o) PROVE Books!TakeCapture(o)
  <2>1. o \notin Paid /\ Paid' = Paid \cup {o}
    BY <1>2 DEF Capture, Paid, TypeInv, TypeOK
  <2>2. received' = received
    BY <1>2 DEF Capture, sharedVars
  <2>3. QED
    BY <2>1, <2>2 DEF Books!TakeCapture
<1>3. ASSUME NEW h \in Hooks, CreditCapture(h) PROVE Books!CreditOnce(arg[h])
  <2>1. arg[h] \in Orders /\ Home[h] = TheProcess /\ mem[Home[h]] \in Record
    BY <1>1, <1>3 DEF CreditCapture, OneInstance, TypeInv, TypeOK, RequestInv
  <2>2. received[arg[h]] = 0
    BY <1>1, <1>3, <2>1 DEF CreditCapture, CountInv, CopyOK
  <2>3. arg[h] \in Paid /\ Paid' = Paid
    BY <1>3, <2>1 DEF CreditCapture, Paid, gatewayVars, OrderInv
  <2>4. received' = Credited(mem[Home[h]], arg[h]).received
    BY <1>1, <1>3, <2>1 DEF CreditCapture, TypeInv, TypeOK
  <2>5. received' = [received EXCEPT ![arg[h]] = @ + 1]
    BY <2>1, <2>4, CreditedIsRecord
  <2>6. received' = [received EXCEPT ![arg[h]] = 1]
    BY <2>2, <2>5
  <2>7. QED
    BY <2>2, <2>3, <2>6 DEF Books!CreditOnce
<1>4. ASSUME UNCHANGED <<stage, received>> PROVE UNCHANGED Books!bookVars
  BY <1>4 DEF Books!bookVars, Paid
<1>5. ASSUME NEW h \in Hooks, Webhook(h), ~CreditCapture(h) PROVE UNCHANGED Books!bookVars
  <2>1. CASE Hydrate(h) \/ Persist(h) \/ ClaimLookup(h) \/ ClaimInsert(h)
    BY <2>1 DEF Hydrate, Persist, LoadRow, FoldRow, BuildState, SaveRow, ClaimLookup, ClaimInsert,
                FileInv
  <2>2. CASE MatchOrder(h) \/ UnmatchedOrder(h) \/ Acquire(h) \/ ClaimInList(h)
             \/ IgnoreDuplicate(h) \/ LogSettlement(h)
    BY <2>2, <1>4 DEF MatchOrder, UnmatchedOrder, Acquire, ClaimInList, IgnoreDuplicate,
                      LogSettlement, sharedVars, gatewayVars
  <2>3. CASE SettleStatus(h)
    <3>1. SettledStatus(h) \in Statuses
      BY DEF SettledStatus, Statuses
    <3>2. received' = received
      BY <1>1, <2>3, <3>1, WithStatusIsRecord DEF SettleStatus, TypeInv, TypeOK
    <3>3. QED
      BY <1>4, <2>3, <3>2 DEF SettleStatus, gatewayVars
  <2>4. CASE Acknowledge(h)
    <3>1. Paid' = Paid
      BY <2>4 DEF Acknowledge, Paid, TypeInv, TypeOK, OrderInv
    <3>2. QED
      BY <2>4, <3>1 DEF Acknowledge, sharedVars, Books!bookVars
  <2>5. QED
    BY <1>5, <2>1, <2>2, <2>3, <2>4 DEF Webhook
<1>6. ASSUME NEW t \in Threads, Route(t) PROVE UNCHANGED Books!bookVars
  <2>1. CASE Hydrate(t) \/ Persist(t)
    BY <2>1 DEF Hydrate, Persist, LoadRow, FoldRow, BuildState, SaveRow, FileInv
  <2>2. CASE EndUnwritten(t) \/ CheckMutation(t)
    BY <2>2, <1>4 DEF EndUnwritten, CheckMutation, sharedVars, gatewayVars
  <2>3. CASE CheckOrder(t)
    <3>1. Paid' = Paid
      BY <2>3 DEF CheckOrder, Paid, TypeInv, TypeOK
    <3>2. QED
      BY <2>3, <3>1 DEF CheckOrder, sharedVars, Books!bookVars
  <2>4. CASE Write(t)
    <3>1. received' = received
      BY <1>1, <2>4, AssignedIsRecord DEF Write, TypeInv, TypeOK, RequestInv
    <3>2. QED
      BY <1>4, <2>4, <3>1 DEF Write, gatewayVars
  <2>5. CASE Reply(t)
    <3>1. Paid' = Paid
      BY <2>5 DEF Reply, Paid, TypeInv, TypeOK, OrderInv, Placing
    <3>2. QED
      BY <2>5, <3>1 DEF Reply, sharedVars, Books!bookVars
  <2>6. QED
    BY <1>6, <2>1, <2>2, <2>3, <2>4, <2>5 DEF Route
<1>7. CASE \/ \E h \in Hooks, o \in Orders : Deliver(h, o)
           \/ \E t \in Threads, k \in {"order", "promise", "dispute", "page"} : Arrive(t, k)
  BY <1>4, <1>7 DEF Deliver, Arrive, sharedVars, gatewayVars
<1>8. CASE (\E p \in Requests : StoreFails(p)) \/ \E i \in Instances : Crash(i)
  BY <1>4, <1>8 DEF StoreFails, Crash, gatewayVars
<1>9. CASE UNCHANGED vars
  BY <1>4, <1>9 DEF vars, sharedVars, gatewayVars
<1>10. CASE \E o \in Orders : Capture(o)
  BY <1>2, <1>10 DEF Books!BookNext
<1>11. CASE \E h \in Hooks : CreditCapture(h)
  <2>1. PICK h \in Hooks : CreditCapture(h)
    BY <1>11
  <2>2. arg[h] \in Orders
    BY <2>1 DEF CreditCapture, TypeInv, RequestInv
  <2>3. QED
    BY <1>3, <2>1, <2>2 DEF Books!BookNext
<1>12. QED
  BY <1>5, <1>6, <1>7, <1>8, <1>9, <1>10, <1>11 DEF Next

(* Without a database the process, while it lives, implements CaptureBook  *)
(* for any number of orders, redeliveries and concurrent routes, whatever  *)
(* audit row fails to be written: each capture is credited at most once,   *)
(* only after it happened, and no request takes a credit back.             *)
THEOREM FileModeImplementsCaptureBook ==
  ASSUME Instances # {}, ~Durable, ~MayCrash
  PROVE  Spec => ImplementsCaptureBook
<1>1. OneInstance
  BY FileModeAssumption DEF OneInstance
<1>2. Init => Books!BookInit
  BY DEF Init, Books!BookInit, Paid, Seed, TheProcess
<1>3. BookInv /\ [Next]_vars => BookInv'
  BY <1>1, ReceiverOfOne, SettleStep, OrderStep DEF BookInv, SettleInv
<1>4. BookInv /\ [Next]_vars => [Books!BookNext]_(Books!bookVars)
  BY <1>1, BookStep
<1>5. QED
  BY <1>2, <1>3, <1>4, BookInitial, PTL DEF Spec, ImplementsCaptureBook, Books!BookSpec

-----------------------------------------------------------------------------
LEMMA LockHeldStep == ASSUME TypeInv, LockHeldInside, [Next]_vars PROVE LockHeldInside'
<1> USE RequestsAssumption DEF TypeInv, TypeOK, LockHeldInside, Critical, Requests
<1>1. ASSUME NEW p \in Requests, LoadRow(p) \/ FoldRow(p) \/ BuildState(p) \/ SaveRow(p)
      PROVE  LockHeldInside'
  BY <1>1 DEF LoadRow, FoldRow, BuildState, SaveRow, Goto, sharedVars
<1>2. ASSUME NEW h \in Hooks, Acquire(h) PROVE LockHeldInside'
  BY <1>2 DEF Acquire, Goto
<1>3. ASSUME NEW h \in Hooks, MatchOrder(h) \/ UnmatchedOrder(h) \/ ClaimInList(h)
                             \/ ClaimLookup(h) \/ ClaimInsert(h)
      PROVE  LockHeldInside'
  BY <1>3 DEF MatchOrder, UnmatchedOrder, ClaimInList, ClaimLookup, ClaimInsert, Goto, sharedVars
<1>4. ASSUME NEW h \in Hooks, CreditCapture(h) \/ SettleStatus(h) PROVE LockHeldInside'
  BY <1>4 DEF CreditCapture, SettleStatus, Goto
<1>5. ASSUME NEW h \in Hooks, IgnoreDuplicate(h) \/ LogSettlement(h) PROVE LockHeldInside'
  BY <1>5 DEF IgnoreDuplicate, LogSettlement, Goto, Release
<1>6. ASSUME NEW h \in Hooks, Acknowledge(h) PROVE LockHeldInside'
  BY <1>6 DEF Acknowledge, Finish, Goto, sharedVars
<1>7. ASSUME NEW t \in Threads, Route(t) PROVE LockHeldInside'
  <2>1. CASE LoadRow(t) \/ FoldRow(t) \/ BuildState(t) \/ SaveRow(t)
    BY <1>1, <2>1
  <2>2. CASE EndUnwritten(t) \/ Reply(t)
    BY <2>2 DEF EndUnwritten, Reply, Finish, Goto, sharedVars
  <2>3. CASE CheckOrder(t) \/ CheckMutation(t) \/ Write(t)
    <3>1. UNCHANGED lock /\ \A h \in Hooks : pc'[h] = pc[h]
      BY <2>3 DEF CheckOrder, CheckMutation, Write, Goto, sharedVars
    <3>2. QED
      BY <3>1
  <2>4. QED
    BY <1>7, <2>1, <2>2, <2>3 DEF Route, Hydrate, Persist
<1>8. ASSUME NEW p \in Requests, StoreFails(p) PROVE LockHeldInside'
  BY <1>8 DEF StoreFails, Finish, Goto, Release
<1>9. ASSUME NEW i \in Instances, Crash(i) PROVE LockHeldInside'
  BY <1>9 DEF Crash
<1>10. ASSUME NEW o \in Orders, Capture(o) PROVE LockHeldInside'
  BY <1>10 DEF Capture, sharedVars, requestVars
<1>11. ASSUME NEW h \in Hooks, NEW o \in Orders, Deliver(h, o) PROVE LockHeldInside'
  BY <1>11 DEF Deliver, Goto, sharedVars
<1>12. ASSUME NEW t \in Threads, NEW k \in {"order", "promise", "dispute", "page"}, Arrive(t, k)
       PROVE  LockHeldInside'
  BY <1>12 DEF Arrive, Goto, sharedVars
<1>13. CASE UNCHANGED vars
  BY <1>13 DEF vars, sharedVars, requestVars
<1>14. QED
  BY <1>1, <1>2, <1>3, <1>4, <1>5, <1>6, <1>7, <1>8, <1>9, <1>10, <1>11, <1>12, <1>13
     DEF Next, Webhook, Hydrate, Persist

(* However many processes, deliveries and routes there are, and whatever   *)
(* call of a handler raises or kills its process, no lock is left behind:  *)
(* whoever holds _SETTLEMENT_LOCK is at work inside it.                    *)
THEOREM LockHeldInsideHolds == Spec => []LockHeldInside
<1>1. Init => LockHeldInside
  BY DEF Init, LockHeldInside
<1>2. TypeInv /\ LockHeldInside /\ [Next]_vars => LockHeldInside'
  BY LockHeldStep
<1>3. QED
  BY <1>1, <1>2, TypeInit, TypeStep, PTL DEF Spec

-----------------------------------------------------------------------------
(* A capture is in the log as a settlement only if it is claimed, and not  *)
(* while the delivery that claimed it is still on its way to the log.      *)
LogInv ==
    \A o \in Orders, e \in {"partial", "confirmed"} :
        [event |-> e, order |-> o] \in log =>
            /\ o \in claimed
            /\ \A h \in Hooks : pc[h] \in {"credit", "settle", "build", "save", "log"} =>
                                 arg[h] # o

ClaimedInv ==
    \A h \in Hooks : pc[h] \in {"credit", "settle", "build", "save", "log"} =>
                        arg[h] \in claimed

OnceInv == LogInv /\ ClaimedInv /\ LoggedOnce

LEMMA LogStep ==
  ASSUME OneReceiver, Durable \/ ~MayCrash, SettleInv, SettleInv', OnceInv, [Next]_vars
  PROVE  OnceInv'
<1> USE RequestsAssumption, SizesAssumption DEF Requests, SettleInv, TypeInv, TypeOK
<1> DEFINE Underway == {"credit", "settle", "build", "save", "log"}
<1>1. ASSUME UNCHANGED log, claimed \subseteq claimed',
             \A h \in Hooks : pc'[h] \in Underway =>
                 \/ pc[h] \in Underway /\ arg'[h] = arg[h]
                 \/ arg'[h] \in claimed' \ claimed
      PROVE  OnceInv'
  BY <1>1 DEF OnceInv, LogInv, ClaimedInv, LoggedOnce
<1>2. ASSUME NEW o \in Orders, Capture(o) PROVE OnceInv'
  BY <1>1, <1>2 DEF Capture, sharedVars, requestVars
<1>3. ASSUME NEW h \in Hooks, NEW o \in Orders, Deliver(h, o) PROVE OnceInv'
  BY <1>1, <1>3 DEF Deliver, Goto, sharedVars
<1>4. ASSUME NEW t \in Threads, NEW k \in {"order", "promise", "dispute", "page"}, Arrive(t, k)
      PROVE  OnceInv'
  BY <1>1, <1>4 DEF Arrive, Goto, sharedVars
<1>5. ASSUME NEW p \in Requests, LoadRow(p) \/ FoldRow(p) \/ BuildState(p) \/ SaveRow(p)
      PROVE  OnceInv'
  BY <1>1, <1>5 DEF LoadRow, FoldRow, BuildState, SaveRow, Goto, sharedVars
<1>6. ASSUME NEW h \in Hooks, MatchOrder(h) \/ Acquire(h) \/ ClaimLookup(h)
      PROVE  OnceInv'
  BY <1>1, <1>6 DEF MatchOrder, Acquire, ClaimLookup, Goto, sharedVars
<1>7. ASSUME NEW h \in Hooks, ClaimInList(h) \/ ClaimInsert(h)
      PROVE  OnceInv'
  BY <1>1, <1>7 DEF ClaimInList, ClaimInsert, Goto, CountInv
<1>8. ASSUME NEW h \in Hooks, CreditCapture(h) \/ SettleStatus(h)
      PROVE  OnceInv'
  BY <1>1, <1>8 DEF CreditCapture, SettleStatus, Goto
<1>9. ASSUME NEW h \in Hooks, NEW e \in {"unmatched_order", "duplicate_ignored"},
             log' = log \cup {[event |-> e, order |-> arg[h]]},
             UNCHANGED <<claimed, arg>>, pc' = [pc EXCEPT ![h] = "ack"]
      PROVE  OnceInv'
  BY <1>9 DEF OnceInv, LogInv, ClaimedInv, LoggedOnce
<1>10. ASSUME NEW h \in Hooks, UnmatchedOrder(h) \/ IgnoreDuplicate(h)
       PROVE  OnceInv'
  BY <1>9, <1>10 DEF UnmatchedOrder, IgnoreDuplicate, Goto
<1>11. ASSUME NEW h \in Hooks, LogSettlement(h) PROVE OnceInv'
  <2>1. /\ kind[h] \in {"partial", "confirmed"} /\ arg[h] \in Orders
        /\ log' = log \cup {[event |-> kind[h], order |-> arg[h]]}
        /\ UNCHANGED <<claimed, arg>>
        /\ pc' = [pc EXCEPT ![h] = "ack"]
    BY <1>11 DEF LogSettlement, Goto, RequestInv
  <2>2. \A g \in Hooks : pc[g] \in Underway => g = h
    BY <1>11, Exclusion DEF LogSettlement, Critical
  <2>3. \A e \in {"partial", "confirmed"} : [event |-> e, order |-> arg[h]] \notin log
    BY <1>11, <2>1 DEF OnceInv, LogInv, LogSettlement
  <2>4. arg[h] \in claimed
    BY <1>11 DEF LogSettlement, OnceInv, ClaimedInv
  <2>5. LogInv' /\ ClaimedInv'
    BY <2>1, <2>2, <2>4 DEF OnceInv, LogInv, ClaimedInv
  <2>6. LoggedOnce'
    BY <2>1, <2>3 DEF OnceInv, LoggedOnce
  <2>7. QED
    BY <2>5, <2>6 DEF OnceInv
<1>12. ASSUME NEW h \in Hooks, Acknowledge(h) PROVE OnceInv'
  BY <1>1, <1>12 DEF Acknowledge, Finish, Goto, sharedVars
<1>13. ASSUME NEW t \in Threads, EndUnwritten(t) \/ Reply(t) PROVE OnceInv'
  BY <1>1, <1>13 DEF EndUnwritten, Reply, Finish, Goto, sharedVars
<1>14. ASSUME NEW t \in Threads, CheckOrder(t) \/ CheckMutation(t) \/ Write(t)
       PROVE  OnceInv'
  <2>1. /\ UNCHANGED <<log, claimed>>
        /\ \A h \in Hooks : pc'[h] = pc[h] /\ arg'[h] = arg[h]
    BY <1>14 DEF CheckOrder, CheckMutation, Write, Goto, sharedVars
  <2>2. QED
    BY <1>1, <2>1
<1>15. ASSUME NEW p \in Requests, StoreFails(p) PROVE OnceInv'
  BY <1>1, <1>15 DEF StoreFails, Finish, Goto
<1>16. ASSUME NEW i \in Instances, Crash(i) PROVE OnceInv'
  BY <1>1, <1>16 DEF Crash
<1>17. CASE UNCHANGED vars
  BY <1>1, <1>17 DEF vars, sharedVars, requestVars
<1>18. QED
  BY <1>2, <1>3, <1>4, <1>5, <1>6, <1>7, <1>8, <1>10, <1>11, <1>12, <1>13, <1>14, <1>15,
     <1>16, <1>17
     DEF Next, Webhook, Route, Hydrate, Persist

(* With one process taking the deliveries a capture is in the log as one   *)
(* settlement at most, whatever they do: the audit fold credits it once.   *)
(* In file mode the process must not crash, for the list of processed      *)
(* payments dies with it and the log does not.                             *)
THEOREM LoggedOnceHolds ==
  ASSUME OneReceiver, Durable \/ ~MayCrash
  PROVE  Spec => []LoggedOnce
<1>1. Init => OnceInv
  BY DEF Init, OnceInv, LogInv, ClaimedInv, LoggedOnce, Requests
<1>2. SettleInv /\ [Next]_vars => SettleInv'
  BY SettleStep
<1>3. SettleInv /\ SettleInv' /\ OnceInv /\ [Next]_vars => OnceInv'
  BY LogStep
<1>4. OnceInv => LoggedOnce
  BY DEF OnceInv
<1>5. QED
  BY <1>1, <1>2, <1>3, <1>4, SettleInit, PTL DEF Spec

-----------------------------------------------------------------------------
(* What is owed on a copy of the invoice, with the orders' amounts named. *)
Owed(m, a) == Face - SumFunction([o \in Orders |-> m.received[o] * a[o]])

LEMMA OwedIsBalance == ASSUME NEW m PROVE Balance(m) = Owed(m, amount)
  BY DEF Balance, Owed

LEMMA OwedType ==
  ASSUME NEW m \in Record, NEW a \in [Orders -> Nat]
  PROVE  Owed(m, a) \in Int
<1> DEFINE f == [o \in Orders |-> m.received[o] * a[o]]
<1>1. \A o \in Orders : f[o] \in Int
  BY DEF Record
<1>2. DOMAIN f = Orders
  OBVIOUS
<1> HIDE DEF f
<1>3. SumFunction(f) \in Int
  BY <1>1, <1>2, OrdersAssumption, SumType DEF SumFunction
<1>4. QED
  BY <1>3, SizesAssumption DEF Owed, f

(* A credit leaves no more to pay. *)
LEMMA OwedFalls ==
  ASSUME NEW m \in Record, NEW a \in [Orders -> Nat], NEW o \in Orders
  PROVE  Owed(Credited(m, o), a) <= Owed(m, a)
<1> DEFINE f == [q \in Orders |-> m.received[q] * a[q]]
           g == [q \in Orders |-> Credited(m, o).received[q] * a[q]]
<1>1. \A q \in Orders : f[q] \in Int /\ g[q] \in Int /\ f[q] <= g[q]
  <2> SUFFICES ASSUME NEW q \in Orders
               PROVE  f[q] \in Int /\ g[q] \in Int /\ f[q] <= g[q]
    OBVIOUS
  <2>1. m.received \in [Orders -> Nat]
    BY DEF Record
  <2>2. Credited(m, o).received = [m.received EXCEPT ![o] = @ + 1]
    BY CreditedIsRecord
  <2>3. PICK r \in Nat : r = m.received[q]
    BY <2>1
  <2>4. PICK c \in Nat : c = Credited(m, o).received[q] /\ (c = r \/ c = r + 1)
    BY <2>1, <2>2, <2>3
  <2>5. PICK k \in Nat : k = a[q]
    OBVIOUS
  <2>6. f[q] = r * k /\ g[q] = c * k
    BY <2>3, <2>4, <2>5
  <2>7. (r + 1) * k = r * k + k /\ r * k \in Int
    OBVIOUS
  <2> HIDE DEF f, g
  <2>8. QED
    BY <2>4, <2>6, <2>7
<1>2. DOMAIN f = Orders /\ DOMAIN g = Orders
  OBVIOUS
<1> HIDE DEF f, g
<1>3. SumFunction(f) <= SumFunction(g)
  BY <1>1, <1>2, OrdersAssumption, SumMonotone DEF SumFunction
<1>4. SumFunction(f) \in Int /\ SumFunction(g) \in Int
  BY <1>1, <1>2, OrdersAssumption, SumType DEF SumFunction
<1>5. QED
  BY <1>3, <1>4, SizesAssumption DEF Owed, f, g

(* An order nothing was credited for may change its amount. *)
LEMMA OwedStays ==
  ASSUME NEW m \in Record, NEW a \in [Orders -> Nat], NEW b \in [Orders -> Nat],
         \A o \in Orders : m.received[o] # 0 => a[o] = b[o]
  PROVE  Owed(m, a) = Owed(m, b)
<1> DEFINE f == [q \in Orders |-> m.received[q] * a[q]]
           g == [q \in Orders |-> m.received[q] * b[q]]
<1>1. \A q \in Orders : f[q] \in Int /\ f[q] = g[q]
  BY DEF Record
<1>2. f = g
  BY <1>1
<1>3. QED
  BY <1>2 DEF Owed

(* A copy that says PAID is covered, and what it counts did happen. *)
Settled(st, o) == st[o] \in {"captured", "acked"}

CopyCovered(m, a, st) ==
    /\ m.status = "PAID" => Owed(m, a) <= 0
    /\ \A o \in Orders : m.received[o] # 0 => Settled(st, o)

CoverInv ==
    /\ \A i \in Instances : CopyCovered(mem[i], amount, stage)
    /\ CopyCovered(row, amount, stage)
    /\ \A p \in Requests : CopyCovered(snap[p], amount, stage)
    /\ \A h \in Hooks : pc[h] = "settle" /\ kind[h] # "partial" =>
                            Owed(mem[Home[h]], amount) <= 0

LEMMA SeedCovered ==
  ASSUME NEW a, NEW st
  PROVE  CopyCovered(Seed, a, st)
  BY DEF CopyCovered, Seed

(* Captures stay, and an order that is captured keeps its amount. *)
LEMMA GatewayStep ==
  ASSUME TypeInv, OrderInv, [Next]_vars, NEW o \in Orders, Settled(stage, o)
  PROVE  Settled(stage', o) /\ amount'[o] = amount[o]
<1> USE RequestsAssumption DEF Requests, TypeInv, TypeOK, RequestInv, OrderInv, Settled
<1>1. CASE UNCHANGED gatewayVars
  BY <1>1 DEF gatewayVars
<1>2. ASSUME NEW q \in Orders, Capture(q) PROVE Settled(stage', o) /\ amount'[o] = amount[o]
  BY <1>2 DEF Capture
<1>3. ASSUME NEW h \in Hooks, Webhook(h) PROVE Settled(stage', o) /\ amount'[o] = amount[o]
  <2>1. CASE Acknowledge(h)
    BY <2>1 DEF Acknowledge
  <2>2. CASE ~Acknowledge(h)
    BY <1>1, <1>3, <2>2
       DEF Webhook, Hydrate, Persist, LoadRow, FoldRow, BuildState, SaveRow, MatchOrder,
           UnmatchedOrder, Acquire, ClaimInList, ClaimLookup, ClaimInsert, IgnoreDuplicate,
           CreditCapture, SettleStatus, LogSettlement
  <2>3. QED
    BY <2>1, <2>2
<1>4. ASSUME NEW t \in Threads, Route(t) PROVE Settled(stage', o) /\ amount'[o] = amount[o]
  <2>1. CASE CheckOrder(t)
    BY <2>1 DEF CheckOrder
  <2>2. CASE Reply(t)
    BY <2>2 DEF Reply, Placing
  <2>3. CASE ~CheckOrder(t) /\ ~Reply(t)
    BY <1>1, <1>4, <2>3
       DEF Route, Hydrate, Persist, LoadRow, FoldRow, BuildState, SaveRow, EndUnwritten,
           CheckMutation, Write
  <2>4. QED
    BY <2>1, <2>2, <2>3
<1>5. CASE \/ \E h \in Hooks, q \in Orders : Deliver(h, q)
           \/ \E t \in Threads, k \in {"order", "promise", "dispute", "page"} : Arrive(t, k)
           \/ \E p \in Requests : StoreFails(p)
           \/ \E i \in Instances : Crash(i)
           \/ UNCHANGED vars
  BY <1>1, <1>5 DEF Deliver, Arrive, StoreFails, Crash, vars
<1>6. QED
  BY <1>2, <1>3, <1>4, <1>5 DEF Next

LEMMA CoveredStays ==
  ASSUME TypeInv, TypeInv', OrderInv, [Next]_vars,
         NEW m \in Record, CopyCovered(m, amount, stage)
  PROVE  CopyCovered(m, amount', stage') /\ Owed(m, amount') = Owed(m, amount)
<1>1. \A o \in Orders : m.received[o] # 0 => Settled(stage', o) /\ amount'[o] = amount[o]
  BY GatewayStep DEF CopyCovered
<1>2. amount \in [Orders -> Nat] /\ amount' \in [Orders -> Nat]
  BY DEF TypeInv, TypeOK
<1>3. Owed(m, amount') = Owed(m, amount)
  BY <1>1, <1>2, OwedStays
<1>4. QED
  BY <1>1, <1>3 DEF CopyCovered

(* A delivery that has its process to itself, or no database to fold in:   *)
(* nobody undoes the credit before its status is written.                  *)
Alone == \A h \in Hooks, p \in Requests : Home[p] = Home[h] => p = h

(* Every copy there will be is one there was, or starts afresh. *)
LEMMA CopiesStay ==
  ASSUME TypeInv, TypeInv', OrderInv, CoverInv, [Next]_vars,
         \A i \in Instances : mem'[i] \in Copies \cup {Seed},
         row' \in Copies \cup {Seed},
         \A p \in Requests : snap'[p] \in Copies \cup {Seed},
         \A h \in Hooks : pc'[h] = "settle" =>
            pc[h] = "settle" /\ kind'[h] = kind[h] /\ mem'[Home[h]] = mem[Home[h]]
  PROVE  CoverInv'
<1>1. \A c \in Copies \cup {Seed} : c \in Record /\ CopyCovered(c, amount, stage)
  BY SeedIsRecord, SeedCovered DEF Copies, CoverInv, TypeInv, TypeOK
<1>2. \A c \in Copies \cup {Seed} :
         CopyCovered(c, amount', stage') /\ Owed(c, amount') = Owed(c, amount)
  BY <1>1, CoveredStays
<1>3. \A h \in Hooks : mem[Home[h]] \in Copies
  BY RequestsAssumption DEF Copies, Requests
<1>4. QED
  BY <1>2, <1>3 DEF CoverInv

LEMMA CoverStep ==
  ASSUME Alone \/ ~Durable, TypeInv, TypeInv', FileInv, OrderInv, CoverInv, [Next]_vars
  PROVE  CoverInv'
<1> USE RequestsAssumption DEF Requests, TypeInv, TypeOK, Copies
<1>1. CASE UNCHANGED <<mem, row, snap, pc, kind>>
  BY <1>1, CopiesStay
<1>2. ASSUME NEW p \in Requests, LoadRow(p) \/ BuildState(p) \/ SaveRow(p) PROVE CoverInv'
  BY <1>2, CopiesStay DEF LoadRow, BuildState, SaveRow, Goto, sharedVars
<1>3. ASSUME NEW p \in Requests, FoldRow(p) PROVE CoverInv'
  <2> DEFINE m == Folded(mem[Home[p]], snap[p])
  <2>1. Alone
    BY <1>3 DEF FoldRow, FileInv
  <2>2. Home[p] \in Instances /\ mem[Home[p]] \in Record /\ snap[p] \in Record
    OBVIOUS
  <2>3. m \in Record /\ m.received = snap[p].received /\ m.status = snap[p].status
    BY <2>2, FoldedIsRecord DEF Folded, Record
  <2>4. CopyCovered(m, amount, stage)
    BY <2>3 DEF CoverInv, CopyCovered, Owed
  <2>5. /\ mem' = [mem EXCEPT ![Home[p]] = m]
        /\ UNCHANGED <<row, amount, stage, kind>>
        /\ snap' = [snap EXCEPT ![p] = Seed]
        /\ \A h \in Hooks : pc'[h] = "settle" => pc[h] = "settle" /\ h # p
    BY <1>3 DEF FoldRow, Goto, gatewayVars
  <2>6. \A h \in Hooks : h # p => mem'[Home[h]] = mem[Home[h]]
    BY <2>1, <2>5 DEF Alone
  <2> HIDE DEF m
  <2>7. QED
    BY <2>4, <2>5, <2>6, SeedCovered DEF CoverInv
<1>4. ASSUME NEW h \in Hooks, CreditCapture(h) PROVE CoverInv'
  <2>1. PICK m \in Record : m = mem[Home[h]]
    OBVIOUS
  <2>2. arg[h] \in Orders /\ Settled(stage, arg[h]) /\ amount \in [Orders -> Nat]
    BY <1>4 DEF CreditCapture, RequestInv, OrderInv, Settled
  <2>3. PICK o \in Orders : o = arg[h]
    BY <2>2
  <2>4. PICK n \in Record : n = Credited(m, o)
    BY CreditedIsRecord
  <2>5. n.status = m.status /\ n.received = [m.received EXCEPT ![o] = @ + 1]
    BY <2>4, CreditedIsRecord DEF Credited, Record
  <2>6. Owed(n, amount) <= Owed(m, amount) /\ Owed(n, amount) \in Int
        /\ Owed(m, amount) \in Int
    BY <2>2, <2>4, OwedFalls, OwedType
  <2>7. CopyCovered(m, amount, stage)
    BY <2>1 DEF CoverInv
  <2>8. CopyCovered(n, amount, stage)
    <3>1. n.status = "PAID" => Owed(n, amount) <= 0
      BY <2>5, <2>6, <2>7 DEF CopyCovered
    <3>2. \A q \in Orders : n.received[q] # 0 => Settled(stage, q)
      BY <2>2, <2>3, <2>5, <2>7 DEF CopyCovered, Record
    <3>3. QED
      BY <3>1, <3>2 DEF CopyCovered
  <2>9. /\ mem' = [mem EXCEPT ![Home[h]] = n]
        /\ UNCHANGED <<row, snap, amount, stage>>
        /\ pc' = [pc EXCEPT ![h] = "settle"]
        /\ kind' = [kind EXCEPT ![h] =
                      IF Owed(n, amount) > 0 THEN "partial" ELSE "confirmed"]
    BY <1>4, <2>1, <2>3, <2>4, OwedIsBalance DEF CreditCapture, Goto, gatewayVars
  <2>10. ASSUME NEW g \in Hooks, pc'[g] = "settle", kind'[g] # "partial"
         PROVE  Owed(mem'[Home[g]], amount) <= 0
    <3>1. CASE g = h
      BY <2>6, <2>9, <2>10, <3>1
    <3>2. CASE g # h /\ Home[g] = Home[h]
      <4>1. Owed(m, amount) <= 0 /\ mem'[Home[g]] = n
        BY <2>1, <2>9, <2>10, <3>2 DEF CoverInv
      <4>2. QED
        BY <2>6, <4>1
    <3>3. CASE g # h /\ Home[g] # Home[h]
      BY <2>9, <2>10, <3>3 DEF CoverInv
    <3>4. QED
      BY <3>1, <3>2, <3>3
  <2>11. QED
    BY <2>8, <2>9, <2>10 DEF CoverInv
<1>5. ASSUME NEW h \in Hooks, SettleStatus(h) PROVE CoverInv'
  <2>1. PICK m \in Record : m = mem[Home[h]]
    OBVIOUS
  <2>2. SettledStatus(h) \in Statuses
    BY DEF SettledStatus, Statuses
  <2>3. PICK n \in Record : n = WithStatus(m, SettledStatus(h))
    BY <2>2, WithStatusIsRecord
  <2>4. n.received = m.received /\ n.status = SettledStatus(h)
    BY <2>2, <2>3, WithStatusIsRecord DEF WithStatus, Record
  <2>5. Owed(n, amount) = Owed(m, amount)
    BY <2>4 DEF Owed
  <2>6. CopyCovered(n, amount, stage)
    BY <1>5, <2>1, <2>4, <2>5 DEF SettleStatus, SettledStatus, CoverInv, CopyCovered
  <2>7. /\ mem' = [mem EXCEPT ![Home[h]] = n]
        /\ UNCHANGED <<row, snap, amount, stage, kind>>
        /\ \A g \in Hooks : pc'[g] = "settle" => pc[g] = "settle"
    BY <1>5, <2>1, <2>3 DEF SettleStatus, Goto, gatewayVars
  <2>8. \A g \in Hooks : Owed(mem'[Home[g]], amount) = Owed(mem[Home[g]], amount)
    BY <2>1, <2>5, <2>7
  <2>9. QED
    BY <2>6, <2>7, <2>8 DEF CoverInv
<1>6. ASSUME NEW t \in Threads, Write(t) PROVE CoverInv'
  <2>1. PICK m \in Record : m = mem[Home[t]]
    OBVIOUS
  <2>2. PICK n \in Record : n = Assigned(t, m) /\ n.received = m.received
    BY <1>6, AssignedIsRecord DEF Write, RequestInv
  <2>3. n.status = "PAID" => m.status = "PAID"
    BY <2>2 DEF Assigned, WithStatus, Record
  <2>4. Owed(n, amount) = Owed(m, amount)
    BY <2>2 DEF Owed
  <2>5. CopyCovered(n, amount, stage)
    BY <2>1, <2>2, <2>3, <2>4 DEF CoverInv, CopyCovered
  <2>6. /\ mem' = [mem EXCEPT ![Home[t]] = n]
        /\ UNCHANGED <<row, snap, amount, stage, kind>>
        /\ \A g \in Hooks : pc'[g] = "settle" => pc[g] = "settle"
    BY <1>6, <2>1, <2>2 DEF Write, Goto, gatewayVars
  <2>7. \A g \in Hooks : Owed(mem'[Home[g]], amount) = Owed(mem[Home[g]], amount)
    BY <2>1, <2>4, <2>6
  <2>8. QED
    BY <2>5, <2>6, <2>7 DEF CoverInv
<1>7. ASSUME NEW h \in Hooks, Webhook(h), ~CreditCapture(h), ~SettleStatus(h) PROVE CoverInv'
  <2>1. CASE MatchOrder(h) \/ UnmatchedOrder(h) \/ Acquire(h) \/ ClaimInList(h)
             \/ ClaimLookup(h) \/ ClaimInsert(h) \/ IgnoreDuplicate(h) \/ LogSettlement(h)
    <3>1. /\ UNCHANGED <<mem, row, snap, kind>>
          /\ \A g \in Hooks : pc'[g] = "settle" => pc[g] = "settle"
      BY <2>1 DEF MatchOrder, UnmatchedOrder, Acquire, ClaimInList, ClaimLookup, ClaimInsert,
                  IgnoreDuplicate, LogSettlement, Goto, sharedVars
    <3>2. QED
      BY <3>1, CopiesStay
  <2>2. CASE Acknowledge(h)
    BY <2>2, CopiesStay DEF Acknowledge, Finish, Goto, sharedVars
  <2>3. QED
    BY <1>2, <1>3, <1>7, <2>1, <2>2 DEF Webhook, Hydrate, Persist
<1>8. ASSUME NEW t \in Threads, Route(t), ~Write(t) PROVE CoverInv'
  <2>1. CASE EndUnwritten(t) \/ Reply(t)
    BY <2>1, CopiesStay DEF EndUnwritten, Reply, Finish, Goto, sharedVars
  <2>2. CASE CheckOrder(t) \/ CheckMutation(t)
    <3>1. /\ UNCHANGED <<mem, row, snap, kind>>
          /\ \A g \in Hooks : pc'[g] = "settle" => pc[g] = "settle"
      BY <2>2 DEF CheckOrder, CheckMutation, Goto, sharedVars
    <3>2. QED
      BY <3>1, CopiesStay
  <2>3. QED
    BY <1>2, <1>3, <1>8, <2>1, <2>2 DEF Route, Hydrate, Persist
<1>9. ASSUME NEW p \in Requests, StoreFails(p) PROVE CoverInv'
  BY <1>9, CopiesStay DEF StoreFails, Finish, Goto
<1>10. ASSUME NEW i \in Instances, Crash(i) PROVE CoverInv'
  BY <1>10, CopiesStay DEF Crash
<1>11. CASE \/ \E h \in Hooks, q \in Orders : Deliver(h, q)
            \/ \E t \in Threads, k \in {"order", "promise", "dispute", "page"} : Arrive(t, k)
  <2>1. /\ UNCHANGED <<mem, row, snap>>
        /\ \A g \in Hooks : pc'[g] = "settle" => pc[g] = "settle" /\ kind'[g] = kind[g]
    BY <1>11 DEF Deliver, Arrive, Goto, sharedVars
  <2>2. QED
    BY <2>1, CopiesStay
<1>12. CASE UNCHANGED vars \/ \E o \in Orders : Capture(o)
  BY <1>1, <1>12 DEF vars, Capture, sharedVars, requestVars
<1>13. QED
  BY <1>4, <1>5, <1>6, <1>7, <1>8, <1>9, <1>10, <1>11, <1>12 DEF Next

(* An invoice that reads PAID is covered by its captures: in file mode     *)
(* always, and with a database where each delivery has its process to      *)
(* itself, as on serverless instances, whatever the others fold, persist   *)
(* or lose meanwhile.                                                      *)
THEOREM PaidIsCoveredHolds ==
  ASSUME Alone \/ ~Durable
  PROVE  Spec => []PaidIsCovered
<1>1. Init => OrderInv /\ FileInv /\ CoverInv
  BY BookInitial, SettleInit, SeedCovered
     DEF BookInv, SettleInv, Init, CoverInv, Requests
<1>2. TypeInv /\ [Next]_vars => TypeInv'
  BY TypeStep
<1>3. TypeInv /\ OrderInv /\ FileInv /\ [Next]_vars => OrderInv' /\ FileInv'
  BY OrderStep, FileStep
<1>4. TypeInv /\ TypeInv' /\ FileInv /\ OrderInv /\ CoverInv /\ [Next]_vars => CoverInv'
  BY CoverStep
<1>5. CoverInv => PaidIsCovered
  BY OwedIsBalance DEF CoverInv, CopyCovered, PaidIsCovered
<1>6. QED
  BY <1>1, <1>2, <1>3, <1>4, <1>5, TypeInit, PTL DEF Spec

-----------------------------------------------------------------------------
(* In file mode without crashes nothing is taken back: credits and orders  *)
(* stay, and what is owed only falls.                                      *)
LEMMA NothingTakenBack ==
  ASSUME ~Durable, ~MayCrash, TypeInv, TypeInv', FileInv, OrderInv, CoverInv, [Next]_vars,
         NEW i \in Instances
  PROVE  /\ mem[i].orders \subseteq mem'[i].orders
         /\ \A o \in Orders : mem[i].received[o] >= 1 => mem'[i].received[o] >= 1
         /\ Owed(mem'[i], amount') <= Owed(mem[i], amount)
<1> USE RequestsAssumption DEF Requests, TypeInv, TypeOK
<1>1. PICK m \in Record : m = mem[i]
  OBVIOUS
<1>2. PICK n \in Record : n = mem'[i]
  OBVIOUS
<1>3. CopyCovered(m, amount, stage)
  BY <1>1 DEF CoverInv
<1>4. Owed(m, amount') = Owed(m, amount) /\ Owed(m, amount) \in Int
  BY <1>3, CoveredStays, OwedType
<1>5. CASE n = m
  BY <1>1, <1>2, <1>4, <1>5
<1>6. ASSUME n.received = m.received, m.orders \subseteq n.orders
      PROVE  /\ \A o \in Orders : m.received[o] >= 1 => n.received[o] >= 1
             /\ Owed(n, amount') <= Owed(m, amount)
  <2>1. Owed(n, amount') = Owed(m, amount')
    BY <1>6 DEF Owed
  <2>2. QED
    BY <1>4, <1>6, <2>1
<1>7. CASE \E h \in Hooks : CreditCapture(h) /\ Home[h] = i
  <2>1. PICK h \in Hooks : CreditCapture(h) /\ Home[h] = i
    BY <1>7
  <2>2. PICK o \in Orders : o = arg[h]
    BY <2>1 DEF CreditCapture, RequestInv
  <2>3. n = Credited(m, o) /\ amount' = amount
    BY <1>1, <1>2, <2>1, <2>2 DEF CreditCapture, gatewayVars
  <2>4. Owed(n, amount) <= Owed(m, amount)
    BY <2>3, OwedFalls
  <2>5. n.orders = m.orders /\ n.received = [m.received EXCEPT ![o] = @ + 1]
    BY <2>3, CreditedIsRecord DEF Credited, Record
  <2>6. m.received \in [Orders -> Nat]
    BY DEF Record
  <2>7. \A q \in Orders : m.received[q] >= 1 => n.received[q] >= 1
    BY <2>5, <2>6
  <2>8. QED
    BY <1>1, <1>2, <2>3, <2>4, <2>5, <2>7
<1>8. CASE \E h \in Hooks : SettleStatus(h) /\ Home[h] = i
  <2>1. PICK h \in Hooks : SettleStatus(h) /\ Home[h] = i
    BY <1>8
  <2>2. SettledStatus(h) \in Statuses /\ n = WithStatus(m, SettledStatus(h))
    BY <1>1, <1>2, <2>1 DEF SettleStatus, SettledStatus, Statuses
  <2>3. n.received = m.received /\ n.orders = m.orders
    BY <2>2 DEF WithStatus, Record
  <2>4. QED
    BY <1>1, <1>2, <1>6, <2>3
<1>9. CASE \E t \in Threads : Write(t) /\ Home[t] = i
  <2>1. PICK t \in Threads : Write(t) /\ Home[t] = i
    BY <1>9
  <2>2. n = Assigned(t, m)
    BY <1>1, <1>2, <2>1 DEF Write
  <2>3. n.received = m.received /\ m.orders \subseteq n.orders
    BY <2>2 DEF Assigned, WithStatus, Record
  <2>4. QED
    BY <1>1, <1>2, <1>6, <2>3
<1>10. \/ n = m
       \/ \E h \in Hooks : (CreditCapture(h) \/ SettleStatus(h)) /\ Home[h] = i
       \/ \E t \in Threads : Write(t) /\ Home[t] = i
  <2>1. ASSUME NEW h \in Hooks, Webhook(h)
        PROVE  mem'[i] = mem[i] \/ ((CreditCapture(h) \/ SettleStatus(h)) /\ Home[h] = i)
    <3>1. CASE CreditCapture(h) \/ SettleStatus(h)
      BY <3>1 DEF CreditCapture, SettleStatus
    <3>2. CASE ~CreditCapture(h) /\ ~SettleStatus(h)
      BY <2>1, <3>2
         DEF Webhook, Hydrate, Persist, LoadRow, FoldRow, BuildState, SaveRow, MatchOrder,
             UnmatchedOrder, Acquire, ClaimInList, ClaimLookup, ClaimInsert, IgnoreDuplicate,
             LogSettlement, Acknowledge, sharedVars, FileInv
    <3>3. QED
      BY <3>1, <3>2
  <2>2. ASSUME NEW t \in Threads, Route(t)
        PROVE  mem'[i] = mem[i] \/ (Write(t) /\ Home[t] = i)
    <3>1. CASE Write(t)
      BY <3>1 DEF Write
    <3>2. CASE ~Write(t)
      BY <2>2, <3>2
         DEF Route, Hydrate, Persist, LoadRow, FoldRow, BuildState, SaveRow, EndUnwritten,
             CheckOrder, CheckMutation, Reply, sharedVars, FileInv
    <3>3. QED
      BY <3>1, <3>2
  <2>3. CASE \/ \E o \in Orders : Capture(o)
             \/ \E h \in Hooks, o \in Orders : Deliver(h, o)
             \/ \E t \in Threads, k \in {"order", "promise", "dispute", "page"} : Arrive(t, k)
             \/ UNCHANGED vars
    BY <1>1, <1>2, <2>3 DEF Capture, Deliver, Arrive, sharedVars, vars
  <2>4. CASE (\E p \in Requests : StoreFails(p)) \/ \E j \in Instances : Crash(j)
    BY <1>1, <1>2, <2>4 DEF StoreFails, Crash
  <2>5. QED
    BY <1>1, <1>2, <2>1, <2>2, <2>3, <2>4 DEF Next
<1>11. QED
  BY <1>5, <1>7, <1>8, <1>9, <1>10

(* A capture that has been dealt with. *)
Done(o) ==
    \A i \in Instances : mem[i].received[o] >= 1 \/ Owed(mem[i], amount) <= 0

(* Where each capture is on its way to being dealt with, in file mode: an  *)
(* order the debtor can pay is known to the dict, and a claim is credited  *)
(* or about to be.                                                         *)
AckInv ==
    /\ \A o \in Orders, i \in Instances :
          stage[o] \in {"open", "captured", "acked"} => o \in mem[i].orders
    /\ \A t \in Threads, i \in Instances :
          kind[t] = "order" /\ pc[t] = "reply" => arg[t] \in mem[i].orders
    /\ \A o \in claimed : Done(o) \/ \E h \in Hooks : pc[h] = "credit" /\ arg[h] = o
    /\ \A h \in Hooks : pc[h] \in {"ignore", "settle", "log", "ack"} => Done(arg[h])
    /\ \A o \in Orders : stage[o] = "acked" => Done(o)

LEMMA DoneStays ==
  ASSUME ~Durable, ~MayCrash, TypeInv, TypeInv', FileInv, OrderInv, CoverInv, [Next]_vars,
         NEW o \in Orders, Done(o)
  PROVE  Done(o)'
<1>1. ASSUME NEW i \in Instances
      PROVE  mem'[i].received[o] >= 1 \/ Owed(mem'[i], amount') <= 0
  <2>1. /\ mem[i].received[o] >= 1 => mem'[i].received[o] >= 1
        /\ Owed(mem'[i], amount') <= Owed(mem[i], amount)
    BY NothingTakenBack
  <2>2. Owed(mem'[i], amount') \in Int /\ Owed(mem[i], amount) \in Int
    BY OwedType DEF TypeInv, TypeOK
  <2>3. mem[i].received[o] >= 1 \/ Owed(mem[i], amount) <= 0
    BY DEF Done
  <2>4. QED
    BY <2>1, <2>2, <2>3
<1>2. QED
  BY <1>1 DEF Done

LEMMA AckStep ==
  ASSUME OneInstance, ~Durable, ~MayCrash, SettleInv, SettleInv', OrderInv, CoverInv, AckInv,
         [Next]_vars
  PROVE  AckInv'
<1> USE RequestsAssumption DEF Requests, SettleInv, TypeInv, TypeOK
<1> DEFINE Known == {"open", "captured", "acked"}
           Decided == {"ignore", "settle", "log", "ack"}
           DoneThen(o) ==
             \A i \in Instances : mem'[i].received[o] >= 1 \/ Owed(mem'[i], amount') <= 0
<1>1. \A o \in Orders : Done(o) => DoneThen(o)
  BY DoneStays DEF Done
<1>2. \A i \in Instances : mem[i].orders \subseteq mem'[i].orders
  BY NothingTakenBack
<1>3. \A h \in Hooks : (pc[h] # "idle" => arg[h] \in Orders)
                       /\ (pc'[h] # "idle" => arg'[h] \in Orders)
  BY DEF RequestInv
(* What a step must not do, or what it must have dealt with. *)
<1>4. ASSUME \A o \in Orders : stage'[o] \in Known =>
                stage[o] \in Known \/ \A i \in Instances : o \in mem'[i].orders,
             \A t \in Threads : kind'[t] = "order" /\ pc'[t] = "reply" =>
                \/ kind[t] = "order" /\ pc[t] = "reply" /\ arg'[t] = arg[t]
                \/ \A i \in Instances : arg'[t] \in mem'[i].orders,
             \A o \in claimed' :
                o \in claimed \/ \E h \in Hooks : pc'[h] = "credit" /\ arg'[h] = o,
             \A h \in Hooks : pc[h] = "credit" =>
                (pc'[h] = "credit" /\ arg'[h] = arg[h]) \/ DoneThen(arg[h]),
             \A h \in Hooks : pc'[h] \in Decided =>
                (pc[h] \in Decided /\ arg'[h] = arg[h]) \/ DoneThen(arg'[h]),
             \A o \in Orders : stage'[o] = "acked" => stage[o] = "acked" \/ Done(o)
      PROVE  AckInv'
  <2> HIDE DEF DoneThen
  <2>1. \A o \in Orders, i \in Instances : stage'[o] \in Known => o \in mem'[i].orders
    BY <1>2, <1>4 DEF AckInv
  <2>2. \A t \in Threads, i \in Instances :
           kind'[t] = "order" /\ pc'[t] = "reply" => arg'[t] \in mem'[i].orders
    BY <1>2, <1>4 DEF AckInv
  <2>3. \A o \in claimed' :
           DoneThen(o) \/ \E h \in Hooks : pc'[h] = "credit" /\ arg'[h] = o
    BY <1>1, <1>4 DEF AckInv
  <2>4. \A h \in Hooks : pc'[h] \in Decided => DoneThen(arg'[h])
    BY <1>1, <1>3, <1>4 DEF AckInv
  <2>5. \A o \in Orders : stage'[o] = "acked" => DoneThen(o)
    BY <1>1, <1>4 DEF AckInv
  <2>6. QED
    BY <2>1, <2>2, <2>3, <2>4, <2>5 DEF AckInv, Done, DoneThen
<1> HIDE DEF DoneThen
<1>5. ASSUME NEW o \in Orders, Capture(o) PROVE AckInv'
  BY <1>4, <1>5 DEF Capture, sharedVars, requestVars
<1>6. ASSUME NEW h \in Hooks, NEW o \in Orders, Deliver(h, o) PROVE AckInv'
  BY <1>4, <1>6 DEF Deliver, Goto, sharedVars, gatewayVars
<1>7. ASSUME NEW t \in Threads, NEW k \in {"order", "promise", "dispute", "page"}, Arrive(t, k)
      PROVE  AckInv'
  BY <1>4, <1>7 DEF Arrive, Goto, sharedVars, gatewayVars
<1>8. ASSUME NEW p \in Requests, LoadRow(p) \/ FoldRow(p) \/ BuildState(p) \/ SaveRow(p)
      PROVE  FALSE
  BY <1>8 DEF LoadRow, FoldRow, BuildState, SaveRow, FileInv
<1>9. ASSUME NEW h \in Hooks, MatchOrder(h) \/ Acquire(h) \/ IgnoreDuplicate(h) \/ LogSettlement(h)
      PROVE  AckInv'
  BY <1>4, <1>9
     DEF MatchOrder, Acquire, IgnoreDuplicate, LogSettlement, Goto, sharedVars, gatewayVars
<1>10. ASSUME NEW h \in Hooks, UnmatchedOrder(h) PROVE FALSE
  BY <1>10 DEF UnmatchedOrder, OrderInv, AckInv, RequestInv
<1>11. ASSUME NEW h \in Hooks, ClaimInList(h) PROVE AckInv'
  <2>1. arg[h] \in Orders /\ Home[h] \in Instances
    BY <1>3, <1>11 DEF ClaimInList
  <2>2. \A g \in Hooks : pc[g] # "credit"
    BY <1>11, Exclusion, ReceiverOfOne DEF ClaimInList, Critical
  <2>3. CASE arg[h] \in claimed \/ mem[Home[h]].status = "PAID"
    <3>1. Done(arg[h])
      <4>1. CASE arg[h] \in claimed
        BY <2>2, <4>1 DEF AckInv
      <4>2. CASE mem[Home[h]].status = "PAID"
        BY <2>1, <4>2 DEF CoverInv, CopyCovered, Done, OneInstance
      <4>3. QED
        BY <2>3, <4>1, <4>2
    <3>2. DoneThen(arg[h])
      BY <1>1, <2>1, <3>1
    <3>3. QED
      BY <1>4, <1>11, <2>3, <3>2 DEF ClaimInList, Goto, gatewayVars
  <2>4. CASE ~(arg[h] \in claimed \/ mem[Home[h]].status = "PAID")
    <3>1. /\ UNCHANGED <<kind, arg, stage>>
          /\ pc' = [pc EXCEPT ![h] = "credit"]
          /\ claimed' = claimed \cup {arg[h]}
      BY <1>11, <2>4 DEF ClaimInList, Goto, gatewayVars
    <3>2. QED
      BY <1>4, <2>2, <3>1
  <2>5. QED
    BY <2>3, <2>4
<1>12. ASSUME NEW h \in Hooks, ClaimLookup(h) \/ ClaimInsert(h) PROVE FALSE
  BY <1>12 DEF ClaimLookup, ClaimInsert, FileInv
<1>13. ASSUME NEW h \in Hooks, CreditCapture(h) PROVE AckInv'
  <2>1. PICK o \in Orders : o = arg[h]
    BY <1>3, <1>13 DEF CreditCapture
  <2>2. PICK m \in Record : m = mem[Home[h]]
    OBVIOUS
  <2>3. Credited(m, o).received[o] >= 1
    <3>1. m.received \in [Orders -> Nat]
      BY DEF Record
    <3>2. Credited(m, o).received = [m.received EXCEPT ![o] = @ + 1]
      BY CreditedIsRecord
    <3>3. QED
      BY <3>1, <3>2
  <2>4. \A i \in Instances : mem'[i] = Credited(m, o)
    BY <1>13, <2>1, <2>2 DEF CreditCapture, OneInstance
  <2>5. DoneThen(o)
    BY <2>3, <2>4 DEF DoneThen
  <2>6. /\ UNCHANGED <<arg, stage, claimed>>
        /\ pc' = [pc EXCEPT ![h] = "settle"]
        /\ \A t \in Threads : kind'[t] = kind[t]
    BY <1>13 DEF CreditCapture, Goto, gatewayVars
  <2>7. QED
    BY <1>4, <2>1, <2>5, <2>6
<1>14. ASSUME NEW h \in Hooks, SettleStatus(h) PROVE AckInv'
  BY <1>4, <1>14 DEF SettleStatus, Goto, gatewayVars
<1>15. ASSUME NEW h \in Hooks, Acknowledge(h) PROVE AckInv'
  <2>1. arg[h] \in Orders /\ Done(arg[h])
    BY <1>3, <1>15 DEF Acknowledge, AckInv
  <2>2. /\ UNCHANGED claimed
        /\ stage' = [stage EXCEPT ![arg[h]] = "acked"]
        /\ pc' = [pc EXCEPT ![h] = "idle"]
        /\ \A g \in Hooks : g # h => arg'[g] = arg[g]
        /\ \A t \in Threads : kind'[t] = kind[t] /\ arg'[t] = arg[t]
    BY <1>15 DEF Acknowledge, Finish, Goto, sharedVars
  <2>3. stage[arg[h]] \in Known
    BY <1>15 DEF Acknowledge, OrderInv
  <2>4. pc[h] = "ack"
    BY <1>15 DEF Acknowledge
  <2>5. QED
    BY <1>4, <2>1, <2>2, <2>3, <2>4
<1>16. ASSUME NEW t \in Threads, EndUnwritten(t) PROVE AckInv'
  BY <1>4, <1>16 DEF EndUnwritten, Finish, Goto, sharedVars, gatewayVars
<1>17. ASSUME NEW t \in Threads, CheckOrder(t) PROVE AckInv'
  <2>1. /\ UNCHANGED claimed
        /\ \A o \in Orders : stage'[o] \in Known => stage'[o] = stage[o]
        /\ pc' = [pc EXCEPT ![t] = "write"]
        /\ \A p \in Requests : p # t => arg'[p] = arg[p]
        /\ UNCHANGED kind
    BY <1>17 DEF CheckOrder, Goto, sharedVars
  <2>2. QED
    BY <1>4, <2>1
<1>18. ASSUME NEW t \in Threads, CheckMutation(t) PROVE AckInv'
  BY <1>4, <1>18 DEF CheckMutation, Goto, sharedVars, gatewayVars
<1>19. ASSUME NEW t \in Threads, Write(t) PROVE AckInv'
  <2>1. kind[t] = "order" => \A i \in Instances : arg[t] \in mem'[i].orders
    BY <1>19 DEF Write, Assigned, OneInstance, Record
  <2>2. UNCHANGED <<claimed, stage, kind, arg>> /\ pc' = [pc EXCEPT ![t] = "reply"]
    BY <1>19 DEF Write, Goto, gatewayVars
  <2>3. QED
    BY <1>4, <2>1, <2>2
<1>20. ASSUME NEW t \in Threads, Reply(t) PROVE AckInv'
  <2>1. kind[t] = "order" => \A i \in Instances : arg[t] \in mem'[i].orders
    BY <1>20 DEF Reply, AckInv, sharedVars
  <2>2. /\ UNCHANGED claimed
        /\ stage' = IF kind[t] = "order" THEN [stage EXCEPT ![arg[t]] = "open"] ELSE stage
        /\ pc' = [pc EXCEPT ![t] = "idle"]
        /\ \A p \in Requests : p # t => arg'[p] = arg[p] /\ kind'[p] = kind[p]
    BY <1>20 DEF Reply, Finish, Goto, sharedVars
  <2>3. QED
    BY <1>4, <2>1, <2>2
<1>21. ASSUME NEW p \in Requests, StoreFails(p) PROVE AckInv'
  BY <1>4, <1>21 DEF StoreFails, Calling, StoreCalls, Finish, Goto, gatewayVars
<1>22. ASSUME NEW i \in Instances, Crash(i) PROVE FALSE
  BY <1>22 DEF Crash
<1>23. CASE UNCHANGED vars
  BY <1>4, <1>23 DEF vars, sharedVars, gatewayVars, requestVars
<1>24. QED
  BY <1>5, <1>6, <1>7, <1>8, <1>9, <1>10, <1>11, <1>12, <1>13, <1>14, <1>15, <1>16, <1>17,
     <1>18, <1>19, <1>20, <1>21, <1>22, <1>23
     DEF Next, Webhook, Route, Hydrate, Persist

(* In file mode without crashes Razorpay is told 200 of a capture only     *)
(* when it is on the books, or nothing was owed any more.                  *)
THEOREM AckedIsSettledHolds ==
  ASSUME ~Durable, ~MayCrash
  PROVE  Spec => []AckedIsSettled
<1>1. OneInstance
  BY FileModeAssumption DEF OneInstance
<1>2. Init => BookInv /\ CoverInv /\ AckInv
  BY BookInitial, SeedCovered DEF Init, CoverInv, AckInv, Requests
<1>3. BookInv /\ [Next]_vars => BookInv'
  BY <1>1, ReceiverOfOne, SettleStep, OrderStep DEF BookInv, SettleInv
<1>4. BookInv /\ BookInv' /\ CoverInv /\ [Next]_vars => CoverInv'
  BY CoverStep DEF BookInv, SettleInv
<1>5. BookInv /\ BookInv' /\ CoverInv /\ AckInv /\ [Next]_vars => AckInv'
  BY <1>1, AckStep DEF BookInv
<1>6. AckInv => AckedIsSettled
  BY OwedIsBalance DEF AckInv, Done, AckedIsSettled, Book
<1>7. QED
  BY <1>2, <1>3, <1>4, <1>5, <1>6, PTL DEF Spec
=============================================================================
