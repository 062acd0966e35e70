--------------------------- MODULE ResultsPageProofs ---------------------------
(***************************************************************************)
(* What ResultsPage promises, for any number of request threads, any       *)
(* ledgers, any answers of the model and any size of the cache.            *)
(***************************************************************************)
EXTENDS ResultsPage, SumProofs, SequenceTheorems, TLAPS

PCs == {"idle", "lookup", "copy", "open", "fold", "batch", "asking", "draft", "store",
        "trim", "evict", "close"}

Debtors == Range(Order)

Keys == {r.key : r \in Requests}

LogEntry == [by : Threads \cup {"application"}, debtor : Debtors, contact : BOOLEAN]

(* How many scratch logs a thread has open. *)
Depth(p) == IF p \in {"idle", "lookup", "copy", "open"} THEN 0
            ELSE IF p \in {"fold", "batch", "asking"} THEN 2 ELSE 1

(* Where a thread has decided nothing yet, and where it has something to   *)
(* report.                                                                 *)
Before == {"idle", "lookup", "copy", "open", "fold"}

After == {"draft", "store", "trim", "evict", "close"}

-----------------------------------------------------------------------------
(* What the envelope makes of any answer about a debtor. *)
Lawful(row, x) ==
    LET owed == Collectible(row.invoices)
    IN  /\ row.optedOut => x = Suppressed
        /\ x.ask \in Int
        /\ IF x.strategy \in AsksForMoney
           THEN owed > 0 /\ MinAsk(owed) <= x.ask /\ x.ask <= owed
           ELSE x.ask = 0

LawfulBatch(seed, agent) ==
    /\ agent = [d \in DOMAIN agent |-> agent[d]]
    /\ DOMAIN agent \subseteq Evaluated(Books[seed])
    /\ \A d \in DOMAIN agent : Lawful(Books[seed][d], agent[d])

(* The decision about a debtor in a batch on its own, with the script. *)
Alone(seed, d) ==
    IF Books[seed][d].optedOut THEN Suppressed ELSE ScriptedDecision[seed][d][FALSE]

PureBatch(seed, agent) == \A d \in DOMAIN agent : agent[d] = Alone(seed, d)

LEMMA BookRow ==
  ASSUME NEW seed \in DOMAIN Books
  PROVE  /\ DOMAIN Books[seed] = Debtors
         /\ Evaluated(Books[seed]) \subseteq Debtors
  BY PageAssumption DEF Debtors, Evaluated

LEMMA BalanceType ==
  ASSUME NEW seed \in DOMAIN Books, NEW d \in Debtors,
         NEW i \in DOMAIN Books[seed][d].invoices
  PROVE  LET inv == Books[seed][d].invoices[i]
         IN  /\ Balance(inv) \in Nat /\ Outstanding(inv) \in Nat
             /\ Balance(inv) <= Outstanding(inv)
             /\ inv.days \in Nat \ {0}
<1> DEFINE inv == Books[seed][d].invoices[i]
<1>1. /\ {inv.amount, inv.received, inv.tds} \subseteq Nat
      /\ inv.days \in Nat \ {0}
      /\ Balance(inv) >= 0
  BY GeneratorAssumption DEF Debtors
<1>2. QED
  BY <1>1 DEF Balance, Outstanding

LEMMA OwedType ==
  ASSUME NEW seed \in DOMAIN Books, NEW d \in Debtors
  PROVE  /\ IsFiniteSet(DOMAIN Books[seed][d].invoices)
         /\ Collectible(Books[seed][d].invoices) \in Nat
         /\ Naive(Books[seed][d].invoices) \in Nat
         /\ Collectible(Books[seed][d].invoices) <= Naive(Books[seed][d].invoices)
<1> DEFINE invs == Books[seed][d].invoices
           f == [i \in DOMAIN invs |-> Balance(invs[i])]
           g == [i \in DOMAIN invs |-> Outstanding(invs[i])]
<1>1. IsFiniteSet(DOMAIN invs)
  BY GeneratorAssumption DEF Debtors
<1>2. \A i \in DOMAIN invs : f[i] \in Nat /\ g[i] \in Nat /\ f[i] <= g[i]
  BY BalanceType
<1>3. DOMAIN f = DOMAIN invs /\ DOMAIN g = DOMAIN invs
  OBVIOUS
<1>4. Collectible(invs) = SumFunction(f) /\ Naive(invs) = SumFunction(g)
  BY DEF Collectible, Naive
<1> HIDE DEF f, g
<1>5. /\ SumFunctionOnSet(f, DOMAIN invs) \in Nat
      /\ SumFunctionOnSet(g, DOMAIN invs) \in Nat
  BY <1>1, <1>2, SumOfNaturals
<1>6. SumFunctionOnSet(f, DOMAIN invs) <= SumFunctionOnSet(g, DOMAIN invs)
  <2>1. \A i \in DOMAIN invs : f[i] \in Int /\ g[i] \in Int /\ f[i] <= g[i]
    BY <1>2
  <2>2. QED
    BY <1>1, <2>1, SumMonotone
<1>7. QED
  BY <1>1, <1>3, <1>4, <1>5, <1>6 DEF SumFunction

LEMMA MinAskType ==
  ASSUME NEW owed \in Nat
  PROVE  MinAsk(owed) \in 0..owed
<1>1. PICK p \in Nat : p = owed * ConcessionBps
  BY EnvelopeAssumption
<1>2. ConcessionBps \in 0..10000 /\ p <= owed * 10000
  BY <1>1, EnvelopeAssumption
<1>3. PICK q \in Nat : q = p \div 10000
  BY <1>1
<1>4. q <= owed
  BY <1>2, <1>3
<1>5. QED
  BY <1>1, <1>3, <1>4 DEF MinAsk

LEMMA ClampType ==
  ASSUME NEW ask \in Int, NEW owed \in Nat
  PROVE  /\ Clamp(ask, owed) \in Int
         /\ MinAsk(owed) <= Clamp(ask, owed) /\ Clamp(ask, owed) <= owed
  BY MinAskType DEF Clamp

(* Nobody is asked for money who has nothing to pay. *)
LEMMA AskingNeedsBalance ==
  ASSUME NEW seed \in DOMAIN Books, NEW d \in Debtors, NEW past,
         NEW s \in AsksForMoney,
         s \in Permitted(Books[seed][d], Books[seed][d].invoices, past)
  PROVE  Collectible(Books[seed][d].invoices) > 0
<1>1. s \notin Excluded(Books[seed][d], Books[seed][d].invoices, past)
  BY DEF Permitted
<1>2. ~(Collectible(Books[seed][d].invoices) <= 0)
  BY <1>1 DEF Excluded
<1>3. QED
  BY <1>2, OwedType

Row(x) ==
    x = [strategy |-> x.strategy, channel |-> x.channel, ask |-> x.ask,
         deadline |-> x.deadline, review |-> x.review]

(* The strategy and the ask the corrections leave of an answer. *)
LEMMA DecisionFields ==
  ASSUME NEW answer, Row(answer), NEW permitted, NEW owed,
         NEW x, x = Decision(answer, permitted, owed)
  PROVE  /\ x.strategy = IF answer.strategy \in permitted
                         THEN answer.strategy ELSE Fallback(permitted)
         /\ x.ask = IF x.strategy \in AsksForMoney THEN Clamp(answer.ask, owed) ELSE 0
<1>1. PICK a : a = BoundAsk(Intercept(answer, permitted), owed)
  OBVIOUS
<1>2. /\ Row(a)
      /\ a.strategy = IF answer.strategy \in permitted
                      THEN answer.strategy ELSE Fallback(permitted)
      /\ a.ask = IF a.strategy \in AsksForMoney THEN Clamp(answer.ask, owed) ELSE 0
  BY <1>1 DEF Intercept, BoundAsk, Row
<1>3. x = ClassReview(DropPastDeadline(DropDelivery(a)))
  BY <1>1 DEF Decision
<1>4. x.strategy = a.strategy /\ x.ask = a.ask
  BY <1>2, <1>3 DEF ClassReview, DropPastDeadline, DropDelivery, Row
<1>5. QED
  BY <1>2, <1>4

LEMMA DecisionLawful ==
  ASSUME NEW seed \in DOMAIN Books, NEW d \in Debtors, ~Books[seed][d].optedOut,
         NEW past, NEW answer, Row(answer), answer.ask \in Int
  PROVE  LET row == Books[seed][d]
         IN  Lawful(row, Decision(answer, Permitted(row, row.invoices, past),
                                  Collectible(row.invoices)))
<1> DEFINE row == Books[seed][d]
           permitted == Permitted(row, row.invoices, past)
           owed == Collectible(row.invoices)
           x == Decision(answer, permitted, owed)
<1>1. /\ x.strategy = IF answer.strategy \in permitted
                      THEN answer.strategy ELSE Fallback(permitted)
      /\ x.ask = IF x.strategy \in AsksForMoney THEN Clamp(answer.ask, owed) ELSE 0
  <2> HIDE DEF permitted, owed
  <2>1. QED
    BY DecisionFields
<1>2. owed \in Nat
  BY OwedType
<1> HIDE DEF x
<1>3. CASE x.strategy \in AsksForMoney
  <2>1. x.strategy \in permitted
    <3> HIDE DEF permitted
    <3>1. QED
      BY <1>1, <1>3 DEF Fallback, AsksForMoney
  <2>2. owed > 0
    BY <1>3, <2>1, AskingNeedsBalance
  <2>3. x.ask = Clamp(answer.ask, owed)
    BY <1>1, <1>3
  <2>4. x.ask \in Int /\ MinAsk(owed) <= x.ask /\ x.ask <= owed
    BY <1>2, <2>3, ClampType
  <2>5. Lawful(row, x)
    BY <1>3, <2>2, <2>4 DEF Lawful
  <2>6. QED
    BY <2>5 DEF x
<1>4. CASE x.strategy \notin AsksForMoney
  <2>1. x.ask = 0
    BY <1>1, <1>4
  <2>2. Lawful(row, x)
    BY <1>4, <2>1 DEF Lawful
  <2>3. QED
    BY <2>2 DEF x
<1>5. QED
  BY <1>3, <1>4

LEMMA NoAnswerLawful ==
  ASSUME NEW row, ~row.optedOut, NEW permitted
  PROVE  Lawful(row, NoAnswer(permitted))
  BY DEF Lawful, NoAnswer, Fallback, AsksForMoney

LEMMA SuppressedLawful == ASSUME NEW row PROVE Lawful(row, Suppressed)
  BY DEF Lawful, Suppressed, AsksForMoney

LEMMA AloneLawful ==
  ASSUME NEW seed \in DOMAIN Books, NEW d \in Debtors
  PROVE  Lawful(Books[seed][d], Alone(seed, d))
<1> DEFINE row == Books[seed][d]
           permitted == Permitted(row, row.invoices, Histories[FALSE])
           owed == Collectible(row.invoices)
           answer == ScriptedAnswer(row, row.invoices, permitted)
<1>1. CASE row.optedOut
  BY <1>1, SuppressedLawful DEF Alone
<1>2. CASE ~row.optedOut
  <2>1. owed \in Nat
    BY OwedType
  <2>2. answer.ask \in Int
    <3>1. answer.ask = IF answer.strategy \in AsksForMoney THEN Clamp(owed, owed) ELSE 0
      BY DEF ScriptedAnswer
    <3>2. Clamp(owed, owed) \in Int
      BY <2>1, ClampType
    <3> HIDE DEF answer, owed
    <3>3. QED
      BY <3>1, <3>2
  <2>3. ScriptedDecision[seed][d][FALSE] = Decision(answer, permitted, owed)
    <3>1. PermittedTo[seed][d][FALSE] = permitted
      BY DEF PermittedTo, Debtors
    <3>2. OwedBy[seed][d] = owed
      BY DEF OwedBy, Debtors
    <3> HIDE DEF permitted, owed
    <3>3. QED
      BY <3>1, <3>2 DEF ScriptedDecision, Debtors
  <2>4. Row(answer)
    BY DEF ScriptedAnswer, Row
  <2>5. QED
    <3> HIDE DEF answer
    <3>1. QED
      BY <1>2, <2>2, <2>3, <2>4, DecisionLawful DEF Alone
<1>3. QED
  BY <1>1, <1>2
-----------------------------------------------------------------------------
ThreadType ==
    /\ pc \in [Threads -> PCs]
    /\ request \in [Threads -> Requests \cup {NoRequest}]
    /\ scripted \in [Threads -> BOOLEAN]
    /\ scopes \in [Threads -> Seq(SUBSET LogEntry)]
    /\ folded \in [Threads -> {{}}]
    /\ DOMAIN decisions = Threads
    /\ DOMAIN sources = Threads
    /\ DOMAIN report = Threads
    /\ DOMAIN reply = Threads

(* Where a thread is tells which scopes it has open, whether the script    *)
(* stands in for the model, and which of the two runs it is on.            *)
Control(t) ==
    /\ Len(scopes[t]) = Depth(pc[t])
    /\ scripted[t] <=> pc[t] \in {"fold", "batch"} /\ ~request[t].live
    /\ pc[t] # "idle" => request[t] \in Requests
    /\ pc[t] = "asking" => request[t].live
    /\ pc[t] \in {"copy", "store", "trim", "evict"} => ~request[t].live

(* Nothing is decided before the batch; what a batch has decided is lawful *)
(* and, offline, what the debtor would get alone; what is reported is all  *)
(* of it.                                                                  *)
Work(t) ==
    /\ pc[t] \in Before => decisions[t] = Nothing /\ sources[t] = {}
    /\ pc[t] = "fold" => scopes[t] = <<{}, {}>>
    /\ pc[t] = "asking" => Undecided(t) # {} /\ ~Book(t)[NextDebtor(t)].optedOut
    /\ request[t].live => "script" \notin sources[t]
    /\ pc[t] \notin Before =>
         /\ LawfulBatch(Seed(t), decisions[t])
         /\ ~request[t].live => PureBatch(Seed(t), decisions[t])
    /\ pc[t] \in After =>
         /\ Evaluated(Book(t)) \subseteq DOMAIN decisions[t]
         /\ report[t] = Report(request[t].key, decisions[t])

ThreadInv == ThreadType /\ \A t \in Threads : Control(t) /\ Work(t)

LEMMA ThreadInit == Init => ThreadInv
<1> SUFFICES ASSUME Init PROVE ThreadInv
  OBVIOUS
<1>1. <<>> \in Seq(SUBSET LogEntry) /\ Len(<<>>) = 0
  OBVIOUS
<1>2. ThreadType
  BY <1>1 DEF Init, ThreadType, PCs
<1>3. ASSUME NEW t \in Threads PROVE Control(t) /\ Work(t)
  <2>1. /\ pc[t] = "idle" /\ scopes[t] = <<>> /\ scripted[t] = FALSE
        /\ request[t] = NoRequest /\ sources[t] = {} /\ decisions[t] = Nothing
    BY DEF Init
  <2>2. Control(t)
    BY <1>1, <2>1 DEF Control, Depth
  <2>3. Work(t)
    BY <2>1 DEF Work, Before, After, NoRequest
  <2>4. QED
    BY <2>2, <2>3
<1>4. QED
  BY <1>2, <1>3 DEF ThreadInv

(* A thread an action does not concern stays as it is. *)
Unmoved(u) ==
    /\ pc'[u] = pc[u] /\ request'[u] = request[u]
    /\ scopes'[u] = scopes[u] /\ scripted'[u] = scripted[u]
    /\ decisions'[u] = decisions[u] /\ sources'[u] = sources[u] /\ report'[u] = report[u]

LEMMA UnmovedKeeps ==
  ASSUME NEW u \in Threads, Control(u), Work(u), Unmoved(u)
  PROVE  Control(u)' /\ Work(u)'
<1>1. Control(u)'
  BY DEF Control, Unmoved
<1>2. Seed(u)' = Seed(u) /\ Book(u)' = Book(u)
  BY DEF Unmoved, Seed, Book
<1>3. Undecided(u)' = Undecided(u)
  BY <1>2 DEF Unmoved, Undecided
<1>4. NextDebtor(u)' = NextDebtor(u)
  BY <1>3 DEF NextDebtor
<1>5. Work(u)'
  BY <1>2, <1>3, <1>4 DEF Work, Unmoved
<1>6. QED
  BY <1>1, <1>5

(* A log entry of a batch goes to its scratch log. *)
LEMMA RecordScratch ==
  ASSUME ThreadType, NEW t \in Threads, Len(scopes[t]) \in Nat \ {0},
         NEW entries \in SUBSET LogEntry, Record(t, entries)
  PROVE  /\ UNCHANGED production
         /\ scopes' \in [Threads -> Seq(SUBSET LogEntry)]
         /\ Len(scopes'[t]) = Len(scopes[t])
         /\ \A u \in Threads \ {t} : scopes'[u] = scopes[u]
<1> DEFINE s == scopes[t]
           n == Len(s)
           r == [s EXCEPT ![n] = @ \cup entries]
<1>1. s \in Seq(SUBSET LogEntry) /\ n \in 1..Len(s)
  BY DEF ThreadType
<1>2. s # <<>>
  BY <1>1
<1>3. s[n] \in SUBSET LogEntry
  BY <1>1
<1>4. r \in Seq(SUBSET LogEntry) /\ Len(r) = Len(s)
  BY <1>1, <1>3
<1>5. scopes' = [scopes EXCEPT ![t] = r] /\ UNCHANGED production
  BY <1>2 DEF Record
<1> HIDE DEF r
<1>6. QED
  BY <1>4, <1>5 DEF ThreadType

(* A request that is over leaves nothing behind. *)
LEMMA EndKeeps ==
  ASSUME ThreadInv, NEW t \in Threads, Forget(t),
         pc' = [pc EXCEPT ![t] = "idle"],
         scopes' \in [Threads -> Seq(SUBSET LogEntry)], scopes'[t] = <<>>,
         \A u \in Threads \ {t} : scopes'[u] = scopes[u],
         scripted' = [scripted EXCEPT ![t] = FALSE],
         DOMAIN reply' = Threads
  PROVE  ThreadInv'
<1>1. ThreadType'
  BY DEF ThreadInv, ThreadType, Forget, PCs
<1>2. ASSUME NEW u \in Threads \ {t} PROVE Control(u)' /\ Work(u)'
  <2>1. Unmoved(u)
    BY <1>2 DEF Unmoved, Forget, ThreadInv, ThreadType
  <2>2. QED
    BY <2>1, UnmovedKeeps DEF ThreadInv
<1>3. /\ pc'[t] = "idle" /\ request'[t] = NoRequest /\ scripted'[t] = FALSE
      /\ decisions'[t] = Nothing /\ sources'[t] = {}
  BY DEF Forget, ThreadInv, ThreadType
<1>4. Control(t)'
  BY <1>3 DEF Control, Depth
<1>5. Work(t)'
  BY <1>3 DEF Work, Before, After, NoRequest
<1>6. QED
  BY <1>1, <1>2, <1>4, <1>5 DEF ThreadInv

LEMMA LeaveKeeps ==
  ASSUME ThreadInv, NEW t \in Threads, NEW status, NEW data, Leave(t, status, data)
  PROVE  ThreadInv'
<1>1. <<>> \in Seq(SUBSET LogEntry)
  OBVIOUS
<1>2. /\ scopes' \in [Threads -> Seq(SUBSET LogEntry)] /\ scopes'[t] = <<>>
      /\ \A u \in Threads \ {t} : scopes'[u] = scopes[u]
  BY <1>1 DEF Leave, ThreadInv, ThreadType
<1>3. scripted' = [scripted EXCEPT ![t] = FALSE]
  BY DEF Leave, Restored, ThreadInv, ThreadType, Control
<1>4. QED
  BY <1>2, <1>3, EndKeeps DEF Leave, Reply, ThreadInv, ThreadType
-----------------------------------------------------------------------------
LEMMA SeedIs ==
  ASSUME NEW t \in Threads, request[t] \in Requests
  PROVE  Seed(t) \in DOMAIN Books /\ Book(t) = Books[Seed(t)] /\ request[t].key \in Keys
  BY PageAssumption DEF Seed, Book, Keys

LEMMA NextDebtorIs ==
  ASSUME NEW t \in Threads, request[t] \in Requests, Undecided(t) # {}
  PROVE  NextDebtor(t) \in Evaluated(Book(t)) \ DOMAIN decisions[t]
<1>1. Order \in Seq(Range(Order))
  BY PageAssumption
<1>2. DOMAIN Order \in SUBSET Nat
  BY <1>1
<1>3. Undecided(t) \in SUBSET Nat
  BY <1>2 DEF Undecided
<1>4. Min(Undecided(t)) \in Undecided(t)
  BY <1>3, LeastNatural DEF Min
<1>5. QED
  BY <1>4 DEF NextDebtor, Undecided

LEMMA DecideKeeps ==
  ASSUME ThreadInv, NEW t \in Threads, pc[t] \in {"batch", "asking"},
         NEW d \in Evaluated(Book(t)) \ DOMAIN decisions[t], NEW decision, NEW source,
         Decide(t, d, decision, source),
         Lawful(Book(t)[d], decision),
         ~request[t].live => decision = Alone(Seed(t), d),
         request[t].live => "script" \notin source
  PROVE  ThreadInv' /\ UNCHANGED production
<1>1. Control(t) /\ Work(t) /\ ThreadType
  BY DEF ThreadInv
<1>2. request[t] \in Requests /\ Len(scopes[t]) = 2 /\ pc[t] \notin Before
  BY <1>1 DEF Control, Depth, Before
<1>3. Seed(t) \in DOMAIN Books /\ Book(t) = Books[Seed(t)] /\ d \in Debtors
  BY <1>2, SeedIs, BookRow
<1>4. {Entry(t, d, decision.channel # "none")} \in SUBSET LogEntry
  BY <1>3 DEF Entry, LogEntry
<1>5. /\ UNCHANGED production
      /\ scopes' \in [Threads -> Seq(SUBSET LogEntry)]
      /\ Len(scopes'[t]) = 2
      /\ \A u \in Threads \ {t} : scopes'[u] = scopes[u]
  <2> DEFINE entries == {Entry(t, d, decision.channel # "none")}
  <2>1. Record(t, entries) /\ entries \in SUBSET LogEntry /\ Len(scopes[t]) \in Nat \ {0}
    BY <1>2, <1>4 DEF Decide
  <2> HIDE DEF entries
  <2>2. QED
    BY <1>1, <1>2, <2>1, RecordScratch
<1>6. /\ pc' = [pc EXCEPT ![t] = "batch"]
      /\ decisions' = [decisions EXCEPT ![t] = Adding(decisions[t], d, decision)]
      /\ sources' = [sources EXCEPT ![t] = sources[t] \cup source]
      /\ UNCHANGED <<scripted, request, folded, report, reply>>
  BY DEF Decide
<1>7. ThreadType'
  BY <1>1, <1>5, <1>6 DEF ThreadType, PCs
<1>8. ASSUME NEW u \in Threads \ {t} PROVE Control(u)' /\ Work(u)'
  <2>1. Unmoved(u)
    BY <1>1, <1>5, <1>6 DEF Unmoved, ThreadType
  <2>2. QED
    BY <2>1, UnmovedKeeps DEF ThreadInv
<1>9. /\ pc'[t] = "batch"
      /\ decisions'[t] = Adding(decisions[t], d, decision)
      /\ sources'[t] = sources[t] \cup source
      /\ request'[t] = request[t] /\ scripted'[t] = scripted[t]
  BY <1>1, <1>6 DEF ThreadType
<1>10. Control(t)'
  BY <1>1, <1>2, <1>5, <1>9 DEF Control, Depth
<1> DEFINE agent == decisions[t]
           more == Adding(agent, d, decision)
<1>11. /\ LawfulBatch(Seed(t), agent)
       /\ ~request[t].live => PureBatch(Seed(t), agent)
  BY <1>1, <1>2 DEF Work
<1>12. /\ DOMAIN more = DOMAIN agent \cup {d}
       /\ more[d] = decision
       /\ \A e \in DOMAIN agent : more[e] = agent[e]
  BY DEF Adding
<1> HIDE DEF more, agent
<1>13. LawfulBatch(Seed(t), more)
  <2>1. more = [e \in DOMAIN more |-> more[e]]
    BY DEF more, Adding
  <2>2. QED
    BY <1>3, <1>11, <1>12, <2>1 DEF LawfulBatch
<1>14. ~request[t].live => PureBatch(Seed(t), more)
  BY <1>11, <1>12 DEF PureBatch
<1>15. Work(t)'
  <2>1. Seed(t)' = Seed(t)
    BY <1>9 DEF Seed
  <2>2. request[t].live => "script" \notin sources[t] \cup source
    BY <1>1 DEF Work
  <2>3. QED
    BY <1>9, <1>13, <1>14, <2>1, <2>2 DEF Work, Before, After, more, agent
<1>16. QED
  BY <1>5, <1>7, <1>8, <1>10, <1>15 DEF ThreadInv
(* A thread that only moves on, between steps with the same scopes open.   *)
LEMMA MoveKeeps ==
  ASSUME ThreadInv, NEW t \in Threads, NEW p,
         pc' = [pc EXCEPT ![t] = p], DOMAIN reply' = Threads,
         UNCHANGED <<contextVars, workVars>>,
         \/ {pc[t], p} \subseteq {"lookup", "copy", "open"}
         \/ {pc[t], p} \subseteq {"store", "trim", "evict", "close"},
         p \in {"copy", "store", "trim", "evict"} => ~request[t].live
  PROVE  ThreadInv'
<1>1. Control(t) /\ Work(t) /\ ThreadType
  BY DEF ThreadInv
<1>2. ThreadType'
  BY <1>1 DEF ThreadType, contextVars, workVars, PCs
<1>3. /\ pc'[t] = p
      /\ UNCHANGED <<scopes, scripted, request, decisions, sources, report>>
      /\ \A u \in Threads \ {t} : pc'[u] = pc[u]
  BY <1>1 DEF ThreadType, contextVars, workVars
<1>4. ASSUME NEW u \in Threads \ {t} PROVE Control(u)' /\ Work(u)'
  BY <1>3, UnmovedKeeps DEF ThreadInv, Unmoved
<1>5. Control(t)'
  BY <1>1, <1>3 DEF Control, Depth
<1>6. Work(t)'
  BY <1>1, <1>3 DEF Work, Before, After, Seed, Book
<1>7. QED
  BY <1>2, <1>4, <1>5, <1>6 DEF ThreadInv
-----------------------------------------------------------------------------
LEMMA ArriveKeeps ==
  ASSUME ThreadInv, NEW t \in Threads, NEW r \in Requests, Arrive(t, r)
  PROVE  ThreadInv'
<1>1. Control(t) /\ Work(t) /\ ThreadType
  BY DEF ThreadInv
<1>2. /\ pc[t] = "idle" /\ DOMAIN reply' = Threads
      /\ UNCHANGED <<scopes, scripted, decisions, sources, report, folded>>
  BY <1>1 DEF Arrive, Reply, ThreadType, contextVars
<1>3. ASSUME pc' = pc, request' = request PROVE ThreadInv'
  <2>1. \A u \in Threads : Unmoved(u)
    BY <1>2, <1>3 DEF Unmoved
  <2>2. ThreadType'
    BY <1>1, <1>2, <1>3 DEF ThreadType
  <2>3. ASSUME NEW u \in Threads PROVE Control(u)' /\ Work(u)'
    BY <2>1, UnmovedKeeps DEF ThreadInv
  <2>4. QED
    BY <2>2, <2>3 DEF ThreadInv
<1>4. CASE ~Allowed(r)
  <2>1. pc' = pc /\ request' = request
    <3>1. pc' = [pc EXCEPT ![t] = "idle"] /\ request' = request
      BY <1>4 DEF Arrive, Reply
    <3>2. pc \in [Threads -> PCs] /\ pc[t] = "idle"
      BY <1>1, <1>2 DEF ThreadType
    <3>3. QED
      BY <3>1, <3>2
  <2>2. QED
    BY <1>3, <2>1
<1>5. CASE Allowed(r)
  <2>1. pc' = [pc EXCEPT ![t] = "lookup"] /\ request' = [request EXCEPT ![t] = r]
    BY <1>5 DEF Arrive
  <2>2. ThreadType'
    BY <1>1, <1>2, <2>1 DEF ThreadType, PCs
  <2>3. ASSUME NEW u \in Threads \ {t} PROVE Control(u)' /\ Work(u)'
    <3>1. Unmoved(u)
      BY <1>1, <1>2, <2>1 DEF Unmoved, ThreadType
    <3>2. QED
      BY <3>1, UnmovedKeeps DEF ThreadInv
  <2>4. pc'[t] = "lookup" /\ request'[t] = r
    BY <1>1, <2>1 DEF ThreadType
  <2>5. Control(t)'
    BY <1>1, <1>2, <2>4 DEF Control, Depth
  <2>6. Work(t)'
    BY <1>1, <1>2, <2>4 DEF Work, Before, After
  <2>7. QED
    BY <2>2, <2>3, <2>5, <2>6 DEF ThreadInv
<1>6. QED
  BY <1>4, <1>5

LEMMA LookUpKeeps ==
  ASSUME ThreadInv, NEW t \in Threads, LookUp(t)
  PROVE  ThreadInv'
<1>1. PICK p : p = IF ~request[t].live /\ Cached(request[t].key) THEN "copy" ELSE "open"
  OBVIOUS
<1>2. /\ pc[t] = "lookup" /\ pc' = [pc EXCEPT ![t] = p]
      /\ UNCHANGED <<contextVars, workVars>>
      /\ DOMAIN reply' = Threads
  BY <1>1 DEF LookUp, ThreadInv, ThreadType
<1>3. p \in {"copy", "open"} /\ (p = "copy" => ~request[t].live)
  BY <1>1
<1>4. QED
  BY <1>2, <1>3, MoveKeeps

LEMMA CopyKeeps ==
  ASSUME ThreadInv, NEW t \in Threads, Copy(t)
  PROVE  ThreadInv'
<1>1. Control(t) /\ ThreadType
  BY DEF ThreadInv
<1>2. /\ pc[t] = "copy" /\ pc' = [pc EXCEPT ![t] = "idle"] /\ Forget(t)
      /\ DOMAIN reply' = Threads
      /\ UNCHANGED <<scopes, scripted>>
  BY <1>1 DEF Copy, Reply, ThreadType, contextVars
<1>3. scopes[t] = <<>>
  <2>1. scopes[t] \in Seq(SUBSET LogEntry) /\ Len(scopes[t]) = 0
    BY <1>1, <1>2 DEF Control, Depth, ThreadType
  <2>2. QED
    BY <2>1, EmptySeq
<1>4. scripted' = [scripted EXCEPT ![t] = FALSE]
  <2>1. scripted \in [Threads -> BOOLEAN] /\ ~scripted[t]
    BY <1>1, <1>2 DEF Control, ThreadType
  <2>2. QED
    BY <1>2, <2>1
<1>5. QED
  BY <1>1, <1>2, <1>3, <1>4, EndKeeps DEF ThreadType

LEMMA OpenKeeps ==
  ASSUME ThreadInv, NEW t \in Threads, Open(t)
  PROVE  ThreadInv'
<1>1. Control(t) /\ Work(t) /\ ThreadType
  BY DEF ThreadInv
<1>2. <<{}, {}>> \in Seq(SUBSET LogEntry) /\ Len(<<{}, {}>>) = 2
  OBVIOUS
<1>3. /\ pc[t] = "open"
      /\ pc' = [pc EXCEPT ![t] = "fold"]
      /\ scopes' = [scopes EXCEPT ![t] = <<{}, {}>>]
      /\ scripted' = [scripted EXCEPT ![t] = scripted[t] \/ ~request[t].live]
      /\ UNCHANGED <<request, folded, decisions, sources, report, reply>>
  BY DEF Open, workVars
<1>4. ThreadType'
  BY <1>1, <1>2, <1>3 DEF ThreadType, PCs
<1>5. ASSUME NEW u \in Threads \ {t} PROVE Control(u)' /\ Work(u)'
  <2>1. Unmoved(u)
    BY <1>1, <1>3 DEF Unmoved, ThreadType
  <2>2. QED
    BY <2>1, UnmovedKeeps DEF ThreadInv
<1>6. /\ pc'[t] = "fold" /\ scopes'[t] = <<{}, {}>> /\ scripted'[t] = ~request[t].live
  BY <1>1, <1>3 DEF ThreadType, Control
<1>7. Control(t)'
  BY <1>1, <1>2, <1>3, <1>6 DEF Control, Depth
<1>8. Work(t)'
  BY <1>1, <1>3, <1>6 DEF Work, Before, After
<1>9. QED
  BY <1>4, <1>5, <1>7, <1>8 DEF ThreadInv

LEMMA FoldLogKeeps ==
  ASSUME ThreadInv, NEW t \in Threads, FoldLog(t)
  PROVE  ThreadInv'
<1>1. Control(t) /\ Work(t) /\ ThreadType
  BY DEF ThreadInv
<1>2. pc[t] = "fold" /\ scopes[t] = <<{}, {}>>
  BY <1>1 DEF FoldLog, Work
<1>3. LogRead(t) = {}
  BY <1>2 DEF LogRead, Last
<1>4. folded' = [folded EXCEPT ![t] = {}]
  BY <1>3 DEF FoldLog
<1>5. /\ pc' = [pc EXCEPT ![t] = "batch"]
      /\ UNCHANGED <<request, scopes, scripted, decisions, sources, report, reply>>
  BY DEF FoldLog, contextVars
<1>6. ThreadType'
  BY <1>1, <1>4, <1>5 DEF ThreadType, PCs
<1>7. ASSUME NEW u \in Threads \ {t} PROVE Control(u)' /\ Work(u)'
  <2>1. Unmoved(u)
    BY <1>1, <1>5 DEF Unmoved, ThreadType
  <2>2. QED
    BY <2>1, UnmovedKeeps DEF ThreadInv
<1>8. pc'[t] = "batch"
  BY <1>1, <1>5 DEF ThreadType
<1>9. Control(t)'
  BY <1>1, <1>2, <1>5, <1>8 DEF Control, Depth
<1>10. Work(t)'
  <2>1. decisions[t] = <<>> /\ DOMAIN decisions[t] = {}
    BY <1>1, <1>2 DEF Work, Before, Nothing
  <2>2. LawfulBatch(Seed(t), decisions[t]) /\ PureBatch(Seed(t), decisions[t])
    <3>1. <<>> = [d \in DOMAIN <<>> |-> <<>>[d]]
      OBVIOUS
    <3>2. QED
      BY <2>1, <3>1 DEF LawfulBatch, PureBatch
  <2>3. Seed(t)' = Seed(t)
    BY <1>5 DEF Seed
  <2>4. request[t].live => "script" \notin sources[t]
    BY <1>1 DEF Work
  <2>5. QED
    BY <1>5, <1>8, <2>2, <2>3, <2>4 DEF Work, Before, After
<1>11. QED
  BY <1>6, <1>7, <1>9, <1>10 DEF ThreadInv
(* Where the model is asked, the run is a live one. *)
LEMMA DecideNextKeeps ==
  ASSUME ThreadInv, NEW t \in Threads, DecideNext(t)
  PROVE  ThreadInv' /\ UNCHANGED production
<1> DEFINE d == NextDebtor(t)
           row == Book(t)[d]
<1>1. Control(t) /\ Work(t) /\ ThreadType /\ pc[t] = "batch" /\ Undecided(t) # {}
  BY DEF ThreadInv, DecideNext
<1>2. request[t] \in Requests
  BY <1>1 DEF Control
<1>3. /\ d \in Evaluated(Book(t)) \ DOMAIN decisions[t]
      /\ Seed(t) \in DOMAIN Books /\ Book(t) = Books[Seed(t)]
  BY <1>1, <1>2, NextDebtorIs, SeedIs
<1>4. CASE row.optedOut /\ Decide(t, d, Suppressed, {})
  <2>1. Lawful(row, Suppressed) /\ Suppressed = Alone(Seed(t), d)
    BY <1>3, <1>4, SuppressedLawful DEF Alone
  <2>2. QED
    <3> HIDE DEF d
    <3>1. QED
      BY <1>1, <1>3, <1>4, <2>1, DecideKeeps
<1>5. CASE /\ ~row.optedOut /\ Overridden(t)
           /\ Decide(t, d, ScriptedDecision[Seed(t)][d][(d \in folded[t])], {"script"})
  <2> DEFINE x == ScriptedDecision[Seed(t)][d][(d \in folded[t])]
  <2>1. (d \in folded[t]) = FALSE
    BY <1>1 DEF ThreadType
  <2>2. x = Alone(Seed(t), d)
    <3>1. x = ScriptedDecision[Seed(t)][d][FALSE]
      <4> HIDE DEF d
      <4>1. QED
        BY <2>1, Zenon
    <3>2. QED
      BY <1>3, <1>5, <3>1 DEF Alone
  <2>3. d \in Debtors
    BY <1>3, BookRow
  <2>4. Lawful(row, x)
    BY <1>3, <2>2, <2>3, AloneLawful
  <2>5. ~request[t].live
    BY <1>1, <1>5 DEF Control, Overridden
  <2>6. Decide(t, d, x, {"script"})
    BY <1>5
  <2>7. QED
    <3> HIDE DEF d, x
    <3>1. QED
      BY <1>1, <1>3, <2>2, <2>4, <2>5, <2>6, DecideKeeps
<1>6. CASE /\ ~row.optedOut /\ ~Overridden(t)
           /\ pc' = [pc EXCEPT ![t] = "asking"]
           /\ UNCHANGED <<cache, production, contacted, contextVars, workVars, reply>>
  <2>1. request[t].live /\ ~scripted[t]
    BY <1>1, <1>6 DEF Control, Overridden
  <2>2. UNCHANGED <<scopes, scripted, request, folded, decisions, sources, report, reply>>
    BY <1>6 DEF contextVars, workVars
  <2>3. ThreadType'
    BY <1>1, <1>6, <2>2 DEF ThreadType, PCs
  <2>4. ASSUME NEW u \in Threads \ {t} PROVE Control(u)' /\ Work(u)'
    <3>1. Unmoved(u)
      BY <1>1, <1>6, <2>2 DEF Unmoved, ThreadType
    <3>2. QED
      BY <3>1, UnmovedKeeps DEF ThreadInv
  <2>5. pc'[t] = "asking"
    BY <1>1, <1>6 DEF ThreadType
  <2>6. Control(t)'
    BY <1>1, <1>2, <2>1, <2>2, <2>5 DEF Control, Depth
  <2>7. Work(t)'
    <3>1. Undecided(t)' = Undecided(t) /\ Book(t)' = Book(t) /\ Seed(t)' = Seed(t)
      BY <2>2 DEF Undecided, Book, Seed
    <3>2. NextDebtor(t)' = NextDebtor(t)
      BY <3>1 DEF NextDebtor
    <3>3. QED
      BY <1>1, <1>6, <2>2, <2>5, <3>1, <3>2 DEF Work, Before, After
  <2>8. QED
    BY <1>6, <2>3, <2>4, <2>6, <2>7 DEF ThreadInv
<1>7. QED
  BY <1>4, <1>5, <1>6 DEF DecideNext

LEMMA AskModelKeeps ==
  ASSUME ThreadInv, NEW t \in Threads, AskModel(t)
  PROVE  ThreadInv'
<1>1. UNCHANGED <<pc, scopes, scripted, request, folded, decisions, sources, report, reply>>
  BY DEF AskModel, contextVars, workVars
<1>2. \A u \in Threads : Unmoved(u)
  BY <1>1 DEF Unmoved
<1>3. ThreadType'
  BY <1>1 DEF ThreadInv, ThreadType
<1>4. ASSUME NEW u \in Threads PROVE Control(u)' /\ Work(u)'
  BY <1>2, UnmovedKeeps DEF ThreadInv
<1>5. QED
  BY <1>3, <1>4 DEF ThreadInv

(* A debtor that opted out never comes to be asked about. *)
LEMMA TakeAnswerKeeps ==
  ASSUME ThreadInv, NEW t \in Threads, TakeAnswer(t)
  PROVE  ThreadInv' /\ UNCHANGED production
<1> DEFINE d == NextDebtor(t)
           row == Book(t)[d]
           permitted == PermittedNow(t, d)
           owed == OwedBy[Seed(t)][d]
<1>1. Control(t) /\ Work(t) /\ pc[t] = "asking"
  BY DEF ThreadInv, TakeAnswer
<1>2. /\ request[t] \in Requests /\ request[t].live
      /\ Undecided(t) # {} /\ ~row.optedOut
  BY <1>1 DEF Control, Work
<1>3. /\ d \in Evaluated(Book(t)) \ DOMAIN decisions[t]
      /\ Seed(t) \in DOMAIN Books /\ Book(t) = Books[Seed(t)]
  BY <1>2, NextDebtorIs, SeedIs
<1>4. d \in Debtors
  BY <1>3, BookRow
<1>5. owed = Collectible(row.invoices)
  BY <1>3, <1>4 DEF OwedBy, Debtors
<1>6. (d \in folded[t]) = FALSE
  BY DEF ThreadInv, ThreadType
<1>7. permitted = Permitted(row, row.invoices, Histories[FALSE])
  <2>1. permitted = PermittedTo[Seed(t)][d][FALSE]
    <3> HIDE DEF d
    <3>1. QED
      BY <1>6, Zenon DEF PermittedNow
  <2> HIDE DEF d
  <2>2. QED
    BY <1>3, <1>4, <2>1 DEF PermittedTo, Debtors
<1>8. CASE Decide(t, d, NoAnswer(permitted), {"fallback"})
  <2>1. Lawful(row, NoAnswer(permitted))
    BY <1>2, NoAnswerLawful
  <2> HIDE DEF d, permitted
  <2>2. QED
    BY <1>1, <1>2, <1>3, <1>8, <2>1, DecideKeeps
<1>9. ASSUME NEW answer \in Answers,
             Decide(t, d, Decision(answer, permitted, owed), {"model"})
      PROVE  ThreadInv' /\ UNCHANGED production
  <2>1. answer.ask \in Int /\ Row(answer)
    BY PageAssumption DEF DecisionRow, Row
  <2>2. Lawful(row, Decision(answer, permitted, owed))
    BY <1>2, <1>3, <1>4, <1>5, <1>7, <2>1, DecisionLawful
  <2> HIDE DEF d, permitted, owed
  <2>3. QED
    BY <1>1, <1>2, <1>3, <1>9, <2>2, DecideKeeps
<1>10. QED
  BY <1>8, <1>9 DEF TakeAnswer

LEMMA EndExperimentKeeps ==
  ASSUME ThreadInv, NEW t \in Threads, EndExperiment(t)
  PROVE  ThreadInv'
<1>1. Control(t) /\ Work(t) /\ ThreadType /\ pc[t] = "batch" /\ Undecided(t) = {}
  BY DEF ThreadInv, EndExperiment
<1>2. request[t] \in Requests /\ Seed(t) \in DOMAIN Books /\ Book(t) = Books[Seed(t)]
  BY <1>1, SeedIs DEF Control
<1>3. /\ pc' = [pc EXCEPT ![t] = "draft"]
      /\ scopes' = [scopes EXCEPT ![t] = Front(scopes[t])]
      /\ scripted' = [scripted EXCEPT ![t] = Restored(t)]
      /\ report' = [report EXCEPT ![t] = Report(request[t].key, decisions[t])]
      /\ UNCHANGED <<request, folded, decisions, sources, reply>>
  BY DEF EndExperiment, ScopesAfter
<1>4. scopes[t] \in Seq(SUBSET LogEntry) /\ Len(scopes[t]) = 2
  BY <1>1 DEF Control, Depth, ThreadType
<1>5. Front(scopes[t]) \in Seq(SUBSET LogEntry) /\ Len(Front(scopes[t])) = 1
  <2> DEFINE s == scopes[t]
  <2>1. s \in Seq(SUBSET LogEntry) /\ Len(s) = 2 /\ Front(s) = SubSeq(s, 1, 1)
    BY <1>4 DEF Front
  <2> HIDE DEF s
  <2>2. QED
    BY <2>1 DEF s
<1>6. ThreadType'
  BY <1>1, <1>3, <1>5 DEF ThreadType, Restored, PCs
<1>7. ASSUME NEW u \in Threads \ {t} PROVE Control(u)' /\ Work(u)'
  <2>1. Unmoved(u)
    BY <1>1, <1>3 DEF Unmoved, ThreadType
  <2>2. QED
    BY <2>1, UnmovedKeeps DEF ThreadInv
<1>8. /\ pc'[t] = "draft" /\ Len(scopes'[t]) = 1 /\ scripted'[t] = Restored(t)
      /\ report'[t] = Report(request[t].key, decisions[t])
  BY <1>1, <1>3, <1>5 DEF ThreadType
<1>9. Control(t)'
  BY <1>1, <1>2, <1>3, <1>8 DEF Control, Depth, Restored
<1>10. Evaluated(Book(t)) \subseteq DOMAIN decisions[t]
  <2>1. Evaluated(Book(t)) \subseteq Range(Order)
    BY <1>2, BookRow DEF Debtors
  <2>2. QED
    BY <1>1, <2>1 DEF Undecided, Range
<1>11. Work(t)'
  <2>1. Seed(t)' = Seed(t) /\ Book(t)' = Book(t)
    BY <1>3 DEF Seed, Book
  <2>2. /\ LawfulBatch(Seed(t), decisions[t])
        /\ ~request[t].live => PureBatch(Seed(t), decisions[t])
        /\ request[t].live => "script" \notin sources[t]
    BY <1>1 DEF Work, Before
  <2>3. QED
    BY <1>3, <1>8, <1>10, <2>1, <2>2 DEF Work, Before, After
<1>12. QED
  BY <1>6, <1>7, <1>9, <1>11 DEF ThreadInv

LEMMA DraftKeeps ==
  ASSUME ThreadInv, NEW t \in Threads, Draft(t)
  PROVE  ThreadInv' /\ UNCHANGED production
<1> DEFINE entries == {Entry(t, d, FALSE) : d \in Drafted(t)}
<1>1. Control(t) /\ Work(t) /\ ThreadType /\ pc[t] = "draft"
  BY DEF ThreadInv, Draft
<1>2. request[t] \in Requests /\ Seed(t) \in DOMAIN Books /\ Len(scopes[t]) = 1
  BY <1>1, SeedIs DEF Control, Depth
<1>3. DOMAIN decisions[t] \subseteq Debtors
  BY <1>1, <1>2, BookRow DEF Work, Before, LawfulBatch
<1>4. entries \in SUBSET LogEntry
  <2>1. ASSUME NEW d \in Drafted(t) PROVE Entry(t, d, FALSE) \in LogEntry
    BY <1>3, <2>1 DEF Drafted, Entry, LogEntry
  <2>2. QED
    BY <2>1
<1>5. PICK p : p = IF request[t].live THEN "close" ELSE "store"
  OBVIOUS
<1>6. /\ Record(t, entries)
      /\ pc' = [pc EXCEPT ![t] = p]
      /\ UNCHANGED <<scripted, request, folded, decisions, sources, report, reply>>
  BY <1>5 DEF Draft, workVars
<1> HIDE DEF entries
<1>7. Len(scopes[t]) \in Nat \ {0}
  BY <1>2
<1>8. /\ UNCHANGED production
      /\ scopes' \in [Threads -> Seq(SUBSET LogEntry)]
      /\ Len(scopes'[t]) = 1
      /\ \A u \in Threads \ {t} : scopes'[u] = scopes[u]
  BY <1>1, <1>2, <1>4, <1>6, <1>7, RecordScratch
<1>9. p \in {"close", "store"} /\ (p = "store" => ~request[t].live)
  BY <1>5
<1>10. ThreadType'
  BY <1>1, <1>6, <1>8, <1>9 DEF ThreadType, PCs
<1>11. ASSUME NEW u \in Threads \ {t} PROVE Control(u)' /\ Work(u)'
  <2>1. Unmoved(u)
    BY <1>1, <1>6, <1>8 DEF Unmoved, ThreadType
  <2>2. QED
    BY <2>1, UnmovedKeeps DEF ThreadInv
<1>12. pc'[t] = p
  BY <1>1, <1>6 DEF ThreadType
<1>13. Control(t)'
  BY <1>1, <1>2, <1>6, <1>8, <1>9, <1>12 DEF Control, Depth
<1>14. Work(t)'
  BY <1>1, <1>6, <1>9, <1>12 DEF Work, Before, After, Seed, Book
<1>15. QED
  BY <1>8, <1>10, <1>11, <1>13, <1>14 DEF ThreadInv
(* The steps around the cache, and the ways out. *)
LEMMA CacheStepKeeps ==
  ASSUME ThreadInv, NEW t \in Threads,
         Store(t) \/ Trim(t) \/ Evict(t) \/ Close(t) \/ Fail(t)
  PROVE  ThreadInv' /\ UNCHANGED production
<1>1. Control(t) /\ ThreadType
  BY DEF ThreadInv
<1>2. ASSUME NEW p \in {"trim", "evict", "close"}, pc[t] \in {"store", "trim", "evict"},
             pc' = [pc EXCEPT ![t] = p], UNCHANGED <<contextVars, workVars, reply>>
      PROVE  ThreadInv'
  <2>1. ~request[t].live /\ DOMAIN reply' = Threads /\ UNCHANGED <<contextVars, workVars>>
    BY <1>1, <1>2 DEF Control, ThreadType
  <2>2. {pc[t], p} \subseteq {"store", "trim", "evict", "close"}
    BY <1>2
  <2>3. QED
    BY <1>2, <2>1, <2>2, MoveKeeps
<1>3. CASE Store(t)
  BY <1>2, <1>3 DEF Store
<1>4. CASE Trim(t)
  <2>1. PICK p \in {"evict", "close"} : p = IF Overfull THEN "evict" ELSE "close"
    OBVIOUS
  <2>2. QED
    BY <1>2, <1>4, <2>1 DEF Trim
<1>5. CASE Evict(t)
  <2>1. CASE Leave(t, 500, Nothing)
    BY <2>1, LeaveKeeps DEF Leave
  <2>2. CASE ~Leave(t, 500, Nothing)
    BY <1>2, <1>5, <2>2 DEF Evict
  <2>3. QED
    BY <2>1, <2>2
<1>6. CASE Close(t)
  <2>1. Leave(t, 200, report[t])
    BY <1>6 DEF Close
  <2>2. QED
    BY <2>1, LeaveKeeps DEF Leave
<1>7. CASE Fail(t)
  <2>1. Leave(t, 500, Nothing)
    BY <1>7 DEF Fail
  <2>2. QED
    BY <2>1, LeaveKeeps DEF Leave
<1>8. QED
  BY <1>3, <1>4, <1>5, <1>6, <1>7

LEMMA StutterKeeps ==
  ASSUME ThreadInv, UNCHANGED <<pc, contextVars, workVars, reply>>
  PROVE  ThreadInv'
<1>1. \A u \in Threads : Unmoved(u)
  BY DEF Unmoved, contextVars, workVars
<1>2. ThreadType'
  BY DEF ThreadInv, ThreadType, contextVars, workVars
<1>3. ASSUME NEW u \in Threads PROVE Control(u)' /\ Work(u)'
  BY <1>1, UnmovedKeeps DEF ThreadInv
<1>4. QED
  BY <1>2, <1>3 DEF ThreadInv

(* The log of production changes by the application alone. *)
LEMMA ThreadStep ==
  ASSUME ThreadInv, [Next]_vars
  PROVE  /\ ThreadInv'
         /\ \/ UNCHANGED <<production, contacted>>
            \/ \E d \in Contacts : ApplicationContacts(d)
<1>1. CASE UNCHANGED vars
  BY <1>1, StutterKeeps DEF vars
<1>2. ASSUME NEW d \in Contacts, ApplicationContacts(d) PROVE ThreadInv'
  BY <1>2, StutterKeeps DEF ApplicationContacts
<1>3. ASSUME NEW t \in Threads, NEW r \in Requests, Arrive(t, r)
      PROVE  ThreadInv' /\ UNCHANGED <<production, contacted>>
  BY <1>3, ArriveKeeps DEF Arrive
<1>4. ASSUME NEW t \in Threads, LookUp(t) \/ Copy(t) \/ Open(t) \/ FoldLog(t)
      PROVE  ThreadInv' /\ UNCHANGED <<production, contacted>>
  <2>1. CASE LookUp(t)
    BY <2>1, LookUpKeeps DEF LookUp
  <2>2. CASE Copy(t)
    BY <2>2, CopyKeeps DEF Copy
  <2>3. CASE Open(t)
    BY <2>3, OpenKeeps DEF Open
  <2>4. CASE FoldLog(t)
    BY <2>4, FoldLogKeeps DEF FoldLog
  <2>5. QED
    BY <1>4, <2>1, <2>2, <2>3, <2>4
<1>5. ASSUME NEW t \in Threads,
             DecideNext(t) \/ AskModel(t) \/ TakeAnswer(t) \/ EndExperiment(t) \/ Draft(t)
      PROVE  ThreadInv' /\ UNCHANGED <<production, contacted>>
  <2>1. CASE DecideNext(t)
    BY <2>1, DecideNextKeeps DEF DecideNext, Decide
  <2>2. CASE AskModel(t)
    BY <2>2, AskModelKeeps DEF AskModel
  <2>3. CASE TakeAnswer(t)
    BY <2>3, TakeAnswerKeeps DEF TakeAnswer, Decide
  <2>4. CASE EndExperiment(t)
    BY <2>4, EndExperimentKeeps DEF EndExperiment
  <2>5. CASE Draft(t)
    BY <2>5, DraftKeeps DEF Draft
  <2>6. QED
    BY <1>5, <2>1, <2>2, <2>3, <2>4, <2>5
<1>6. ASSUME NEW t \in Threads, Store(t) \/ Trim(t) \/ Evict(t) \/ Close(t) \/ Fail(t)
      PROVE  ThreadInv' /\ UNCHANGED <<production, contacted>>
  <2>1. UNCHANGED contacted
    BY <1>6 DEF Store, Trim, Evict, Close, Fail, Leave
  <2>2. QED
    BY <1>6, <2>1, CacheStepKeeps
<1>7. QED
  BY <1>1, <1>2, <1>3, <1>4, <1>5, <1>6 DEF Next, Serve, vars

LEMMA ThreadInvHolds == Spec => []ThreadInv
<1>1. ThreadInv /\ [Next]_vars => ThreadInv'
  BY ThreadStep
<1>2. QED
  BY ThreadInit, <1>1, PTL DEF Spec

(* No request, whatever scope it is in and however it leaves it, writes to *)
(* the production log, and no entry of the application's is lost to a      *)
(* scratch log (isolated_audit_log in run_experiment.py).                  *)
THEOREM ProductionUntouchedHolds == Spec => []ProductionUntouched
<1>1. Init => ProductionUntouched
  BY DEF Init, ProductionUntouched
<1>2. ThreadInv /\ ProductionUntouched /\ [Next]_vars => ProductionUntouched'
  <2> SUFFICES ASSUME ThreadInv, ProductionUntouched, [Next]_vars
               PROVE  ProductionUntouched'
    OBVIOUS
  <2>1. CASE UNCHANGED <<production, contacted>>
    BY <2>1 DEF ProductionUntouched
  <2>2. ASSUME NEW d \in Contacts, ApplicationContacts(d) PROVE ProductionUntouched'
    BY <2>2 DEF ApplicationContacts, ProductionUntouched
  <2>3. QED
    BY <2>1, <2>2, ThreadStep
<1>3. QED
  BY <1>1, <1>2, ThreadInvHolds, PTL DEF Spec

(* The script of an offline run in another thread never answers for the    *)
(* model of a live one (override_complete in app/llm.py).                  *)
THEOREM LiveNeverScriptedHolds == Spec => []LiveNeverScripted
<1>1. ThreadInv => LiveNeverScripted
  BY DEF ThreadInv, Work, LiveNeverScripted
<1>2. QED
  BY <1>1, ThreadInvHolds, PTL
-----------------------------------------------------------------------------
(* A report that some lawful batch of its own ledger earned. *)
Earned(rep) ==
    \E key \in Keys : \E agent : LawfulBatch(key[1], agent) /\ rep = Report(key, agent)

AloneBatch(seed) == [d \in Evaluated(Books[seed]) |-> Alone(seed, d)]

LEMMA ReferenceIs ==
  ASSUME NEW key \in Keys
  PROVE  /\ Reference[key] = Report(key, AloneBatch(key[1]))
         /\ Earned(Reference[key])
<1>1. key[1] \in DOMAIN Books
  BY PageAssumption DEF Keys
<1>2. Reference[key] = Report(key, AloneBatch(key[1]))
  BY DEF Reference, AloneBatch, Alone, Keys
<1>3. LawfulBatch(key[1], AloneBatch(key[1]))
  <2> DEFINE agent == AloneBatch(key[1])
  <2>1. /\ agent = [d \in DOMAIN agent |-> agent[d]]
        /\ DOMAIN agent = Evaluated(Books[key[1]])
        /\ \A d \in DOMAIN agent : agent[d] = Alone(key[1], d)
    BY DEF AloneBatch
  <2> HIDE DEF agent
  <2>2. QED
    BY <1>1, <2>1, BookRow, AloneLawful DEF LawfulBatch, agent
<1>4. QED
  BY <1>2, <1>3 DEF Earned

LEMMA ReportEarned ==
  ASSUME ThreadInv, NEW t \in Threads, pc[t] \in After
  PROVE  /\ request[t].key \in Keys
         /\ Earned(report[t])
         /\ ~request[t].live => report[t] = Reference[request[t].key]
<1> DEFINE key == request[t].key
           agent == decisions[t]
<1>1. Control(t) /\ Work(t) /\ pc[t] # "idle" /\ pc[t] \notin Before
  BY DEF ThreadInv, After, Before
<1>2. key \in Keys /\ Seed(t) = key[1] /\ Book(t) = Books[key[1]]
  BY <1>1, SeedIs DEF Control, Seed, Book
<1>3. /\ LawfulBatch(key[1], agent)
      /\ ~request[t].live => PureBatch(key[1], agent)
      /\ Evaluated(Books[key[1]]) \subseteq DOMAIN agent
      /\ report[t] = Report(key, agent)
  BY <1>1, <1>2 DEF Work
<1> HIDE DEF key, agent
<1>4. Earned(report[t])
  BY <1>2, <1>3 DEF Earned
<1>5. ASSUME ~request[t].live PROVE report[t] = Reference[key]
  <2>1. DOMAIN agent = Evaluated(Books[key[1]]) /\ agent = [d \in DOMAIN agent |-> agent[d]]
    BY <1>3 DEF LawfulBatch
  <2>2. \A d \in DOMAIN agent : agent[d] = Alone(key[1], d)
    BY <1>3, <1>5 DEF PureBatch
  <2>3. agent = AloneBatch(key[1])
    BY <2>1, <2>2 DEF AloneBatch
  <2>4. QED
    BY <1>2, <1>3, <2>3, ReferenceIs
<1>6. QED
  BY <1>2, <1>4, <1>5 DEF key

-----------------------------------------------------------------------------
Items == {[key |-> k, report |-> Reference[k]] : k \in Keys}

CacheInv ==
    /\ cache \in Seq(Items)
    /\ \A i, j \in DOMAIN cache : cache[i].key = cache[j].key => i = j

ReplyIs(answer) ==
    /\ answer.status \in {0, 200, 401, 500}
    /\ answer.status = 200 =>
         /\ Earned(answer.data)
         /\ ~answer.request.live => answer.data = Reference[answer.request.key]

PageInv == ThreadInv /\ CacheInv /\ \A t \in Threads : ReplyIs(reply[t])

LEMMA PageInit == Init => PageInv
<1> SUFFICES ASSUME Init PROVE PageInv
  OBVIOUS
<1>1. CacheInv
  BY DEF Init, CacheInv
<1>2. \A t \in Threads : ReplyIs(reply[t])
  BY DEF Init, ReplyIs, NoReply
<1>3. QED
  BY <1>1, <1>2, ThreadInit DEF PageInv

LEMMA ReplyKeeps ==
  ASSUME PageInv, NEW t \in Threads, NEW r, NEW status, NEW data, Reply(t, r, status, data),
         ReplyIs([status |-> status, request |-> r, data |-> data])
  PROVE  \A u \in Threads : ReplyIs(reply'[u])
<1>1. reply' = [reply EXCEPT ![t] = [status |-> status, request |-> r, data |-> data]]
  BY DEF Reply
<1>2. DOMAIN reply = Threads
  BY DEF PageInv, ThreadInv, ThreadType
<1>3. /\ reply'[t] = [status |-> status, request |-> r, data |-> data]
      /\ \A u \in Threads \ {t} : reply'[u] = reply[u]
  BY <1>1, <1>2
<1>4. QED
  BY <1>3 DEF PageInv

LEMMA ErrorKeeps ==
  ASSUME PageInv, NEW t \in Threads, NEW r, NEW status \in {401, 500}, NEW data,
         Reply(t, r, status, data)
  PROVE  \A u \in Threads : ReplyIs(reply'[u])
<1>1. ReplyIs([status |-> status, request |-> r, data |-> data])
  BY DEF ReplyIs
<1>2. QED
  BY <1>1, ReplyKeeps

LEMMA GoodKeeps ==
  ASSUME PageInv, NEW t \in Threads, NEW r, NEW data, Reply(t, r, 200, data),
         Earned(data), ~r.live => data = Reference[r.key]
  PROVE  \A u \in Threads : ReplyIs(reply'[u])
<1>1. ReplyIs([status |-> 200, request |-> r, data |-> data])
  BY DEF ReplyIs
<1>2. QED
  BY <1>1, ReplyKeeps

LEMMA StoredIs ==
  ASSUME CacheInv, NEW key \in Keys, Cached(key)
  PROVE  Stored(key) = Reference[key]
<1>1. \E i \in DOMAIN cache : cache[i].key = key
  BY DEF Cached, CacheKey
<1> DEFINE i == CHOOSE j \in DOMAIN cache : cache[j].key = CacheKey(key)
<1>2. i \in DOMAIN cache /\ cache[i].key = key
  BY <1>1 DEF CacheKey
<1>3. Stored(key) = cache[i].report
  BY Zenon DEF Stored
<1> HIDE DEF i
<1>4. cache[i] \in Items
  BY <1>2 DEF CacheInv
<1>5. QED
  BY <1>2, <1>3, <1>4 DEF Items

(* An entry is stored under its own key, in the place of the one before.   *)
LEMMA StoreKeeps ==
  ASSUME PageInv, NEW t \in Threads, Store(t)
  PROVE  /\ CacheInv'
         /\ Len(cache') <= Len(cache) + 1
<1> DEFINE key == request[t].key
           item == [key |-> key, report |-> report[t]]
<1>1. ThreadInv /\ CacheInv /\ pc[t] = "store"
  BY DEF PageInv, Store
<1>2. key \in Keys /\ item \in Items
  <2>1. ~request[t].live /\ pc[t] \in After
    BY <1>1 DEF ThreadInv, Control, After
  <2>2. QED
    BY <1>1, <2>1, ReportEarned DEF Items
<1>3. cache' = IF Cached(key)
               THEN [i \in DOMAIN cache |-> IF cache[i].key = item.key THEN item ELSE cache[i]]
               ELSE Append(cache, item)
  BY DEF Store, CacheKey
<1>4. cache \in Seq(Items) /\ DOMAIN cache = 1..Len(cache) /\ Len(cache) \in Nat
  BY <1>1 DEF CacheInv
<1>5. item.key = key
  OBVIOUS
<1> HIDE DEF key, item
<1>6. CASE Cached(key)
  <2>1. cache' = [i \in 1..Len(cache) |-> IF cache[i].key = key THEN item ELSE cache[i]]
    BY <1>3, <1>4, <1>5, <1>6
  <2>2. \A i \in 1..Len(cache) : cache'[i] \in Items /\ cache'[i].key = cache[i].key
    BY <1>2, <1>4, <1>5, <2>1
  <2>3. cache' \in Seq(Items) /\ Len(cache') = Len(cache) /\ DOMAIN cache' = DOMAIN cache
    BY <1>4, <2>1, <2>2
  <2>4. QED
    BY <1>1, <1>4, <2>2, <2>3 DEF CacheInv
<1>7. CASE ~Cached(key)
  <2>1. cache' = Append(cache, item)
    BY <1>3, <1>7
  <2>2. /\ cache' \in Seq(Items) /\ Len(cache') = Len(cache) + 1
        /\ DOMAIN cache' = 1..(Len(cache) + 1)
        /\ cache'[Len(cache) + 1] = item
        /\ \A i \in 1..Len(cache) : cache'[i] = cache[i]
    BY <1>2, <1>4, <2>1
  <2>3. \A i \in 1..Len(cache) : cache[i].key # key
    BY <1>4, <1>7 DEF Cached, CacheKey
  <2>4. ASSUME NEW i \in DOMAIN cache', NEW j \in DOMAIN cache', cache'[i].key = cache'[j].key
        PROVE  i = j
    <3>1. CASE i \in 1..Len(cache) /\ j \in 1..Len(cache)
      BY <1>1, <1>4, <2>2, <2>4, <3>1 DEF CacheInv
    <3>2. CASE ~(i \in 1..Len(cache) /\ j \in 1..Len(cache))
      <4>1. i = Len(cache) + 1 \/ j = Len(cache) + 1
        BY <1>4, <2>2, <3>2
      <4>2. QED
        BY <1>4, <1>5, <2>2, <2>3, <2>4, <4>1
    <3>3. QED
      BY <3>1, <3>2
  <2>5. QED
    BY <1>4, <2>2, <2>4 DEF CacheInv
<1>8. QED
  BY <1>6, <1>7

LEMMA OldestOutKeeps ==
  ASSUME CacheInv, cache # <<>>, cache' = OldestOut(cache)
  PROVE  CacheInv' /\ Len(cache') = Len(cache) - 1
<1>1. cache \in Seq(Items) /\ cache' = Tail(cache) /\ Len(cache) \in Nat \ {0}
  <2>1. cache \in Seq(Items) /\ Len(cache) \in Nat
    BY DEF CacheInv
  <2>2. Len(cache) # 0
    BY <2>1, EmptySeq
  <2>3. QED
    BY <2>1, <2>2 DEF OldestOut
<1>2. /\ cache' \in Seq(Items) /\ Len(cache') = Len(cache) - 1
      /\ \A i \in 1..(Len(cache) - 1) : cache'[i] = cache[i + 1]
  BY <1>1
<1>3. ASSUME NEW i \in DOMAIN cache', NEW j \in DOMAIN cache', cache'[i].key = cache'[j].key
      PROVE  i = j
  <2>1. i \in 1..(Len(cache) - 1) /\ j \in 1..(Len(cache) - 1)
    BY <1>2
  <2>2. /\ i + 1 \in DOMAIN cache /\ j + 1 \in DOMAIN cache
        /\ cache[i + 1].key = cache[j + 1].key
    BY <1>1, <1>2, <1>3, <2>1
  <2>3. i + 1 = j + 1
    BY <2>2 DEF CacheInv
  <2>4. QED
    BY <2>1, <2>3
<1>4. QED
  BY <1>2, <1>3 DEF CacheInv

(* Only the actions around the cache and the answers touch either.         *)
LEMMA PageStep ==
  ASSUME PageInv, [Next]_vars
  PROVE  PageInv'
<1>1. ThreadInv /\ CacheInv /\ \A u \in Threads : ReplyIs(reply[u])
  BY DEF PageInv
<1>2. ThreadInv'
  BY <1>1, ThreadStep
<1>3. ASSUME UNCHANGED cache PROVE CacheInv'
  BY <1>1, <1>3 DEF CacheInv
<1>4. ASSUME UNCHANGED reply PROVE \A u \in Threads : ReplyIs(reply'[u])
  BY <1>1, <1>4
<1>5. CASE UNCHANGED vars
  BY <1>2, <1>3, <1>4, <1>5 DEF vars, PageInv
<1>6. ASSUME NEW d \in Contacts, ApplicationContacts(d) PROVE PageInv'
  BY <1>2, <1>3, <1>4, <1>6 DEF ApplicationContacts, PageInv
<1>7. ASSUME NEW t \in Threads, NEW r \in Requests, Arrive(t, r) PROVE PageInv'
  <2>1. UNCHANGED cache
    BY <1>7 DEF Arrive
  <2>2. CASE Allowed(r)
    <3>1. reply' = [reply EXCEPT ![t] = NoReply]
      BY <1>7, <2>2 DEF Arrive
    <3>2. \A u \in Threads : reply'[u] = NoReply \/ reply'[u] = reply[u]
      BY <1>1, <3>1 DEF ThreadInv, ThreadType
    <3>3. ReplyIs(NoReply)
      BY DEF ReplyIs, NoReply
    <3>4. \A u \in Threads : ReplyIs(reply'[u])
      BY <1>1, <3>2, <3>3
    <3>5. QED
      BY <1>2, <1>3, <2>1, <3>4 DEF PageInv
  <2>3. CASE ~Allowed(r)
    <3>1. Reply(t, r, 401, Nothing)
      BY <1>7, <2>3 DEF Arrive
    <3>2. \A u \in Threads : ReplyIs(reply'[u])
      BY <3>1, ErrorKeeps
    <3>3. QED
      BY <1>2, <1>3, <2>1, <3>2 DEF PageInv
  <2>4. QED
    BY <2>2, <2>3
<1>8. ASSUME NEW t \in Threads,
             \/ LookUp(t) \/ Open(t) \/ FoldLog(t) \/ AskModel(t) \/ EndExperiment(t)
             \/ Draft(t) \/ Trim(t) \/ DecideNext(t) \/ TakeAnswer(t)
      PROVE  PageInv'
  <2>1. UNCHANGED <<cache, reply>>
    <3>1. CASE LookUp(t) \/ Open(t) \/ FoldLog(t) \/ AskModel(t) \/ EndExperiment(t)
      BY <3>1 DEF LookUp, Open, FoldLog, AskModel, EndExperiment
    <3>2. CASE Draft(t) \/ Trim(t)
      BY <3>2 DEF Draft, Trim
    <3>3. CASE DecideNext(t)
      BY <3>3 DEF DecideNext, Decide
    <3>4. CASE TakeAnswer(t)
      BY <3>4 DEF TakeAnswer, Decide
    <3>5. QED
      BY <1>8, <3>1, <3>2, <3>3, <3>4
  <2>2. QED
    BY <1>2, <1>3, <1>4, <2>1 DEF PageInv
<1>9. ASSUME NEW t \in Threads, Copy(t) PROVE PageInv'
  <2>1. UNCHANGED cache /\ pc[t] = "copy"
    BY <1>9 DEF Copy
  <2>2. request[t].key \in Keys
    BY <1>1, <2>1, SeedIs DEF ThreadInv, Control
  <2>3. CASE Cached(request[t].key)
    <3>1. Reply(t, request[t], 200, Stored(request[t].key))
      BY <1>9, <2>3 DEF Copy
    <3>2. /\ Stored(request[t].key) = Reference[request[t].key]
          /\ Earned(Reference[request[t].key])
      BY <1>1, <2>2, <2>3, StoredIs, ReferenceIs
    <3>3. \A u \in Threads : ReplyIs(reply'[u])
      BY <3>1, <3>2, GoodKeeps
    <3>4. QED
      BY <1>2, <1>3, <2>1, <3>3 DEF PageInv
  <2>4. CASE ~Cached(request[t].key)
    <3>1. Reply(t, request[t], 500, Nothing)
      BY <1>9, <2>4 DEF Copy
    <3>2. \A u \in Threads : ReplyIs(reply'[u])
      BY <3>1, ErrorKeeps
    <3>3. QED
      BY <1>2, <1>3, <2>1, <3>2 DEF PageInv
  <2>5. QED
    BY <2>3, <2>4
<1>10. ASSUME NEW t \in Threads, Store(t) PROVE PageInv'
  <2>1. UNCHANGED reply
    BY <1>10 DEF Store
  <2>2. QED
    BY <1>2, <1>4, <1>10, <2>1, StoreKeeps DEF PageInv
<1>11. ASSUME NEW t \in Threads, Leave(t, 500, Nothing), UNCHANGED cache PROVE PageInv'
  <2>1. Reply(t, request[t], 500, Nothing)
    BY <1>11 DEF Leave
  <2>2. \A u \in Threads : ReplyIs(reply'[u])
    BY <2>1, ErrorKeeps
  <2>3. QED
    BY <1>2, <1>3, <1>11, <2>2 DEF PageInv
<1>12. ASSUME NEW t \in Threads, Evict(t) PROVE PageInv'
  <2>1. CASE cache = <<>>
    BY <1>11, <1>12, <2>1 DEF Evict
  <2>2. CASE cache # <<>>
    <3>1. cache' = OldestOut(cache) /\ UNCHANGED reply
      BY <1>12, <2>2 DEF Evict
    <3>2. QED
      BY <1>1, <1>2, <1>4, <2>2, <3>1, OldestOutKeeps DEF PageInv
  <2>3. QED
    BY <2>1, <2>2
<1>13. ASSUME NEW t \in Threads, Close(t) PROVE PageInv'
  <2>1. Reply(t, request[t], 200, report[t]) /\ UNCHANGED cache /\ pc[t] \in After
    BY <1>13 DEF Close, Leave, After
  <2>2. /\ Earned(report[t])
        /\ ~request[t].live => report[t] = Reference[request[t].key]
    BY <1>1, <2>1, ReportEarned
  <2>3. \A u \in Threads : ReplyIs(reply'[u])
    BY <2>1, <2>2, GoodKeeps
  <2>4. QED
    BY <1>2, <1>3, <2>1, <2>3 DEF PageInv
<1>14. ASSUME NEW t \in Threads, Fail(t) PROVE PageInv'
  BY <1>11, <1>14 DEF Fail
<1>15. QED
  BY <1>5, <1>6, <1>7, <1>8, <1>9, <1>10, <1>12, <1>13, <1>14 DEF Next, Serve

LEMMA PageInvHolds == Spec => []PageInv
<1>1. PageInv /\ [Next]_vars => PageInv'
  BY PageStep
<1>2. QED
  BY PageInit, <1>1, PTL DEF Spec

(* Whatever runs beside it and whatever the cache went through, what an    *)
(* offline request is answered is a function of what it asked for.         *)
THEOREM ServedIsPureHolds == Spec => []ServedIsPure
<1>1. PageInv => ServedIsPure
  BY DEF PageInv, ReplyIs, ServedIsPure
<1>2. QED
  BY <1>1, PageInvHolds, PTL

(* The application contacts nobody else. *)
Known == contacted \subseteq Contacts

LEMMA KnownHolds == Spec => []Known
<1>1. Init => Known
  BY DEF Init, Known
<1>2. Known /\ [Next]_vars => Known'
  <2> SUFFICES ASSUME Known, [Next]_vars PROVE Known'
    OBVIOUS
  <2>1. ASSUME NEW d \in Contacts, ApplicationContacts(d) PROVE Known'
    BY <2>1 DEF ApplicationContacts, Known
  <2>2. ASSUME UNCHANGED contacted PROVE Known'
    BY <2>2 DEF Known
  <2>3. ASSUME NEW t \in Threads, Serve(t) \/ Fail(t) PROVE UNCHANGED contacted
    BY <2>3 DEF Serve, LookUp, Copy, Open, FoldLog, DecideNext, Decide, AskModel, TakeAnswer,
                EndExperiment, Draft, Store, Trim, Evict, Close, Fail, Leave
  <2>4. ASSUME NEW t \in Threads, NEW r \in Requests, Arrive(t, r) PROVE UNCHANGED contacted
    BY <2>4 DEF Arrive
  <2>5. QED
    BY <2>1, <2>2, <2>3, <2>4 DEF Next, vars
<1>3. QED
  BY <1>1, <1>2, PTL DEF Spec

(* Every scope a request opens is closed when it is over, every override   *)
(* reset, and no key is in the cache twice.                                *)
THEOREM TypeOKHolds == Spec => []TypeOK
<1>1. Spec => []Known
  BY KnownHolds
<1>2. PageInv /\ Known => TypeOK
  <2> SUFFICES ASSUME PageInv, Known PROVE TypeOK
    OBVIOUS
  <2>1. ThreadType /\ CacheInv
    BY DEF PageInv, ThreadInv
  <2>2. ASSUME NEW t \in Threads
        PROVE  /\ Len(scopes[t]) = CASE pc[t] \in {"idle", "lookup", "copy", "open"} -> 0
                                     [] pc[t] \in {"fold", "batch", "asking"} -> 2
                                     [] OTHER -> 1
               /\ scripted[t] <=> pc[t] \in {"fold", "batch"} /\ ~request[t].live
               /\ reply[t].status \in {0, 200, 401, 500}
    <3>1. Control(t) /\ ReplyIs(reply[t])
      BY DEF PageInv, ThreadInv
    <3>2. QED
      BY <3>1 DEF Control, Depth, ReplyIs
  <2>3. QED
    BY <2>1, <2>2 DEF TypeOK, ThreadType, CacheInv, PCs, Known
<1>3. QED
  BY <1>1, <1>2, PageInvHolds, PTL
-----------------------------------------------------------------------------
Trimming == {t \in Threads : pc[t] \in {"trim", "evict"}}

Fits == Len(cache) <= CacheMax + Cardinality(Trimming)

LEMMA TrimmingFinite ==
  /\ IsFiniteSet(Trimming) /\ Cardinality(Trimming) \in Nat
  /\ IsFiniteSet(Trimming') /\ Cardinality(Trimming') \in Nat
<1>1. IsFiniteSet(Threads)
  BY PageAssumption
<1>2. Trimming \subseteq Threads /\ Trimming' \subseteq Threads
  BY DEF Trimming
<1>3. QED
  BY <1>1, <1>2, FS_Subset, FS_CardinalityType

(* A thread on its way elsewhere. *)
LEMMA ElsewhereFits ==
  ASSUME ThreadInv, Fits, NEW t \in Threads, NEW p, pc' = [pc EXCEPT ![t] = p],
         UNCHANGED cache, p \in {"trim", "evict"} <=> pc[t] \in {"trim", "evict"}
  PROVE  Fits'
<1>1. pc'[t] = p /\ \A u \in Threads \ {t} : pc'[u] = pc[u]
  BY DEF ThreadInv, ThreadType
<1>2. Trimming' = Trimming
  BY <1>1 DEF Trimming
<1>3. QED
  BY <1>2 DEF Fits

LEMMA StoreFits ==
  ASSUME PageInv, Fits, NEW t \in Threads, Store(t)
  PROVE  Fits'
<1>1. pc[t] = "store" /\ pc' = [pc EXCEPT ![t] = "trim"] /\ pc \in [Threads -> PCs]
  BY DEF Store, PageInv, ThreadInv, ThreadType
<1>2. Trimming' = Trimming \cup {t} /\ t \notin Trimming
  BY <1>1 DEF Trimming
<1>3. Cardinality(Trimming') = Cardinality(Trimming) + 1
  BY <1>2, TrimmingFinite, FS_AddElement
<1>4. Len(cache) \in Nat /\ Len(cache') \in Nat /\ Len(cache') <= Len(cache) + 1
  BY StoreKeeps DEF PageInv, CacheInv
<1>5. QED
  BY <1>3, <1>4, TrimmingFinite, PageAssumption DEF Fits

LEMMA TrimFits ==
  ASSUME PageInv, Fits, NEW t \in Threads, Trim(t)
  PROVE  Fits'
<1>1. UNCHANGED cache /\ pc[t] = "trim" /\ ThreadInv
  BY DEF Trim, PageInv
<1>2. CASE Overfull
  <2>1. pc' = [pc EXCEPT ![t] = "evict"]
    BY <1>2 DEF Trim
  <2>2. QED
    BY <1>1, <2>1, ElsewhereFits
<1>3. CASE ~Overfull
  <2>1. Len(cache) \in Nat /\ Len(cache') = Len(cache)
    BY <1>1 DEF PageInv, CacheInv
  <2>2. Len(cache') <= CacheMax
    BY <1>3, <2>1, PageAssumption DEF Overfull
  <2>3. QED
    BY <2>1, <2>2, TrimmingFinite, PageAssumption DEF Fits
<1>4. QED
  BY <1>2, <1>3

LEMMA EvictFits ==
  ASSUME PageInv, Fits, NEW t \in Threads, Evict(t)
  PROVE  Fits'
<1>1. ThreadInv /\ CacheInv /\ pc[t] = "evict"
  BY DEF PageInv, Evict
<1>2. CASE cache = <<>>
  <2>1. Len(cache') = 0
    BY <1>2 DEF Evict
  <2>2. QED
    BY <2>1, TrimmingFinite, PageAssumption DEF Fits
<1>3. CASE cache # <<>>
  <2>1. cache' = OldestOut(cache) /\ pc' = [pc EXCEPT ![t] = "trim"]
    BY <1>3 DEF Evict
  <2>2. Len(cache) \in Nat /\ Len(cache') = Len(cache) - 1
    BY <1>1, <1>3, <2>1, OldestOutKeeps DEF CacheInv
  <2>3. pc'[t] = "trim" /\ \A u \in Threads \ {t} : pc'[u] = pc[u]
    BY <1>1, <2>1 DEF ThreadInv, ThreadType
  <2>4. Trimming' = Trimming
    BY <1>1, <2>3 DEF Trimming
  <2>5. QED
    BY <2>2, <2>4, TrimmingFinite, PageAssumption DEF Fits
<1>4. QED
  BY <1>2, <1>3

(* Beyond its bound the cache holds one report at most for each thread     *)
(* that has stored one and not yet trimmed it (server.py:1139).            *)
THEOREM CacheBoundedHolds == Spec => []CacheBounded
<1>1. Init => Fits
  <2>1. Init => Len(cache) = 0
    BY DEF Init
  <2>2. QED
    BY <2>1, TrimmingFinite, PageAssumption DEF Fits
<1>2. PageInv /\ Fits /\ [Next]_vars => Fits'
  <2> SUFFICES ASSUME PageInv, Fits, [Next]_vars PROVE Fits'
    OBVIOUS
  <2>1. ThreadInv /\ ThreadType
    BY DEF PageInv, ThreadInv
  <2>2. ASSUME UNCHANGED <<pc, cache>> PROVE Fits'
    BY <2>2 DEF Fits, Trimming
  <2>3. ASSUME NEW d \in Contacts, ApplicationContacts(d) PROVE Fits'
    BY <2>2, <2>3 DEF ApplicationContacts
  <2>4. ASSUME NEW t \in Threads, NEW r \in Requests, Arrive(t, r) PROVE Fits'
    <3>1. PICK p \in {"idle", "lookup"} : pc' = [pc EXCEPT ![t] = p]
      BY <2>4 DEF Arrive, Reply
    <3>2. pc[t] = "idle" /\ UNCHANGED cache
      BY <2>4 DEF Arrive
    <3>3. p \in {"trim", "evict"} <=> pc[t] \in {"trim", "evict"}
      BY <3>1, <3>2
    <3>4. QED
      BY <2>1, <3>1, <3>2, <3>3, ElsewhereFits
  <2>5. ASSUME NEW t \in Threads,
               \/ LookUp(t) \/ Copy(t) \/ Open(t) \/ FoldLog(t) \/ DecideNext(t) \/ TakeAnswer(t)
               \/ EndExperiment(t) \/ Draft(t) \/ Close(t) \/ Fail(t)
        PROVE  Fits'
    <3>1. UNCHANGED cache
      <4>1. CASE LookUp(t) \/ Copy(t) \/ Open(t) \/ FoldLog(t)
        BY <4>1 DEF LookUp, Copy, Open, FoldLog
      <4>2. CASE DecideNext(t)
        BY <4>2 DEF DecideNext, Decide
      <4>3. CASE TakeAnswer(t)
        BY <4>3 DEF TakeAnswer, Decide
      <4>4. CASE EndExperiment(t) \/ Draft(t) \/ Close(t) \/ Fail(t)
        BY <4>4 DEF EndExperiment, Draft, Close, Fail
      <4>5. QED
        BY <2>5, <4>1, <4>2, <4>3, <4>4
    <3>2. pc[t] \notin {"trim", "evict"}
      BY <2>5 DEF LookUp, Copy, Open, FoldLog, DecideNext, TakeAnswer, EndExperiment, Draft,
                  Close, Fail
    <3>3. ASSUME NEW p, p \notin {"trim", "evict"}, pc' = [pc EXCEPT ![t] = p] PROVE Fits'
      <4>1. p \in {"trim", "evict"} <=> pc[t] \in {"trim", "evict"}
        BY <3>2, <3>3
      <4>2. QED
        BY <2>1, <3>1, <3>3, <4>1, ElsewhereFits
    <3>4. CASE LookUp(t)
      <4>1. PICK p \in {"copy", "open"} :
              p = IF ~request[t].live /\ Cached(request[t].key) THEN "copy" ELSE "open"
        OBVIOUS
      <4>2. pc' = [pc EXCEPT ![t] = p]
        BY <3>4, <4>1 DEF LookUp
      <4>3. QED
        BY <3>3, <4>2
    <3>5. CASE Copy(t)
      <4>1. pc' = [pc EXCEPT ![t] = "idle"]
        BY <3>5 DEF Copy, Reply
      <4>2. QED
        BY <3>3, <4>1
    <3>6. CASE Open(t) \/ FoldLog(t) \/ EndExperiment(t)
      BY <3>3, <3>6 DEF Open, FoldLog, EndExperiment
    <3>7. CASE DecideNext(t)
      <4>1. pc' = [pc EXCEPT ![t] = "batch"] \/ pc' = [pc EXCEPT ![t] = "asking"]
        BY <3>7 DEF DecideNext, Decide
      <4>2. QED
        BY <3>3, <4>1
    <3>8. CASE TakeAnswer(t)
      <4>1. pc' = [pc EXCEPT ![t] = "batch"]
        BY <3>8 DEF TakeAnswer, Decide
      <4>2. QED
        BY <3>3, <4>1
    <3>9. CASE Draft(t)
      <4>1. PICK p \in {"close", "store"} : p = IF request[t].live THEN "close" ELSE "store"
        OBVIOUS
      <4>2. pc' = [pc EXCEPT ![t] = p]
        BY <3>9, <4>1 DEF Draft
      <4>3. QED
        BY <3>3, <4>2
    <3>10. CASE Close(t) \/ Fail(t)
      <4>1. pc' = [pc EXCEPT ![t] = "idle"]
        BY <3>10 DEF Close, Fail, Leave, Reply
      <4>2. QED
        BY <3>3, <4>1
    <3>11. QED
      BY <2>5, <3>4, <3>5, <3>6, <3>7, <3>8, <3>9, <3>10
  <2>6. ASSUME NEW t \in Threads, AskModel(t) PROVE Fits'
    BY <2>2, <2>6 DEF AskModel
  <2>7. QED
    BY <2>2, <2>3, <2>4, <2>5, <2>6, StoreFits, TrimFits, EvictFits DEF Next, Serve, vars
<1>3. Fits <=> CacheBounded
  BY DEF Fits, Trimming, CacheBounded
<1>4. QED
  BY <1>1, <1>2, <1>3, PageInvHolds, PTL DEF Spec
-----------------------------------------------------------------------------
LEMMA DebtorsFinite == IsFiniteSet(Debtors)
<1>1. Order \in Seq(Range(Order))
  BY PageAssumption
<1>2. Order \in [1..Len(Order) -> Range(Order)] /\ Len(Order) \in Nat
  BY <1>1
<1>3. Order \in Surjection(1..Len(Order), Range(Order))
  BY <1>2 DEF Surjection, Range
<1>4. IsFiniteSet(1..Len(Order))
  BY <1>2, FS_Interval
<1>5. QED
  BY <1>3, <1>4, FS_Surjection DEF Debtors

(* With a floor on concessions nobody is asked to pay nothing.             *)
LEMMA MinAskPositive ==
  ASSUME NEW owed \in Nat, owed > 0, ConcessionBps < 10000
  PROVE  MinAsk(owed) > 0
<1>1. PICK p \in Nat : p = owed * ConcessionBps
  BY EnvelopeAssumption
<1>2. ConcessionBps \in 0..9999 /\ p <= owed * 9999
  BY <1>1, EnvelopeAssumption
<1>3. PICK q \in Nat : q = p \div 10000
  BY <1>1
<1>4. q * 10000 <= p
  BY <1>1, <1>3
<1>5. q < owed
  BY <1>2, <1>4
<1>6. QED
  BY <1>1, <1>3, <1>5 DEF MinAsk

Fair(rep) ==
    \A case \in rep.verdicts :
        LET row == Books[rep.key[1]][CaseDebtor[case]]
            own == rep.agent[CaseDebtor[case]]
        IN  /\ case = 6 => row.optedOut /\ own = Suppressed
            /\ case = 7 => /\ ~row.optedOut /\ row.late > 0
                           /\ row.made >= 4 /\ (row.made - row.kept) * 5 <= row.made
            /\ case = 4 => ~row.eligible /\ own.ask > 0
            /\ case \in {1, 2, 5} => own.ask = 0

LEMMA FairReplies ==
  ASSUME \A t \in Threads : reply[t].status = 200 => Fair(reply[t].data)
  PROVE  VerdictEarned
  BY DEF Fair, VerdictEarned

LEMMA EarnedVerdicts ==
  ASSUME ConcessionBps < 10000, NEW rep, Earned(rep)
  PROVE  Fair(rep)
<1> SUFFICES ASSUME NEW case \in rep.verdicts
             PROVE  LET row == Books[rep.key[1]][CaseDebtor[case]]
                        own == rep.agent[CaseDebtor[case]]
                    IN  /\ case = 6 => row.optedOut /\ own = Suppressed
                        /\ case = 7 => /\ ~row.optedOut /\ row.late > 0
                                       /\ row.made >= 4
                                       /\ (row.made - row.kept) * 5 <= row.made
                        /\ case = 4 => ~row.eligible /\ own.ask > 0
                        /\ case \in {1, 2, 5} => own.ask = 0
  BY DEF Fair
<1>1. PICK key \in Keys : \E agent : LawfulBatch(key[1], agent) /\ rep = Report(key, agent)
  BY DEF Earned
<1>2. PICK agent : LawfulBatch(key[1], agent) /\ rep = Report(key, agent)
  BY <1>1
<1> DEFINE seed == key[1]
           baseline == BaselineOf[seed]
           d == CaseDebtor[case]
           row == Books[seed][d]
           own == agent[d]
<1>3. /\ rep.key = key /\ rep.agent = agent
      /\ rep.verdicts = Verdicts(Books[seed], CaseDebtor, agent, baseline)
  BY <1>2 DEF Report
<1>4. case \in DOMAIN Cases /\ d \in DOMAIN agent /\ CaseApplies(case, row, own, baseline[d])
  <2> HIDE DEF baseline
  <2>1. QED
    BY <1>3 DEF Verdicts
<1>5. own.strategy \in Cases[case].expected /\ Mechanism(case, row)
  BY <1>4 DEF CaseApplies
<1>6. seed \in DOMAIN Books
  BY PageAssumption DEF Keys
<1>7. d \in Debtors /\ Lawful(row, own)
  BY <1>2, <1>4, <1>6, BookRow DEF LawfulBatch
<1>8. Collectible(row.invoices) \in Nat
  BY <1>6, <1>7, OwedType
<1>9. row.made \in Nat /\ row.kept \in 0..row.made /\ row.late \in Int
  BY <1>6, <1>7, GeneratorAssumption DEF Debtors
<1> HIDE DEF row, own, d, seed
<1>10. case = 6 => row.optedOut /\ own = Suppressed
  BY <1>5, <1>7 DEF Mechanism, OptedOut, Lawful
<1>11. case = 7 => /\ ~row.optedOut /\ row.late > 0
                   /\ row.made >= 4 /\ (row.made - row.kept) * 5 <= row.made
  BY <1>5, <1>9 DEF Mechanism, Restraint, Reliable
<1>12. case = 4 => ~row.eligible /\ own.ask > 0
  <2> SUFFICES ASSUME case = 4 PROVE ~row.eligible /\ own.ask > 0
    OBVIOUS
  <2>1. ~row.eligible
    BY <1>5 DEF Mechanism, Trader
  <2>2. own.strategy \in AsksForMoney
    BY <1>5 DEF Cases, AsksForMoney
  <2>3. /\ Collectible(row.invoices) > 0 /\ own.ask \in Int
        /\ MinAsk(Collectible(row.invoices)) <= own.ask
    BY <1>7, <2>2 DEF Lawful
  <2>4. MinAsk(Collectible(row.invoices)) > 0 /\ MinAsk(Collectible(row.invoices)) \in Int
    BY <1>8, <2>3, MinAskPositive, MinAskType
  <2>5. QED
    BY <2>1, <2>3, <2>4
<1>13. case \in {1, 2, 5} => own.ask = 0
  <2> SUFFICES ASSUME case \in {1, 2, 5} PROVE own.ask = 0
    OBVIOUS
  <2>1. own.strategy = "RECONCILE"
    BY <1>5 DEF Cases
  <2>2. QED
    BY <1>7, <2>1 DEF Lawful, AsksForMoney
<1>14. QED
  BY <1>3, <1>10, <1>11, <1>12, <1>13 DEF row, own, d, seed

(* A verdict is shown only for the mechanism it names, whoever decided and *)
(* whatever the model answered, unless the whole balance may be conceded   *)
(* (build_adjudication_matrix in run_experiment.py).                       *)
THEOREM VerdictEarnedHolds ==
  ASSUME ConcessionBps < 10000
  PROVE  Spec => []VerdictEarned
<1>1. PageInv => VerdictEarned
  <2>1. ASSUME PageInv, NEW t \in Threads, reply[t].status = 200
        PROVE  Fair(reply[t].data)
    <3>1. Earned(reply[t].data)
      BY <2>1 DEF PageInv, ReplyIs
    <3>2. QED
      BY <3>1, EarnedVerdicts
  <2>2. QED
    BY <2>1, FairReplies
<1>2. QED
  BY <1>1, PageInvHolds, PTL

-----------------------------------------------------------------------------
(* Every open invoice is some days old: the calendar asks for all of it.   *)
LEMMA BaselineAsk ==
  ASSUME NEW seed \in DOMAIN Books, NEW d \in Evaluated(Books[seed])
  PROVE  Baseline(Books[seed][d].invoices).ask = Naive(Books[seed][d].invoices)
<1> DEFINE invs == Books[seed][d].invoices
           ages == {0} \cup {invs[i].days : i \in DOMAIN invs}
<1>1. d \in Debtors /\ DOMAIN invs # {}
  BY BookRow DEF Evaluated
<1>2. IsFiniteSet(DOMAIN invs)
  BY <1>1, OwedType
<1>3. \A i \in DOMAIN invs : invs[i].days \in Nat \ {0}
  BY <1>1, BalanceType
<1> DEFINE f == [i \in DOMAIN invs |-> invs[i].days]
<1>4. PICK m \in DOMAIN invs : \A i \in DOMAIN invs : f[i] <= f[m]
  <2>1. \A i \in DOMAIN invs : f[i] \in Nat
    BY <1>3
  <2> HIDE DEF f
  <2>2. QED
    BY <1>1, <1>2, <2>1, GreatestOf
<1>5. invs[m].days \in ages /\ \A n \in ages : invs[m].days >= n
  <2>1. invs[m].days \in ages /\ \A i \in DOMAIN invs : invs[m].days >= invs[i].days
    BY <1>4
  <2>2. invs[m].days \in Nat
    BY <1>3
  <2>3. ASSUME NEW n \in ages PROVE invs[m].days >= n
    BY <2>1, <2>2, <2>3
  <2>4. QED
    BY <2>1, <2>3
<1> HIDE DEF ages
<1>6. Max(ages) \in ages /\ \A n \in ages : Max(ages) >= n
  BY <1>5 DEF Max
<1>7. Max(ages) > 0
  BY <1>3, <1>5, <1>6 DEF ages
<1>8. Oldest(invs) > 0
  BY <1>7 DEF Oldest, ages
<1>9. QED
  BY <1>8 DEF Baseline

Within(rep) ==
    /\ SumFunction([d \in DOMAIN rep.agent |-> rep.agent[d].ask]) <= rep.portfolio.collectible
    /\ \A d \in DOMAIN rep.agent : rep.agent[d].ask <= BaselineOf[rep.key[1]][d].ask

LEMMA EarnedAsks == ASSUME NEW rep, Earned(rep) PROVE Within(rep)
<1>1. PICK key \in Keys : \E agent : LawfulBatch(key[1], agent) /\ rep = Report(key, agent)
  BY DEF Earned
<1>2. PICK agent : LawfulBatch(key[1], agent) /\ rep = Report(key, agent)
  BY <1>1
<1> DEFINE seed == key[1]
           book == Books[seed]
           owed == [d \in DOMAIN book |-> Collectible(book[d].invoices)]
           asks == [d \in DOMAIN agent |-> agent[d].ask]
           all == [d \in DOMAIN book |-> IF d \in DOMAIN agent THEN asks[d] ELSE 0]
<1>3. seed \in DOMAIN Books /\ DOMAIN book = Debtors /\ IsFiniteSet(Debtors)
  BY PageAssumption, BookRow, DebtorsFinite DEF Keys
<1>4. /\ rep.key = key /\ rep.agent = agent
      /\ rep.portfolio = PortfolioOf[seed]
  BY <1>2 DEF Report
<1>5. rep.portfolio.collectible = SumFunction(owed)
  <2>1. PortfolioOf[seed] = Portfolio(book)
    BY <1>3 DEF PortfolioOf
  <2>2. Portfolio(book).collectible = SumFunction(owed)
    BY DEF Portfolio
  <2>3. QED
    BY <1>4, <2>1, <2>2
<1>6. ASSUME NEW d \in DOMAIN agent
      PROVE  /\ d \in Evaluated(book) /\ d \in Debtors
             /\ asks[d] \in Int /\ owed[d] \in Nat /\ asks[d] <= owed[d]
             /\ owed[d] <= Naive(book[d].invoices) /\ Naive(book[d].invoices) \in Nat
  <2>1. d \in Evaluated(book) /\ d \in Debtors /\ Lawful(book[d], agent[d])
    BY <1>2, <1>3, BookRow DEF LawfulBatch
  <2>2. /\ Collectible(book[d].invoices) \in Nat /\ Naive(book[d].invoices) \in Nat
        /\ Collectible(book[d].invoices) <= Naive(book[d].invoices)
    BY <1>3, <2>1, OwedType
  <2>3. agent[d].ask \in Int /\ agent[d].ask <= Collectible(book[d].invoices)
    BY <2>1, <2>2 DEF Lawful
  <2>4. QED
    BY <1>3, <2>1, <2>2, <2>3
<1>7. SumFunction(asks) <= SumFunction(owed)
  <2>1. DOMAIN asks \in SUBSET Debtors
    BY <1>6
  <2>2. \A d \in Debtors : /\ owed[d] \in Nat /\ all[d] \in Int /\ all[d] <= owed[d]
                           /\ d \in DOMAIN asks => all[d] = asks[d] /\ asks[d] \in Int
                           /\ d \notin DOMAIN asks => all[d] = 0
    <3> SUFFICES ASSUME NEW d \in Debtors
                 PROVE  /\ owed[d] \in Nat /\ all[d] \in Int /\ all[d] <= owed[d]
                        /\ d \in DOMAIN asks => all[d] = asks[d] /\ asks[d] \in Int
                        /\ d \notin DOMAIN asks => all[d] = 0
      OBVIOUS
    <3>1. owed[d] \in Nat
      BY <1>3, OwedType
    <3>2. CASE d \in DOMAIN agent
      BY <1>3, <1>6, <3>1, <3>2
    <3>3. CASE d \notin DOMAIN agent
      BY <1>3, <3>1, <3>3
    <3>4. QED
      BY <3>2, <3>3
  <2>3. DOMAIN owed = Debtors
    BY <1>3
  <2> HIDE DEF asks, owed, all
  <2>4. SumFunctionOnSet(all, Debtors) <= SumFunctionOnSet(owed, Debtors)
    <3>1. \A d \in Debtors : all[d] \in Int /\ owed[d] \in Int /\ all[d] <= owed[d]
      BY <2>2
    <3>2. QED
      BY <1>3, <3>1, SumMonotone
  <2>5. SumFunctionOnSet(all, Debtors) = SumFunctionOnSet(all, DOMAIN asks)
    <3>1. \A d \in Debtors : all[d] \in Int
      BY <2>2
    <3>2. \A d \in Debtors \ DOMAIN asks : all[d] = 0
      BY <2>2
    <3>3. QED
      BY <1>3, <2>1, <3>1, <3>2, SumRestricts
  <2>6. SumFunctionOnSet(all, DOMAIN asks) = SumFunctionOnSet(asks, DOMAIN asks)
    <3>1. IsFiniteSet(DOMAIN asks)
      BY <1>3, <2>1, FS_Subset
    <3>2. \A d \in DOMAIN asks : all[d] \in Int /\ all[d] = asks[d]
      BY <2>1, <2>2
    <3>3. QED
      BY <3>1, <3>2, SumSame
  <2>7. QED
    BY <2>3, <2>4, <2>5, <2>6 DEF SumFunction
<1>8. ASSUME NEW d \in DOMAIN agent PROVE agent[d].ask <= BaselineOf[seed][d].ask
  <2>1. BaselineOf[seed][d] = Baseline(book[d].invoices)
    BY <1>3, <1>6 DEF BaselineOf, BaselineBatch
  <2>2. BaselineOf[seed][d].ask = Naive(book[d].invoices)
    BY <1>3, <1>6, <2>1, BaselineAsk
  <2>3. asks[d] = agent[d].ask
    OBVIOUS
  <2> HIDE DEF asks, owed
  <2>4. QED
    BY <1>6, <2>2, <2>3
<1>9. QED
  BY <1>4, <1>5, <1>7, <1>8 DEF Within

(* The asks of a report add up to no more than the book has left to        *)
(* collect, and the calendar policy it is compared with asks every debtor  *)
(* for at least as much (run_experiment.py:104).                           *)
THEOREM AsksWithinBookHolds == Spec => []AsksWithinBook
<1>1. PageInv => AsksWithinBook
  <2>1. ASSUME PageInv, NEW t \in Threads, reply[t].status = 200
        PROVE  Within(reply[t].data)
    <3>1. Earned(reply[t].data)
      BY <2>1 DEF PageInv, ReplyIs
    <3>2. QED
      BY <3>1, EarnedAsks
  <2>2. QED
    BY <2>1 DEF AsksWithinBook, Within
<1>2. QED
  BY <1>1, PageInvHolds, PTL
-----------------------------------------------------------------------------
Models == {Chain[n] : n \in 1..Cardinality(Kept)}

(* No name is kept twice, and so the chain is a sequence of names.         *)
LEMMA ChainIs ==
  /\ Chain \in Seq(Models) /\ Len(Chain) \in Nat
  /\ Chain = [n \in 1..Len(Chain) |-> Chain[n]]
<1>1. Fallbacks \in Seq(Range(Fallbacks))
  BY KeyAssumption
<1>2. DOMAIN Names = 1..(1 + Len(Fallbacks)) /\ Len(Fallbacks) \in Nat
  BY <1>1 DEF Names
<1>3. Kept \subseteq 1..(1 + Len(Fallbacks))
  BY <1>2 DEF Kept
<1>4. IsFiniteSet(Kept)
  <2>1. IsFiniteSet(1..(1 + Len(Fallbacks)))
    <3>1. 1 \in Int /\ 1 + Len(Fallbacks) \in Int
      BY <1>2
    <3>2. QED
      BY <3>1, FS_Interval
  <2>2. QED
    BY <1>3, <2>1, FS_Subset
<1> DEFINE n == Cardinality(Kept)
<1>5. n \in Nat
  BY <1>4, FS_CardinalityType
<1>6. Chain = [k \in 1..n |-> Chain[k]]
  BY DEF Chain
<1>7. Chain \in [1..n -> Models]
  BY <1>6 DEF Models
<1> HIDE DEF n
<1>8. Chain \in Seq(Models) /\ Len(Chain) = n
  BY <1>5, <1>7
<1>9. QED
  BY <1>5, <1>6, <1>8

Failures == [model : Models, why : {"busy", "empty", "refused"}]

Calls == [state : {"none", "asking", "answered", "failed"}, at : Nat, failed : Seq(Failures),
          event : {"none", "llm.failover", "llm.exhausted", "llm.unrecoverable"}]

Tried(k) == [i \in DOMAIN k.failed |-> k.failed[i].model]

Refused(k) == \E i \in DOMAIN k.failed : k.failed[i].why = "refused"

(* While a call is going on, the models before the one being asked are the *)
(* ones that failed it, and none of them refused.                          *)
Under(k) ==
    /\ k.at \in 1..Len(Chain) /\ Len(k.failed) = k.at - 1
    /\ k.event = "none" /\ ~Refused(k)
    /\ \A i \in 1..(k.at - 1) : k.failed[i].model = Chain[i]

Honest(k) ==
    /\ k.event = "llm.exhausted" => Tried(k) = Chain /\ ~Refused(k)
    /\ k.event = "llm.unrecoverable" => Refused(k)
    /\ k.event = "llm.failover" => Tried(k) # <<>> /\ Tried(k) = SubSeq(Chain, 1, k.at - 1)

CallIs(k) == k \in Calls /\ Honest(k) /\ (k.state = "asking" => Under(k))

CallInv == DOMAIN call = Callers /\ \A c \in Callers : CallIs(call[c])

LEMMA QuietCall ==
  ASSUME NEW k \in Calls, k.event = "none", k.state # "asking"
  PROVE  CallIs(k)
  BY DEF CallIs, Honest

LEMMA NoCallIs == NoCall \in Calls /\ CallIs(NoCall)
<1>1. <<>> \in Seq(Failures)
  OBVIOUS
<1>2. NoCall \in Calls
  BY <1>1 DEF NoCall, Calls
<1>3. QED
  BY <1>2, QuietCall DEF NoCall

LEMMA ChangeKeeps ==
  ASSUME CallInv, NEW c \in Callers, NEW k, CallIs(k), call' = [call EXCEPT ![c] = k]
  PROVE  CallInv'
<1>1. DOMAIN call' = Callers
  BY DEF CallInv
<1>2. \A u \in Callers : call'[u] = k \/ call'[u] = call[u]
  BY DEF CallInv
<1>3. QED
  BY <1>1, <1>2 DEF CallInv

LEMMA CallKeeps ==
  ASSUME CallInv, NEW c \in Callers, Call(c)
  PROVE  CallInv'
<1>1. CASE Chain = <<>> \/ ~HasKey
  <2> DEFINE k == [NoCall EXCEPT !.state = "failed"]
  <2>1. k \in Calls /\ k.event = "none" /\ k.state # "asking"
    BY NoCallIs DEF NoCall, Calls
  <2>2. call' = [call EXCEPT ![c] = k]
    BY <1>1 DEF Call
  <2> HIDE DEF k
  <2>3. QED
    BY <2>1, <2>2, QuietCall, ChangeKeeps
<1>2. CASE ~(Chain = <<>> \/ ~HasKey)
  <2> DEFINE k == [NoCall EXCEPT !.state = "asking", !.at = 1]
  <2>1. k \in Calls /\ k.event = "none" /\ k.at = 1 /\ k.failed = <<>>
    BY NoCallIs DEF NoCall, Calls
  <2>2. Len(Chain) # 0
    BY <1>2, ChainIs, EmptySeq
  <2>3. call' = [call EXCEPT ![c] = k]
    BY <1>2 DEF Call
  <2> HIDE DEF k
  <2>4. Under(k)
    BY <2>1, <2>2, ChainIs DEF Under, Refused
  <2>5. CallIs(k)
    BY <2>1, <2>4 DEF CallIs, Honest
  <2>6. QED
    BY <2>3, <2>5, ChangeKeeps
<1>3. QED
  BY <1>1, <1>2

(* What one more failure makes of the models tried. *)
LEMMA FailedIs ==
  ASSUME NEW k \in Calls, Under(k), NEW why \in {"busy", "empty", "refused"}
  PROVE  LET more == Append(k.failed, [model |-> Chain[k.at], why |-> why])
         IN  /\ more \in Seq(Failures) /\ Len(more) = k.at
             /\ \A i \in 1..k.at : more[i].model = Chain[i]
             /\ (\E i \in 1..k.at : more[i].why = "refused") <=> why = "refused"
<1> DEFINE fresh == [model |-> Chain[k.at], why |-> why]
           more == Append(k.failed, fresh)
<1>1. k.failed \in Seq(Failures) /\ Len(k.failed) = k.at - 1 /\ k.at \in 1..Len(Chain)
  BY DEF Calls, Under
<1>2. fresh \in Failures /\ fresh.model = Chain[k.at] /\ fresh.why = why
  BY <1>1, ChainIs DEF Failures
<1> HIDE DEF fresh
<1>3. /\ more \in Seq(Failures) /\ Len(more) = k.at
      /\ more[k.at] = fresh
      /\ \A i \in 1..(k.at - 1) : more[i] = k.failed[i]
  BY <1>1, <1>2, ChainIs
<1>4. \A i \in 1..(k.at - 1) : k.failed[i].model = Chain[i] /\ k.failed[i].why # "refused"
  BY <1>1 DEF Under, Refused
<1>5. \A i \in 1..k.at : i = k.at \/ i \in 1..(k.at - 1)
  BY <1>1, ChainIs
<1>6. k.at \in 1..k.at
  BY <1>1, ChainIs
<1> HIDE DEF more
<1>7. QED
  BY <1>2, <1>3, <1>4, <1>5, <1>6 DEF more, fresh

LEMMA ModelStepKeeps ==
  ASSUME CallInv, NEW c \in Callers, ModelStep(c)
  PROVE  CallInv'
<1> DEFINE k == call[c]
           More(why) == Append(k.failed, [model |-> Chain[k.at], why |-> why])
<1>1. k \in Calls /\ CallIs(k) /\ k.state = "asking" /\ Under(k)
  BY DEF ModelStep, ModelAnswers, ModelFails, ModelRefuses, Asking, CallInv, CallIs
<1>2. k.at \in 1..Len(Chain) /\ Len(k.failed) = k.at - 1 /\ k.failed \in Seq(Failures)
  BY <1>1 DEF Under, Calls
<1>3. CASE ModelAnswers(c)
  <2>1. PICK event \in {"llm.failover", "none"} :
          event = IF k.at > 1 THEN "llm.failover" ELSE "none"
    OBVIOUS
  <2> DEFINE done == [k EXCEPT !.state = "answered", !.failed = k.failed, !.event = event]
  <2>2. call' = [call EXCEPT ![c] = done]
    BY <1>3, <2>1 DEF ModelAnswers, Ends
  <2>3. /\ done \in Calls /\ done.state = "answered" /\ done.event = event
        /\ done.failed = k.failed /\ done.at = k.at
    BY <1>1 DEF Calls
  <2> HIDE DEF k, done
  <2>4. ASSUME event = "llm.failover"
        PROVE  Tried(done) # <<>> /\ Tried(done) = SubSeq(Chain, 1, done.at - 1)
    <3>1. k.at > 1
      BY <2>1, <2>4
    <3>2. DOMAIN k.failed = 1..(k.at - 1)
      BY <1>2
    <3>3. Tried(done) = [i \in 1..(k.at - 1) |-> k.failed[i].model]
      BY <2>3, <3>2 DEF Tried
    <3>4. \A i \in 1..(k.at - 1) : k.failed[i].model = Chain[i]
      BY <1>1 DEF Under
    <3>5. Tried(done) = [i \in 1..(k.at - 1) |-> Chain[i]]
      BY <3>3, <3>4
    <3>6. SubSeq(Chain, 1, k.at - 1) = [i \in 1..(k.at - 1) |-> Chain[i]]
      BY <1>2, <3>1, ChainIs
    <3>7. DOMAIN Tried(done) # {} /\ DOMAIN <<>> = {}
      BY <1>2, <3>1, <3>5, ChainIs
    <3>8. QED
      BY <2>3, <3>5, <3>6, <3>7
  <2>5. CallIs(done)
    BY <2>1, <2>3, <2>4 DEF CallIs, Honest
  <2>6. QED
    BY <2>2, <2>5, ChangeKeeps
<1>4. ASSUME NEW why \in {"busy", "empty"}, ModelFails(c, why) PROVE CallInv'
  <2> DEFINE more == More(why)
  <2>1. /\ more \in Seq(Failures) /\ Len(more) = k.at
        /\ \A i \in 1..k.at : more[i].model = Chain[i]
        /\ ~\E i \in 1..k.at : more[i].why = "refused"
    <3>1. why \in {"busy", "empty", "refused"} /\ why # "refused"
      OBVIOUS
    <3> HIDE DEF k
    <3>2. QED
      BY <1>1, <3>1, FailedIs
  <2>2. FailedWith(c, why) = more
    BY DEF FailedWith
  <2>3. CASE OnLast(c)
    <3> DEFINE done == [k EXCEPT !.state = "failed", !.failed = more, !.event = "llm.exhausted"]
    <3>1. call' = [call EXCEPT ![c] = done] /\ k.at = Len(Chain)
      BY <1>4, <2>2, <2>3 DEF ModelFails, Ends, EndEvent, OnLast
    <3> HIDE DEF more
    <3>2. /\ done \in Calls /\ done.state = "failed" /\ done.event = "llm.exhausted"
          /\ done.failed = more
      BY <1>1, <2>1 DEF Calls
    <3> HIDE DEF k, done
    <3>3. DOMAIN more = 1..Len(Chain)
      BY <2>1, <3>1
    <3>4. Tried(done) = [i \in 1..Len(Chain) |-> more[i].model]
      BY <3>2, <3>3 DEF Tried
    <3>5. Tried(done) = [i \in 1..Len(Chain) |-> Chain[i]]
      BY <2>1, <3>1, <3>4
    <3>6. Tried(done) = Chain /\ ~Refused(done)
      BY <2>1, <3>1, <3>2, <3>3, <3>5, ChainIs DEF Refused
    <3>7. CallIs(done)
      BY <3>2, <3>6 DEF CallIs, Honest
    <3>8. QED
      BY <3>1, <3>7, ChangeKeeps
  <2>4. CASE ~OnLast(c)
    <3> DEFINE next == [k EXCEPT !.at = k.at + 1, !.failed = more]
    <3>1. call' = [call EXCEPT ![c] = next] /\ k.at # Len(Chain)
      BY <1>4, <2>2, <2>4 DEF ModelFails, PassesOn, OnLast
    <3> HIDE DEF more, k
    <3>2. /\ next \in Calls /\ next.event = k.event /\ next.at = k.at + 1
          /\ next.failed = more
      <4>1. k \in Calls /\ k.at + 1 \in Nat /\ more \in Seq(Failures)
        BY <1>1, <1>2, <2>1, ChainIs
      <4>2. QED
        BY <4>1 DEF Calls
    <3>3. k.event = "none"
      BY <1>1 DEF Under
    <3> HIDE DEF next
    <3>4. next.at \in 1..Len(Chain) /\ next.at - 1 = k.at
      BY <1>2, <3>1, <3>2, ChainIs
    <3>5. ~Refused(next)
      BY <2>1, <3>2 DEF Refused
    <3>6. Under(next)
      BY <2>1, <3>2, <3>3, <3>4, <3>5 DEF Under
    <3>7. CallIs(next)
      BY <3>2, <3>3, <3>6 DEF CallIs, Honest
    <3>8. QED
      BY <3>1, <3>7, ChangeKeeps
  <2>5. QED
    BY <2>3, <2>4
<1>5. CASE ModelRefuses(c)
  <2> DEFINE more == More("refused")
             done == [k EXCEPT !.state = "failed", !.failed = more,
                               !.event = "llm.unrecoverable"]
  <2>1. /\ more \in Seq(Failures) /\ Len(more) = k.at
        /\ \E i \in 1..k.at : more[i].why = "refused"
    BY <1>1, FailedIs
  <2>2. call' = [call EXCEPT ![c] = done]
    BY <1>5 DEF ModelRefuses, Ends, EndEvent, FailedWith
  <2> HIDE DEF more
  <2>3. /\ done \in Calls /\ done.state = "failed" /\ done.event = "llm.unrecoverable"
        /\ done.failed = more
    BY <1>1, <2>1 DEF Calls
  <2> HIDE DEF k, done
  <2>4. Refused(done)
    BY <2>1, <2>3 DEF Refused
  <2>5. CallIs(done)
    BY <2>3, <2>4 DEF CallIs, Honest
  <2>6. QED
    BY <2>2, <2>5, ChangeKeeps
<1>6. QED
  BY <1>3, <1>4, <1>5 DEF ModelStep

LEMMA CallStep ==
  ASSUME CallInv, [Next]_vars
  PROVE  CallInv'
<1>1. Callers = Threads
  BY PageAssumption
<1>2. ASSUME UNCHANGED call PROVE CallInv'
  BY <1>2 DEF CallInv
<1>3. ASSUME NEW t \in Threads, DecideNext(t) PROVE CallInv'
  BY <1>1, <1>2, <1>3, CallKeeps DEF DecideNext
<1>4. ASSUME NEW t \in Threads, AskModel(t) PROVE CallInv'
  BY <1>1, <1>4, ModelStepKeeps DEF AskModel
<1>5. ASSUME NEW t \in Threads, TakeAnswer(t) PROVE CallInv'
  <2>1. call' = [call EXCEPT ![t] = NoCall]
    BY <1>5 DEF TakeAnswer
  <2>2. QED
    BY <1>1, <2>1, NoCallIs, ChangeKeeps
<1>6. ASSUME NEW t \in Threads,
             \/ LookUp(t) \/ Copy(t) \/ Open(t) \/ FoldLog(t) \/ EndExperiment(t) \/ Draft(t)
             \/ Store(t) \/ Trim(t) \/ Evict(t) \/ Close(t) \/ Fail(t)
      PROVE  UNCHANGED call
  BY <1>6 DEF LookUp, Copy, Open, FoldLog, EndExperiment, Draft, Store, Trim, Evict, Close,
              Fail, Leave
<1>7. ASSUME NEW t \in Threads, NEW r \in Requests, Arrive(t, r) PROVE UNCHANGED call
  BY <1>7 DEF Arrive
<1>8. ASSUME NEW d \in Contacts, ApplicationContacts(d) PROVE UNCHANGED call
  BY <1>8 DEF ApplicationContacts
<1>9. QED
  BY <1>2, <1>3, <1>4, <1>5, <1>6, <1>7, <1>8 DEF Next, Serve, vars

(* What the log is told of a call is what happened to it: exhausted means  *)
(* every model of the chain failed and none refused, unrecoverable that    *)
(* one refused, a failover names the models before the one that answered   *)
(* (complete in app/llm.py).                                               *)
THEOREM ChainHonestHolds == Spec => []ChainHonest
<1>1. Init => CallInv
  BY NoCallIs DEF Init, ChainInit, CallInv
<1>2. CallInv /\ [Next]_vars => CallInv'
  BY CallStep
<1>3. CallInv => ChainHonest
  BY DEF CallInv, CallIs, Honest, Tried, Refused, ChainHonest
<1>4. QED
  BY <1>1, <1>2, <1>3, PTL DEF Spec
=============================================================================
