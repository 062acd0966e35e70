------------------------------ MODULE ResultsPage ------------------------------
(***************************************************************************)
(* The results page (get_results_data in app/server.py) and the experiment *)
(* it runs (run_experiment.py): request threads that share one cache, each *)
(* pointing the audit log at a scratch directory of its own while the      *)
(* application goes on writing the production log.                         *)
(*                                                                         *)
(* A request names a key, a seed and a date, and may ask for the live      *)
(* model.  The ledger of a seed is what the generator makes of it, the     *)
(* same every time; the date labels the result and dates its drafts.       *)
(* What a thread's context variables hold is scopes, the scratch logs it   *)
(* has open, innermost last, and scripted, whether complete() is           *)
(* overridden.  Of a log entry only the debtor a decision is about is      *)
(* kept, and whether it counts as a contact.                               *)
(*                                                                         *)
(* Left out: the rendering of the report, and the wording of its drafts.   *)
(***************************************************************************)
EXTENDS Benchmark, ModelChain

CONSTANTS
    Threads,      \* request threads
    Books,        \* generate(seed), for each seed
    Order,        \* the debtors in the ledger's order
    Contacts,     \* those of them the application may contact meanwhile
    CaseDebtor,   \* the debtor each adjudication case is about
    Requests,     \* what a client may ask for
    DefaultKey,   \* the published run
    Answers,      \* what the live model may answer
    CacheMax,     \* _RESULTS_CACHE_MAX
    DiskFails     \* whether a write to a scratch log may fail

ASSUME PageAssumption ==
    /\ Callers = Threads
    /\ IsFiniteSet(Threads)
    /\ Order \in Seq(Range(Order))
    /\ CacheMax \in Nat \ {0}
    /\ DiskFails \in BOOLEAN
    /\ \A r \in Requests : r.key[1] \in DOMAIN Books
    /\ Answers \subseteq DecisionRow
    /\ \A seed \in DOMAIN Books : DOMAIN Books[seed] = Range(Order)

(* What the generator can draw: tax withheld and a transfer settle an      *)
(* invoice, a part payment does not.                                       *)
ASSUME GeneratorAssumption ==
    \A seed \in DOMAIN Books, d \in Range(Order) :
        LET row == Books[seed][d]
        IN  /\ row.made \in Nat /\ row.kept \in 0..row.made /\ row.late \in Int
            /\ IsFiniteSet(DOMAIN row.invoices)
            /\ \A i \in DOMAIN row.invoices :
                LET inv == row.invoices[i]
                IN  /\ {inv.amount, inv.received, inv.tds} \subseteq Nat
                    /\ inv.days \in Nat \ {0}
                    /\ Balance(inv) >= 0
                    /\ inv.tds > 0 <=> inv.state = "TDS_UNDERPAID"
                    /\ inv.state \in {"TDS_UNDERPAID", "PAID_OFF_RAIL"} <=> Balance(inv) = 0
                    /\ inv.received > 0 <=> inv.state \notin {"OVERDUE", "DISPUTED"}

VARIABLES
    cache,       \* _RESULTS_CACHE: keys and reports, oldest first
    production,  \* the production log
    contacted,   \* history: the debtors the application recorded a contact with
    pc,          \* each thread: where its request is
    request,     \* what it was asked for
    scopes,      \* its scratch logs
    scripted,    \* whether it has complete() overridden
    folded,      \* the debtors its batch takes for contacted
    decisions,   \* the decisions made so far
    sources,     \* history: what its answers came from
    report,      \* what it computed
    reply        \* its last answer

contextVars == <<scopes, scripted>>
workVars == <<request, folded, decisions, sources, report>>
vars == <<call, cache, production, contacted, pc, contextVars, workVars, reply>>

Nothing == <<>>

NoReply == [status |-> 0]

NoRequest == [live |-> FALSE]

Book(t) == Books[request[t].key[1]]

Init ==
    /\ ChainInit
    /\ cache = <<>>
    /\ production = {}
    /\ contacted = {}
    /\ pc = [t \in Threads |-> "idle"]
    /\ request = [t \in Threads |-> NoRequest]
    /\ scopes = [t \in Threads |-> <<>>]
    /\ scripted = [t \in Threads |-> FALSE]
    /\ folded = [t \in Threads |-> {}]
    /\ decisions = [t \in Threads |-> Nothing]
    /\ sources = [t \in Threads |-> {}]
    /\ report = [t \in Threads |-> Nothing]
    /\ reply = [t \in Threads |-> NoReply]

-----------------------------------------------------------------------------
(* Deviation: the log's path is the process's. *)
RecordInProduction(t, entries) ==
    /\ production' = production \cup entries
    /\ UNCHANGED scopes

(* audit.record follows the context of the thread it runs in. *)
Record(t, entries) ==
    IF scopes[t] = <<>>
    THEN /\ production' = production \cup entries
         /\ UNCHANGED scopes
    ELSE /\ scopes' = [scopes EXCEPT ![t][Len(scopes[t])] = @ \cup entries]
         /\ UNCHANGED production

Entry(by, d, contact) == [by |-> by, debtor |-> d, contact |-> contact]

(* What audit.read_all returns in this thread. *)
LogRead(t) == IF scopes[t] = <<>> THEN production ELSE Last(scopes[t])

(* The application contacts a debtor, in a context of its own. *)
ApplicationContacts(d) ==
    /\ d \notin contacted
    /\ contacted' = contacted \cup {d}
    /\ production' = production \cup {Entry("application", d, TRUE)}
    /\ UNCHANGED <<call, cache, pc, contextVars, workVars, reply>>

-----------------------------------------------------------------------------
(* Deviation: the cache does not tell dates apart. *)
CacheKeySeed(key) == key[1]

CacheKey(key) == key

Cached(key) == \E i \in DOMAIN cache : cache[i].key = CacheKey(key)

Stored(key) == cache[CHOOSE i \in DOMAIN cache : cache[i].key = CacheKey(key)].report

Reply(t, r, status, data) ==
    /\ pc' = [pc EXCEPT ![t] = "idle"]
    /\ reply' = [reply EXCEPT ![t] = [status |-> status, request |-> r, data |-> data]]

(* The request is over and its working state with it. *)
Forget(t) ==
    /\ request' = [request EXCEPT ![t] = NoRequest]
    /\ folded' = [folded EXCEPT ![t] = {}]
    /\ decisions' = [decisions EXCEPT ![t] = Nothing]
    /\ sources' = [sources EXCEPT ![t] = {}]
    /\ report' = [report EXCEPT ![t] = Nothing]

(* Anything but the published run needs the operator key. *)
Allowed(r) == r.operator \/ (~r.live /\ r.key = DefaultKey)

Arrive(t, r) ==
    /\ pc[t] = "idle"
    /\ IF Allowed(r)
       THEN /\ pc' = [pc EXCEPT ![t] = "lookup"]
            /\ request' = [request EXCEPT ![t] = r]
            /\ reply' = [reply EXCEPT ![t] = NoReply]
       ELSE /\ Reply(t, r, 401, Nothing)
            /\ UNCHANGED request
    /\ UNCHANGED <<call, cache, production, contacted, contextVars, folded, decisions,
                   sources, report>>

LookUp(t) ==
    /\ pc[t] = "lookup"
    /\ pc' = [pc EXCEPT ![t] =
               IF ~request[t].live /\ Cached(request[t].key) THEN "copy" ELSE "open"]
    /\ UNCHANGED <<call, cache, production, contacted, contextVars, workVars, reply>>

(* The key was there a moment ago; another thread may have evicted it. *)
Copy(t) ==
    /\ pc[t] = "copy"
    /\ IF Cached(request[t].key)
       THEN Reply(t, request[t], 200, Stored(request[t].key))
       ELSE Reply(t, request[t], 500, Nothing)
    /\ Forget(t)
    /\ UNCHANGED <<call, cache, production, contacted, contextVars>>

(* isolated_audit_log twice, once here and once in run_experiment, and     *)
(* around the batch override_complete unless the model is asked for live.  *)
Open(t) ==
    /\ pc[t] = "open"
    /\ pc' = [pc EXCEPT ![t] = "fold"]
    /\ scopes' = [scopes EXCEPT ![t] = <<{}, {}>>]
    /\ scripted' = [scripted EXCEPT ![t] = scripted[t] \/ ~request[t].live]
    /\ UNCHANGED <<call, cache, production, contacted, workVars, reply>>

(* run_strategist_batch folds the log once. *)
FoldLog(t) ==
    /\ pc[t] = "fold"
    /\ pc' = [pc EXCEPT ![t] = "batch"]
    /\ folded' = [folded EXCEPT ![t] = {e.debtor : e \in {x \in LogRead(t) : x.contact}}]
    /\ UNCHANGED <<call, cache, production, contacted, contextVars, request, decisions,
                   sources, report, reply>>

-----------------------------------------------------------------------------
(* What a seed's ledger makes of a debtor, for one nobody has contacted    *)
(* and one contacted today: functions of the ledger alone.                 *)
Histories == [contact \in BOOLEAN |-> IF contact THEN [NoHistory EXCEPT !.days = 0]
                                      ELSE NoHistory]

PermittedTo ==
    [seed \in DOMAIN Books |->
        [d \in Range(Order) |->
            LET row == Books[seed][d]
            IN  [contact \in BOOLEAN |-> Permitted(row, row.invoices, Histories[contact])]]]

OwedBy ==
    [seed \in DOMAIN Books |-> [d \in Range(Order) |-> Collectible(Books[seed][d].invoices)]]

(* run_deterministic_agent_batch, debtor by debtor *)
ScriptedDecision ==
    [seed \in DOMAIN Books |->
        [d \in Range(Order) |->
            LET row == Books[seed][d]
                owed == OwedBy[seed][d]
            IN  [contact \in BOOLEAN |->
                    LET permitted == PermittedTo[seed][d][contact]
                    IN  Decision(ScriptedAnswer(row, row.invoices, permitted),
                                 permitted, owed)]]]

BaselineOf == [seed \in DOMAIN Books |-> BaselineBatch(Books[seed])]

PortfolioOf == [seed \in DOMAIN Books |-> Portfolio(Books[seed])]

Seed(t) == request[t].key[1]

PermittedNow(t, d) == PermittedTo[Seed(t)][d][(d \in folded[t])]

(* The debtors with something open nothing has been decided about, by      *)
(* their places in the ledger, and the first of them.                      *)
Undecided(t) ==
    LET left == Evaluated(Book(t)) \ DOMAIN decisions[t]
    IN  {i \in DOMAIN Order : Order[i] \in left}

NextDebtor(t) == Order[Min(Undecided(t))]

(* Deviation: overriding complete() overrides it for every thread. *)
OverriddenAnywhere(t) == \E u \in Threads : scripted[u]

Overridden(t) == scripted[t]

Adding(taken, d, decision) ==
    [e \in DOMAIN taken \cup {d} |-> IF e = d THEN decision ELSE taken[e]]

(* The decision is logged and the batch goes on. *)
Decide(t, d, decision, source) ==
    /\ pc' = [pc EXCEPT ![t] = "batch"]
    /\ decisions' = [decisions EXCEPT ![t] = Adding(decisions[t], d, decision)]
    /\ sources' = [sources EXCEPT ![t] = sources[t] \cup source]
    /\ Record(t, {Entry(t, d, decision.channel # "none")})
    /\ UNCHANGED <<cache, contacted, scripted, request, folded, report, reply>>

(* decide_for_debtor up to the model's answer *)
DecideNext(t) ==
    /\ pc[t] = "batch"
    /\ Undecided(t) # {}
    /\ LET d == NextDebtor(t)
           row == Book(t)[d]
       IN  \/ /\ row.optedOut
              /\ Decide(t, d, Suppressed, {})
              /\ UNCHANGED call
           \/ /\ ~row.optedOut
              /\ Overridden(t)
              /\ Decide(t, d, ScriptedDecision[Seed(t)][d][(d \in folded[t])], {"script"})
              /\ UNCHANGED call
           \/ /\ ~row.optedOut
              /\ ~Overridden(t)
              /\ Call(t)
              /\ pc' = [pc EXCEPT ![t] = "asking"]
              /\ UNCHANGED <<cache, production, contacted, contextVars, workVars, reply>>

AskModel(t) ==
    /\ pc[t] = "asking"
    /\ ModelStep(t)
    /\ UNCHANGED <<cache, production, contacted, pc, contextVars, workVars, reply>>

(* The rest of it: an answer, one nobody can read, or none. *)
TakeAnswer(t) ==
    /\ pc[t] = "asking"
    /\ LET d == NextDebtor(t)
           permitted == PermittedNow(t, d)
           owed == OwedBy[Seed(t)][d]
       IN  \/ /\ call[t].state \in {"answered", "failed"}
              /\ Decide(t, d, NoAnswer(permitted), {"fallback"})
           \/ /\ call[t].state = "answered"
              /\ \E answer \in Answers :
                   Decide(t, d, Decision(answer, permitted, owed), {"model"})
    /\ call' = [call EXCEPT ![t] = NoCall]

-----------------------------------------------------------------------------
(* What a request for a key is answered, given the agent's decisions. *)
Report(key, agent) ==
    LET book == Books[key[1]]
        baseline == BaselineOf[key[1]]
    IN  [key       |-> key,
         portfolio |-> PortfolioOf[key[1]],
         agent     |-> agent,
         metrics   |-> Metrics(agent, baseline),
         verdicts  |-> Verdicts(book, CaseDebtor, agent, baseline)]

(* The way out of override_complete, where a live request never was. *)
Restored(t) == scripted[t] /\ request[t].live

(* run_experiment returns: the override and the inner scope are reset.     *)
(* Deviation: resetting the inner scope takes the outer one with it.       *)
ScopesAfterAll(s) == <<>>

ScopesAfter(s) == Front(s)

EndExperiment(t) ==
    /\ pc[t] = "batch"
    /\ Undecided(t) = {}
    /\ pc' = [pc EXCEPT ![t] = "draft"]
    /\ scopes' = [scopes EXCEPT ![t] = ScopesAfter(scopes[t])]
    /\ scripted' = [scripted EXCEPT ![t] = Restored(t)]
    /\ report' = [report EXCEPT ![t] = Report(request[t].key, decisions[t])]
    /\ UNCHANGED <<call, cache, production, contacted, request, folded, decisions,
                   sources, reply>>

(* A preview of the copy for each case's debtor the agent would write to. *)
Drafted(t) ==
    {d \in Range(CaseDebtor) \cap DOMAIN decisions[t] :
        decisions[t][d].strategy \notin {"WAIT", "HUMAN_HANDOFF"}}

Draft(t) ==
    /\ pc[t] = "draft"
    /\ Record(t, {Entry(t, d, FALSE) : d \in Drafted(t)})
    /\ pc' = [pc EXCEPT ![t] = IF request[t].live THEN "close" ELSE "store"]
    /\ UNCHANGED <<call, cache, contacted, scripted, workVars, reply>>

(* An assignment to a key that is there keeps its place. *)
Store(t) ==
    /\ pc[t] = "store"
    /\ LET item == [key |-> CacheKey(request[t].key), report |-> report[t]]
       IN  cache' = IF Cached(request[t].key)
                    THEN [i \in DOMAIN cache |->
                            IF cache[i].key = item.key THEN item ELSE cache[i]]
                    ELSE Append(cache, item)
    /\ pc' = [pc EXCEPT ![t] = "trim"]
    /\ UNCHANGED <<call, production, contacted, contextVars, workVars, reply>>

(* Deviation: one entry too many is let in. *)
OverfullLate == Len(cache) > CacheMax + 1

Overfull == Len(cache) > CacheMax

Trim(t) ==
    /\ pc[t] = "trim"
    /\ pc' = [pc EXCEPT ![t] = IF Overfull THEN "evict" ELSE "close"]
    /\ UNCHANGED <<call, cache, production, contacted, contextVars, workVars, reply>>

(* The way out of every scope that is still open, with an answer. *)
Leave(t, status, data) ==
    /\ scopes' = [scopes EXCEPT ![t] = <<>>]
    /\ scripted' = [scripted EXCEPT ![t] =
         IF pc[t] \in {"fold", "batch"} THEN Restored(t) ELSE scripted[t]]
    /\ Reply(t, request[t], status, data)
    /\ Forget(t)
    /\ UNCHANGED <<call, production, contacted>>

(* Deviation: the oldest report is moved to the end, not out. *)
OldestMoved(entries) == Append(Tail(entries), Head(entries))

OldestOut(entries) == Tail(entries)

(* popitem(last=False), which raises when there is nothing left to pop. *)
Evict(t) ==
    /\ pc[t] = "evict"
    /\ IF cache = <<>>
       THEN /\ Leave(t, 500, Nothing)
            /\ UNCHANGED cache
       ELSE /\ cache' = OldestOut(cache)
            /\ pc' = [pc EXCEPT ![t] = "trim"]
            /\ UNCHANGED <<call, production, contacted, contextVars, workVars, reply>>

Close(t) ==
    /\ pc[t] = "close"
    /\ Leave(t, 200, report[t])
    /\ UNCHANGED cache

(* A write to a scratch log fails: every scope is left on the way out and  *)
(* the client gets a 500.                                                  *)
Fail(t) ==
    /\ DiskFails
    /\ pc[t] \in {"open", "fold", "batch", "draft"}
    /\ Leave(t, 500, Nothing)
    /\ UNCHANGED cache

-----------------------------------------------------------------------------
Serve(t) ==
    \/ LookUp(t) \/ Copy(t)
    \/ Open(t) \/ FoldLog(t) \/ DecideNext(t) \/ AskModel(t) \/ TakeAnswer(t)
    \/ EndExperiment(t) \/ Draft(t)
    \/ Store(t) \/ Trim(t) \/ Evict(t) \/ Close(t)

Next ==
    \/ \E t \in Threads, r \in Requests : Arrive(t, r)
    \/ \E t \in Threads : Serve(t) \/ Fail(t)
    \/ \E d \in Contacts : ApplicationContacts(d)

(* A thread that has work runs; a model is given LLM_TIMEOUT_MS. *)
Fairness == \A t \in Threads : WF_vars(Serve(t))

Spec == Init /\ [][Next]_vars /\ Fairness

-----------------------------------------------------------------------------
(* Every variable has a value the code can give it; a thread that waits    *)
(* for a request has no scope open and nothing overridden.                 *)
TypeOK ==
    /\ pc \in [Threads -> {"idle", "lookup", "copy", "open", "fold", "batch", "asking",
                           "draft", "store", "trim", "evict", "close"}]
    /\ request \in [Threads -> Requests \cup {NoRequest}]
    /\ scripted \in [Threads -> BOOLEAN]
    /\ contacted \subseteq Contacts
    /\ \A t \in Threads :
        /\ Len(scopes[t]) = CASE pc[t] \in {"idle", "lookup", "copy", "open"} -> 0
                              [] pc[t] \in {"fold", "batch", "asking"} -> 2
                              [] OTHER -> 1
        /\ scripted[t] <=> pc[t] \in {"fold", "batch"} /\ ~request[t].live
        /\ reply[t].status \in {0, 200, 401, 500}
    /\ \A i, j \in DOMAIN cache : cache[i].key = cache[j].key => i = j

(* The report anybody gets who computes a key alone, on an empty log, with *)
(* the scripted solver.                                                    *)
Reference ==
    [key \in {r.key : r \in Requests} |->
        LET book == Books[key[1]]
            Alone(d) == IF book[d].optedOut THEN Suppressed
                        ELSE ScriptedDecision[key[1]][d][FALSE]
        IN  Report(key, [d \in Evaluated(book) |-> Alone(d)])]

(* "so a batch is a pure function of its seed, which the experiment        *)
(* depends on" (strategist.py:585): whatever runs beside it and whatever   *)
(* the cache went through, an offline answer is the reference's.           *)
ServedIsPure ==
    \A t \in Threads :
        reply[t].status = 200 /\ ~reply[t].request.live =>
            reply[t].data = Reference[reply[t].request.key]

(* The experiment leaves no trace in the production log, and the           *)
(* application's entries all reach it (isolated_audit_log,                 *)
(* run_experiment.py:39).                                                  *)
ProductionUntouched == production = {Entry("application", d, TRUE) : d \in contacted}

(* A live run is decided by the live model or by nobody: the script of an  *)
(* offline run in another thread never stands in for it (llm.py,           *)
(* override_complete).                                                     *)
LiveNeverScripted == \A t \in Threads : request[t].live => "script" \notin sources[t]

(* "Bounded, and small on purpose" (server.py): beyond its bound the cache *)
(* holds at most one report for each thread that is still trimming it.     *)
CacheBounded ==
    Len(cache) <= CacheMax + Cardinality({t \in Threads : pc[t] \in {"trim", "evict"}})

(* A verdict is shown only for the mechanism it names, live or not: the    *)
(* suppressed debtor opted out and no model was asked about it, restraint  *)
(* is shown to a debtor who pays late and keeps four promises of five, the *)
(* refusal of the statute to a trader's, and who paid by transfer or       *)
(* withheld tax is asked for nothing (run_experiment.py:463).              *)
VerdictEarned ==
    \A t \in Threads : reply[t].status = 200 =>
        \A case \in reply[t].data.verdicts :
            LET row == Books[reply[t].data.key[1]][CaseDebtor[case]]
                own == reply[t].data.agent[CaseDebtor[case]]
            IN  /\ case = 6 => row.optedOut /\ own = Suppressed
                /\ case = 7 => /\ ~row.optedOut /\ row.late > 0
                               /\ row.made >= 4 /\ (row.made - row.kept) * 5 <= row.made
                /\ case = 4 => ~row.eligible /\ own.ask > 0
                /\ case \in {1, 2, 5} => own.ask = 0

(* The agent's asks add up to no more than the book has left to collect,   *)
(* and the policy it is measured against asks for at least as much of      *)
(* every debtor: what the report claims to compare (run_experiment.py:104).*)
AsksWithinBook ==
    \A t \in Threads : reply[t].status = 200 =>
        LET data == reply[t].data
            baseline == BaselineOf[data.key[1]]
        IN  /\ SumFunction([d \in DOMAIN data.agent |-> data.agent[d].ask])
                 <= data.portfolio.collectible
            /\ \A d \in DOMAIN data.agent : data.agent[d].ask <= baseline[d].ask

(* Every request is answered, whatever the model, the disk and the other   *)
(* threads do, with one way out: the loop that trims the cache asks again  *)
(* after each eviction (server.py:1141), and others who never stop storing *)
(* can keep it asking.                                                     *)
Answered ==
    \A t \in Threads :
        \/ []<>(pc[t] = "idle")
        \/ \E u \in Threads \ {t} : []<>(pc[u] = "store")

(* A request fails only if the disk does. *)
NoServerError == ~DiskFails => \A t \in Threads : reply[t].status # 500

(* "Several open invoices across more than one lifecycle state with a weak *)
(* promise record" (run_experiment.py:603): the case of the complex        *)
(* account is shown for such an account.                                   *)
ComplexIsComplex ==
    \A t \in Threads : reply[t].status = 200 /\ 8 \in reply[t].data.verdicts =>
        LET row == Books[reply[t].data.key[1]][CaseDebtor[8]]
        IN  Mixed(row.invoices) /\ ~Reliable(row)
=============================================================================
