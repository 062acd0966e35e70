# Verification of the RPay recovery agent

TLA+ models of the program in this repository, the TLC runs that check them on
small instances, and proofs that TLAPS checks for every value of the constants.
Modules are translated from the code under `src/`; `PROJECT.json` maps every
definition to the lines it stands for.

## 1. Inventory

The program chases overdue B2B invoices. A FastAPI server gives each debtor a
resolution page (pay, promise, dispute), a strategist asks a language model what
to do about each debtor inside a hard policy envelope, a pipeline sends or queues
the result, and operators approve what was queued. Everything meets in three
places: the invoice dicts of the server (with their `invoice_runtime` rows), the
review queue, and the append-only audit log, which the strategist folds back into
the history the envelope reads.

| component | code | state | operations | talks to |
|---|---|---|---|---|
| Payment surface and settlement | `server.py`, `store.py` | `INVOICES` dicts, `invoice_runtime` rows, `applied payment` claims, `_SETTLEMENT_LOCK` | create_order, webhook → suppress_on_settlement, hydrate, persist | Razorpay (redelivers), database, audit log |
| Promise door and fold | `server.py` record_promise, `contact_history.py` build | promised_date and promise_windows of an invoice; the folded promise | promise, settle, dispute, restart | audit log, clock |
| Review queue, kill switch | `operator.py`, `store.py`, `pipeline.py` | queue per debtor (memory or table), switch | queue, approve, reject, requeue, set switch | channels, audit log |
| Audit log | `audit.py` | `events.jsonl` | record, read_all | everybody |
| Decision loop | `envelope.py`, `strategist.py`, `contact_history.py`, `pipeline.py` | the log, and per batch what it folded and decided | fold, decide, log, queue, dispatch | model, log, queue |
| Unattended run, channels, contacts | `pipeline.py`, `channels.py`, `contacts.py`, `operator.py` | the run's plan and totals, contacts file, environment, outbox | run, dispatch, approve, switch, restart | Resend, review queue, audit log |
| Model chain | `llm.py` | context-local override | complete with failover | Gemini, audit log |
| Statute and dispute dates | `statute.py`, `disputes.py`, `server.py` raise_dispute | acceptance date and suspension in an invoice dict | object, settle, price a letter | settlement, messages |
| Message drafting | `messages.py` | none | draft | statute |
| Baseline and benchmark | `baseline.py`, `run_experiment.py` | none | ladder, batch, metrics, adjudication | strategist |
| Results page | `server.py` get_results_data, `run_experiment.py`, `audit.py` | `_RESULTS_CACHE`, scratch log and solver per context | compute, cache, evict | experiment, model, audit log |
| Mandate, ledger, gateway, hygiene, templates | same names | none | pure functions, I/O, presentation | – |

What is hard here, and what makes each part correct:

- **Settlement.** The webhook is async and serialised by a per-process lock; the
  other routes run in a threadpool, write the same dict and row without the lock,
  and in durable mode several instances share the rows. Razorpay redelivers a
  capture until it sees a 200. Correct: a capture is credited once, is on the books
  when it is acknowledged, PAID only when covered, the lock is always given back.
- **Promises.** Two judges of one promise: the door reads this process's dicts, the
  fold reads the whole log. Correct: a debtor cannot hold recovery off for ever,
  only the promise's own invoice closes it, an accepted promise is honoured.
- **Review queue.** Operators act on a page rendered earlier, dispatches fail after
  the item was popped or raise out of the request, the process may die. Correct: each
  notice is decided once, none disappears behind an answer, order and identity are those
  the operator saw.
- **Audit log.** Short writes, inside characters too, crashes, concurrent appends.
  Correct: what `record` returned for is read back, in order, or the reader raises.
- **Decision loop.** The log is read once per batch, model calls are slow, answers
  are arbitrary, messages wait for a person. Correct: asks lie in the authorised
  band of what is owed; cooldown, ceiling, disputes and promises hold at the moment
  of the decision; nothing rewritten by the envelope goes out unread.
- **Unattended run.** A decision is logged before it is carried out; switch, opt-out,
  missing addresses, send mode and failing calls all come after. Environment and
  contacts file change between the queueing of a message and its approval. Correct:
  mail leaves an armed deployment only, to the allowed address only; nobody is asked
  twice in a cooldown; the switch stops what is not already under way; totals add up.
- **Statutory clock.** The date an objection came decides whether the clock stands
  still, and every later settlement rewrites the same status. Correct: a late
  objection stops nothing, a timely one does, and a letter demands what the ledger bills.
- **Results page.** Threads share a cache without a lock, and run an experiment that
  redirects the log and the model for itself while the application goes on. Correct:
  a report depends on its key alone, the production log sees nothing of it, the cache
  stays bounded, and no verdict is shown that the run did not earn.

## 2. Modules

| module | what it is | code |
|---|---|---|
| `CaptureBook` | abstract: captures are credited at most once, after they happened, and never lost | `suppress_on_settlement` |
| `Settlement` | one invoice, its copies in every process and in the row, webhook deliveries and routes as step-by-step requests, faults | `server.py` 306–442, 510–640, `store.py` |
| `PromiseFold` | the promise fold of the log, shared | `contact_history.build` |
| `PromiseDoor` | record_promise against that fold, one debtor, several invoices | `server.py` 667–740 |
| `ReviewQueue` | queue, kill switch, pipeline producer, operators, both storage modes | `operator.py`, `store.py` 229–295 |
| `NoticeBook` | abstract: a notice waits for a person, is decided once and for good, and is lost at most where loss is allowed | `operator.py`, `pipeline.py` |
| `AuditLog` | rows of the file, writers inside `record` | `audit.py` |
| `Envelope` | pure operators: the eleven rules, projection of settlements, clamp and corrections | `envelope.py`, `strategist.py` |
| `Strategist` | batches for one debtor with log, payments, promises, disputes, queue and mail | `strategist.py`, `pipeline.py` |
| `Outbound` | a run over a book of debtors, dispatch and approval, send mode, failures and restarts | `pipeline.py`, `channels.py`, `contacts.py`, `operator.py` |
| `Statute` | pure operators: windows, due dates, interest, eligibility, the effect of an objection | `statute.py`, `disputes.py` |
| `StatutoryClock` | one account under the statute, day by day: objections, captures, letters | `server.py` raise_dispute, `messages.py` |
| `ModelChain` | the calls of `complete()`: chain, errors, events, override | `llm.py` |
| `Benchmark` | pure operators: ladder, scripted solver, metrics, verdicts | `baseline.py`, `run_experiment.py` |
| `ResultsPage` | request threads, cache, scratch logs, the batch of a run | `server.py`, `run_experiment.py`, `audit.py` |
| `MC…` | instances for TLC: accounts, answers, homes of requests, symmetries | – |
| `…Proofs` | theorems and lemmas of the module they extend; `ClockProofs` those of `StatutoryClock` and `Statute` | – |
| `SumProofs` | lemmas on sums over finite sets and least numbers, cited by the others | – |

`Strategist` composes `PromiseFold` and `Envelope`; `Settlement` refines
`CaptureBook` and `ReviewQueue` refines `NoticeBook`; `PromiseDoor` composes with `PromiseFold`; `StatutoryClock` composes
`Statute` with `Envelope`; `ResultsPage` composes `Benchmark`, `ModelChain` and, for
what a decision may be, `Envelope`.

How state and actions correspond:

- *Settlement*: a request is a program counter over the code's own steps. `LoadRow`
  and `FoldRow` are `_hydrate_invoices` (the rows are read, then folded over the
  dict), `BuildState` and `SaveRow` are `_persist_invoice`, `ClaimLookup` and
  `ClaimInsert` the two halves of the conditional insert under READ COMMITTED. The
  webhook and the sync routes interleave at those points because the store calls
  release the interpreter lock; in file mode the steps between them are pure Python
  and one step is one statement that another thread can come before. `received` is
  kept per order, so that a double credit is visible. A page view (`page`) is a
  hydrate and nothing else. `StoreFails` ends a request in any call to the database or
  in any `audit.record`, which in file mode is the only call that can fail; `Crash` ends
  a process where `MayCrash` lets it.
- *PromiseDoor*: dates are days since the start; `Accept` counts the window where
  the code does, before `Write` and `Log`. The amount of a promise is left out.
- *ReviewQueue*: `rank` is the `id` of a row or the place in the list; `View` is the
  rendered console. A failed dispatch may or may not have reached the debtor
  (`unclear` counts those that did) and goes back to the queue. A dispatch that raises
  (`ApproveRaises`: the outbox file or an audit row, channels.py:84, :134, :150, :233)
  leaves `approve_review_item` after the pop and nothing puts the notice back: it is
  `broken`, in `NoticeBook` too.
- *AuditLog*: of the bytes of a line four points are kept: its start, a cut between two
  characters, a cut inside one, and the whole JSON text without its newline. `read_all`
  decodes the whole file as strict UTF-8 before it looks at a row (audit.py:220), so
  half a character anywhere, the last row included, makes it raise, and a corrupt row
  only where it is not the last.
- *Envelope*: an account is a record of the facts the rules read; money is in small
  integers with the code's own integer division. WhatsApp and email are one
  channel, as both need an address. `decide_for_debtor` is the composition of its
  branches (`Intercept`, `BoundAsk`, `DropDelivery`, `DropPastDeadline`, `ClassReview`),
  each with its own assignment of `review`, as in the code; that a changed decision is
  always marked is left for `UnattendedIsOwn` to show.
- *Strategist*: the log is kept as what its folds read off it. `made` is a decision
  before the pipeline handles it, `mail` the last message that left. An order was capped
  at the balance of its own day, so a capture may overpay (`Pay`) and an invoice's balance
  go below zero, where it offsets another's.
- *Outbound*: the batch is one step, for it reads only the log of decisions and
  nothing else here writes that; `contacted` is what the log says of the cooldown.
  Then one action per decision, in the order of the code's tests, and three steps
  per dispatch: taken up (`job`), answered by Resend (`wire`), recorded. `Restart`
  brings any other environment; the queue and the switch survive it in the database.
- *StatutoryClock*: `suspended` is `statutory_clock_suspended`, which every
  objection computes afresh; `letter` keeps the ask, interest and citation of the last draft.
  A letter is decided on and drafted from the rows of the ledger (`ledger`), whatever was
  paid or objected to since: the pipeline runs its batch with `live_state=False` and drafts
  from raw rows (pipeline.py:56, :60, :128), the preview of the results page does so on
  generated ones, and no path under `src/` drafts on live balances. `accepted` is the
  ledger's `acceptance_date`, which a timely objection moved (ledger.py:385), where the
  letter computes the due date anew from the delivery (messages.py:50).
  `Statute` counts interest by months as the code does, `InterestByDay` is the
  reference it is checked against.
- *ModelChain*, *ResultsPage*: `scopes` and `scripted` are a thread's two context
  variables; a live request
  leaves an override it finds as it is, and `Restored` is what remains where one is reset. Copying the cached report, storing, testing the length and evicting are
  steps of their own, since another thread can come between any two of them.

## 3. Runs

| run | question | bounds |
|---|---|---|
| `settle_file` | are captures credited once and never lost, and in the end always credited, in one process without a database, whatever audit row fails? | 2 deliveries, 1 route, an order of 1 and one of 1 or 2 over a face value of 2, 1 failing audit row: partial, full, redundant and overpaying captures all occur |
| `settle_durable` | does the claim and the lock hold up under a crash or a failing store call? | 2 deliveries, 1 route, 1 order, 1 fault; redelivery makes the order arrive again |
| `settle_shared` | with deliveries in one process and routes in another, can a stale row show PAID on uncovered amounts? | 1 delivery at a time, 1 route, 2 orders of 1 over a face value of 2, 1 fault: rows overwrite each other and captures go unmatched. That none is counted twice here either is `CountedOnceHolds` |
| `promise_hold` | how long can a debtor hold recovery off, and who ends a promise? | 2 invoices, 6 days, horizon 1, 2 windows, 1 restart: all windows can be spent and renewed |
| `review_memory` | does a failing dispatch keep a notice, its place and its identity, and an exception take no other one? | 3 notices of 2 debtors, 1 operator, 2 failures, 1 request that raises |
| `review_durable` | can two operators decide one notice twice, or undo a decision (`NoticeBook`)? | 3 notices, 2 operators, 1 failure, 1 request that raises, 1 crash |
| `audit_log` | does the log read back what was recorded? | 2 writers, 4 events, 3 short writes, between or inside characters, 1 fault |
| `agent_live` | are asks right on live balances, whatever the model answers? | 7 kinds of account, 40 answers, 2 days, payments of 15 on balances of 20 and 15: part, full and over |
| `agent_seeded` | do cooldown, ceiling and dispute rule hold although time and money move between fold and decision? | 7 accounts, 8 answers, 3 days |
| `results` | does a report depend on its key alone, leave no trace, earn its verdicts, and does every request get an answer? | 2 threads, 3 books, a cache of 1, every kind of model error, failing scratch logs: evictions and misses alternate |
| `statute` | is what a letter demands billed, and is a clock stopped by timely objections only? | 2 invoices, 3 ledgers, one with a resolved timely objection, 4 suppliers, days 102, 103, 125, 132 and 162 (both sides of the objection window, the period and a month's rest), payments of 20 |
| `outbound` | who is written to, where, and how often, over runs that fail, restart and repeat? | 2 debtors, 3 ledgers, 3 environments, 2 runs, 1 failing call, 1 restart or edit |

The properties are stated with comments at the end of each module. Bounds were
raised until further growth only repeated the same interleavings within minutes;
the proofs below remove them for the properties they cover.

**Assumptions that matter.** `agent_live` sets `Quiet`: nothing is logged between
a batch's fold and its decision. `promise_missed.cfg` drops it and `PromiseHalts`
fails, so the property is one of the fold and the envelope, not of the timing.
`agent_seeded` does not set it. `Overnight` says whether midnight may pass inside
one request; the days counted by `HoldIsBounded` allow it. `agent_*` have one
batch at a time; see `two_batches.cfg`. `outbound` has one run at a time and
stays within one cooldown, so that a second copy is always wrong; two debtors are
enough for a run to be cut short between two, and for one's address to be looked up
for the other. The type invariants of `Settlement`, `Strategist` and `ResultsPage`
are run; those of the other modules document the types.

**Fairness**, in `settle_file`: weak fairness of each webhook's steps: a started
handler runs to its end. Strong fairness of `Acquire`: a `threading.Lock` does not
turn one waiter away for ever. Strong fairness of redelivery while a capture is
unacknowledged: Razorpay retries until it sees a 200. Nothing is assumed of the
debtor, who need not pay, nor of the other routes. In `results`: weak fairness of
each thread's request, which the server's threadpool runs to its end; nothing makes a
client ask. `Answered` has one exception, the code's: the loop that trims the cache
(server.py:1141) can be kept busy by other threads that never stop storing.

## 4. Known disagreements

Each of these definitions states a line of the repository, and TLC refutes it with
the configuration named (`tlc -config X.cfg M`, with `-continue` where one
configuration serves several). They are kept apart from the runs of `PROJECT.json`,
which hold:

| cfg, module | definition | what happens |
|---|---|---|
| `claim_race`, MCSettlement | `CountedOnce` | a claim that another process took after the lookup is not noticed, and the payment is credited twice (README.md:34) |
| `lost_credit`, MCSettlement | `AckedIsSettled` | a page view's older row is folded over a credit, then saved (ARCHITECTURE.md:188) |
| `order_lost`, MCSettlement | `EveryOrderMatched` | an instance's upsert drops an order id another appended (server.py:554) |
| `lost_credit`, MCSettlement | `IgnoredMeansApplied` | a crash between claim and persist makes the redelivery a duplicate of nothing (server.py:397) |
| `late_captures`, MCSettlement | `PaidIsFinal` | a promise or dispute that passed its guard earlier overwrites PAID (ARCHITECTURE.md:108) |
| `late_captures`, MCSettlement | `NeverOverpaid` | two open orders for the balance are both paid (server.py:520) |
| `late_captures`, MCSettlement | `DisputeHoldsDoor` | a partial capture resets DISPUTED (server.py:278) |
| `promise_budget`, MCPromiseDoor | `SettlementRenewsBudget` | the door's window count survives the settlement that resets the fold's (contact_history.py:41) |
| `promise_ignored`, MCPromiseDoor | `AcceptedIsHonoured` | the door accepts a promise by one invoice's memory that the fold, reading the log of all, ignores (server.py:682) |
| `requeue`, MCReviewQueue | `NoticeKept` | two requeues compute one id; the second notice is lost (operator.py:175) |
| `requeue`, MCReviewQueue | `QueueIsFifo` | two failed notices go back reversed (store.py:286) |
| `after_pop`, MCReviewQueue | `NoticeKept` | the pop is committed before the dispatch (README.md:32) |
| `requeue`, MCReviewQueue | `ApprovedWasShown` | a second click takes a notice nobody was shown (server.py:218) |
| `after_pop`, MCReviewQueue | `NothingSentWhileHalted` | the switch is read once, before the pop (operator.py:29) |
| `torn_rows`, AuditLog | `NeverRefuses` | an append joins a torn row, and the log is refused from then on (audit.py:197) |
| `torn_rows`, AuditLog | `ToleratesLastRow` | a last row cut inside a character makes the strict decode of the whole file raise (audit.py:196, :220) |
| `torn_rows`, AuditLog | `NoSilentLoss` | an event on a torn last row is dropped with a warning (audit.py:202) |
| `two_batches`, MCStrategist | `CooldownKept` | two batches fold before either decides (ARCHITECTURE.md:136) |
| `partial_undisputes`, MCStrategist | `DisputedNotAsked` | on live balances PARTIALLY_PAID replaces DISPUTED (ARCHITECTURE.md:131) |
| `after_decision`, MCStrategist | `DisputeHalts` | no fold reads `dispute.raised` (ARCHITECTURE.md:102) |
| `after_decision`, MCStrategist | `PaidNotChased` | a settlement touches no queue, so a demand approved later reaches a debtor who paid (ARCHITECTURE.md:193) |
| `after_decision`, MCStrategist | `MessagesApart` | the cooldown runs from the decision, not from the approved message (ARCHITECTURE.md:136) |
| `promise_missed`, MCStrategist | `PromiseHalts` | a promise made after the fold is not seen by the batch (ARCHITECTURE.md:98) |
| `cut_short`, MCOutbound | `ApprovedNeverLost` | an approved dispatch that raises loses its notice, for only a failed result is put back (operator.py:176) |
| `cut_short`, MCOutbound | `CooledWasReached` | the decision is logged before the switch is read or anything is sent, so a blocked, dry or broken run starts the cooldown of debtors nobody wrote to (contact_history.py:205) |
| `page_errors`, MCResultsPage | `NoServerError` | a thread evicts the key another has just found in the cache (server.py:1059) |
| `page_errors`, MCResultsPage | `ComplexIsComplex` | the case of the complex account is shown for a reliable one (run_experiment.py:603) |
| `demands`, MCStatutoryClock | `DemandIsOwed` | the pipeline decides and drafts on the ledger's rows, so after a capture a letter demands what is paid (pipeline.py:56, :128; strategist.py:443) |
| `demands`, MCStatutoryClock | `ClockStaysStopped` | a second objection, raised late, takes the suspension of the first away (server.py:779) |
| `demands`, MCStatutoryClock | `PricesRunningClocks` | a letter prices interest on invoices whose clock has not started (disputes.py:260) |
| `demands`, MCStatutoryClock | `BeyondThePeriod` | a notice cites the statute by days overdue, before the statutory due date (statute.py, messages.py:241) |

`NoticeKept` holds in `review_memory` and `ApprovedNeverLost` fails in `cut_short`: the
first excepts a notice whose own approval was cut short by an exception (`broken`), the
second states that nothing excuses it. So `NoticeKept` says that no other notice is lost
by that exception, and none by a dispatch that fails with an answer.

Not a disagreement, yet visible in the models: a dry run logs decisions, and with them
cooldowns, like a real one; and in `Strategist` an overpaid invoice lowers what is
asked for the debtor's others.

## 5. Proofs

| theorem | says | assumptions and argument |
|---|---|---|
| `SettlementProofs!TypeCorrect` | types, for any processes and faults | `TypeInv`: `TypeOK` and that a delivery under way knows its order |
| `SettlementProofs!LockHeldInsideHolds` | `LockHeldInside` | none. Inductive once the types are known: every way out of the critical section, a failing call and a crash included, gives the lock back |
| `SettlementProofs!CountedOnceHolds` | no copy counts a capture twice | one process takes the deliveries, the routes may be anywhere. `CountedOnce` is not inductive: a delivery about to credit must be the only one. `LockInv` gives exclusion in the critical section, `CountInv` says every copy counts only claimed orders and none a delivery is about to credit |
| `SettlementProofs!LoggedOnceHolds` | `LoggedOnce` | one process takes the deliveries; a database, or no crash. `OnceInv`: what is logged was claimed before, and the delivery about to log is the one that claimed it |
| `SettlementProofs!PaidIsCoveredHolds` | `PaidIsCovered` | no database, or each delivery has its process to itself (`Alone`): otherwise an older row may be folded over the dict between a credit and the status that follows. `CoverInv` says of every copy, row and half-built state that PAID is covered |
| `SettlementProofs!AckedIsSettledHolds` | `AckedIsSettled` | no database, no crash; any audit row may fail. `BookInv`: a claimed order is on the books, or the delivery that claimed it is still to credit it; `AckInv` carries that to the answer |
| `SettlementProofs!FileModeImplementsCaptureBook` | refinement of `CaptureBook` | no database, no crash; any audit row may fail. Adds that a credit comes only from a captured order |
| `PromiseProofs!HoldBounded` | `HoldIsBounded` for every horizon and budget | `HoldInv`: days held plus days left of the running promise never exceed the windows opened times the window length |
| `PromiseProofs!OwnInvoiceCloses` | `OnlyOwnInvoiceCloses` | `NamedInv`: a running promise names its invoice |
| `ReviewProofs!EachDecidedOnce` | `DecidedOnce`, both modes, any crashes | `PlaceInv`: a notice is in one place only: unseen, in turn, queued, in one hand, or decided |
| `ReviewProofs!NoticesKept` | `NoticeKept`: no answer an operator is given stands for a lost notice | no crash, any exceptions; in memory any operators, in the database one. `KeptInv`, beside `FrontInv`: the id of a requeue is free |
| `ReviewProofs!QueueIsFifoHolds`, `ReviewProofs!ApprovedWasShownHolds` | the order and identity an operator saw, both modes, any crashes | one operator (`requeue` shows why). `OrderInv`: the notice in hand comes before all that are queued of its debtor, these before those to come, and the page shows the head unless its operator has it. In the database, also that the `MIN(id)` a requeue has read is still the least when it inserts |
| `ReviewProofs!QueueImplementsNoticeBook` | refinement of `NoticeBook`, both modes, any operators, failures, exceptions and crashes | none. `PlaceInv`; `BornInv` tells what was once queued from what never was, and with one operator `FrontInv` has every requeue find its id free; one lemma per kind of step names the abstract one |
| `StrategistProofs!ReadBackHolds` | `AuditLog`'s `ReadBackInOrder`, any writers and faults | none. `LogInv` says of every row what it can hold, and of a cut who made it. That the reading loop keeps what an append adds at the end is an induction over the rows, made one over the naturals below the length |
| `StrategistProofs!NothingTorn` | `NoSilentLoss`; `read_all` raises only while the writer stands inside a character, and without short writes never | no short write, or one writer and no fault (`torn_rows` shows why). `OwnRowInv`: nothing was appended to a torn row: while one is there, its writer is still in its own append |
| `StrategistProofs!TypeCorrect` | types; who reaches nobody has no channel | `TypeInv` adds that the queue holds messages |
| `StrategistProofs!DisputedNeverAsked` | `DisputedNotAsked`, any number of batches | decisions from the seeded ledger. `SeedInv`: what a batch folded is the ledger |
| `StrategistProofs!CooldownHolds`, `StrategistProofs!CeilingHolds` | `CooldownKept`, `EscalationCeiling` | one batch. `HistoryInv`: the folded days and counts are at most the true ones and no contact was logged since |
| `StrategistProofs!UnattendedIsOwnHolds` | `UnattendedIsOwn`, any number of batches | none. `OwnInv`: what is made and not marked for review was not rewritten; a lemma for each correction: it leaves what it is given unchanged, or sets `review`, and never takes `review` away |
| `StrategistProofs!PromiseHaltsHolds` | `PromiseHalts`, any number of batches | `Quiet`. `CurrentInv`: what a batch folded is what the log says now |
| `StrategistProofs!AskIsOwedHolds` | `AskIsOwed` | live balances, `Quiet`, concessions below 100%. `CurrentInv`, and that the sums over open invoices are numbers |
| `OutboundProofs!NobodyGuessed` | `NeverGuessed`, any book and directories | `AddressInv`: what waits, is being dispatched or left was addressed from its debtor's own entries; a failed dispatch puts its notice back, so the jobs must be in it |
| `OutboundProofs!AllowedOnly` | `OnlyTheAllowed` | only `PostTaken` sends, and judges by the environment of that moment |
| `OutboundProofs!HaltPrompt` | `HaltIsPrompt` | `HaltInv`: late messages plus those ready are at most those under way when the switch was engaged |
| `OutboundProofs!OneAskEach` | `AskedOnce`, any number of debtors, runs, failures and restarts | `OnceInv`: the ask of a debtor is in one place only (plan, dispatch or queue), its debtor is in the log, and until it goes out every copy that did was given up for lost |
| `OutboundProofs!AllAccountedFor` | `TotalsMatch` | none. `TotalInv`: halfway through a run the tallies stand to the debtors come past as at the end to all of them, the one in dispatch not yet counted |
| `ClockProofs!SuspensionIsEarnedHolds` | `SuspensionIsEarned` | `ClockInv`: the suspended flag is what the invoice's last objection made it |
| `ClockProofs!StagesAgreeHolds`, `ClockProofs!DemandIsBilledHolds` | `StagesAgree`, `DemandIsBilled` | beside `ClockInv`, step by step: an escalation stands only for an account without a disputed invoice, and there the date a letter computes is the recorded one. `InterestIsDaily` |
| `ClockProofs!InterestIsDaily` | interest by months and a rest is interest by days | the delays at which the two agree contain 0 and, with each, the day after (`Same`) |
| `ResultsPageProofs!TypeOKHolds` | `TypeOK`: every scope closed, every override reset | `PageInv`, and `Known`: the application writes to known contacts only |
| `ResultsPageProofs!ProductionUntouchedHolds`, `ResultsPageProofs!LiveNeverScriptedHolds` | a run leaves no trace; nobody else gets the scripted solver | `ThreadInv`: a scratch scope and an override are open only between the steps that set and reset them |
| `ResultsPageProofs!ServedIsPureHolds` | `ServedIsPure` | `PageInv`: every report in the cache, in hand or answered offline is the one its key determines, for what a debtor is decided offline does not depend on the debtors before |
| `ResultsPageProofs!CacheBoundedHolds` | `CacheBounded` | `Fits`: what is over the bound is at most one for each thread between store and trim; the store of a key that is there already adds none |
| `ResultsPageProofs!VerdictEarnedHolds`, `ResultsPageProofs!AsksWithinBookHolds` | `VerdictEarned`, `AsksWithinBook` | concessions below 100% for the first. Sums over the book, compared debtor by debtor |
| `ResultsPageProofs!ChainHonestHolds` | `ChainHonest`, any chain and errors | `CallInv`: the models that failed are exactly those before the one being tried |

Every theorem uses only the named assumptions on constants, which TLC evaluates
in the runs, and those in its own statement. Each of the latter is what the run that
checks the property sets; section 4 shows what happens without several of them.
The step lemmas have one step per action.

TLC has checked the inductive invariants above on the instances of the runs as well
(of `PageInv` all but the part that quantifies over any batch a report may come from).
What a sum or a recursive function does for every input is an
induction; the proofs make it one over a set of numbers or of subsets, by taking a least
counterexample (`SumProofs`), so that no library theorem with an operator parameter is needed.

Model-checked only: the liveness properties `EveryCaptureSettles` and `Answered`,
which are outside the prover's reach. The assumptions of the theorems leave out
what their runs leave out: a second process that takes deliveries for `CountedOnce`,
a second operator for `QueueIsFifo`, and so on.

## 6. Not modelled

`verify_payment` writes no invoice state and is left out, as are deliveries with
a bad signature. The rest, each with its reason, is in `PROJECT.json` under
`components`: the mandate plan (a table nothing runs), the ledger generator, the
gateway client, configuration, hygiene and templates. Of modelled files these parts
are left out: wording, language and screening of messages; the regular expressions
that classify an objection; the layout of reports; the names of outbox files; and the
`merchant_unresolved` branch of the pipeline, which no run reaches because the batch
has raised on that merchant before (strategist.py:610).

Deliberate limits: one invoice in `Settlement`, one debtor in `PromiseDoor` and
`Strategist`, no amount of a promise, no events with unreadable dates, one operator
and one run at a time in `Outbound`, one account in `StatutoryClock`.

## 7. Plan

Done, in this order: settlement, promises, review queue, audit log, decision loop,
results page with its model chain and benchmark, statutory clock, unattended run. Next:

1. Proofs: types of `PromiseDoor`, `ReviewQueue` and `Outbound`, which no run checks.
2. `Settlement` with several invoices; two promises at once and their amounts in
   `PromiseDoor`.
3. Audit log in durable mode, and a server that dies between a persist and its event.
