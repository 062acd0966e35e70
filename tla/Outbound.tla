------------------------------- MODULE Outbound -------------------------------
(***************************************************************************)
(* From a decision to a message: execute_recovery_pipeline                 *)
(* (app/pipeline.py), the contact directory and the send mode              *)
(* (app/contacts.py), the channels (app/channels.py) and the approval of   *)
(* what was queued (app/operator.py), over a book of several debtors.      *)
(*                                                                         *)
(* A run decides the whole book first, logging each decision, and then     *)
(* takes the decisions in order: suppressed, blocked, queued, dispatched,  *)
(* or nothing to do.  An operator flips the switch and approves meanwhile, *)
(* the contacts file is edited, or a restart may bring another             *)
(* environment.  All of it happens within one cooldown, with the database  *)
(* (the queue and the switch survive), and one run at a time.              *)
(*                                                                         *)
(* Grain: the batch is one step, for all it reads is the log of decisions, *)
(* which nothing else here writes; then one action per decision, and a     *)
(* dispatch is three: taken up, answered by Resend, recorded.              *)
(*                                                                         *)
(* Left out: the drafted text (StatutoryClock prices it), several          *)
(* operators (ReviewQueue), and the merchant_unresolved branch, which no   *)
(* run reaches: the batch has raised on that merchant before.              *)
(***************************************************************************)
EXTENDS Integers, FiniteSetsExt, SequencesExt

CONSTANTS
    Size,        \* debtors with an open invoice, in the order of the ledger
    Ledgers,     \* ledgers: each debtor's row [opted, email, merchant]
    Books,       \* readable contents of a contact directory
    Envs,        \* environments: [live, key, allowed, contacts]
    Decisions,   \* what the strategist may decide: [kind, channel, review]
    None,        \* no address, no directory
    Invalid,     \* a directory that is not JSON
    MaxRuns,     \* bound on runs of the pipeline
    MaxFaults,   \* bound on calls that fail
    MaxChanges   \* bound on restarts and edits of the contacts file

Debtors == 1..Size

Channels == {"none", "email", "whatsapp", "portal"}

ASSUME OutboundAssumption ==
    /\ Size \in Nat \ {0}
    /\ \A ledger \in Ledgers : DOMAIN ledger = Debtors
    /\ \A book \in Books : DOMAIN book \subseteq Debtors
    /\ \A d \in Decisions :
        /\ d.kind \in {"ask", "other", "wait", "handoff"}
        /\ d.channel \in Channels
        /\ d.kind \in {"wait", "handoff"} => d.channel = "none"
        /\ d.kind = "handoff" => d.review

VARIABLES
    row,       \* each debtor's row in the ledger
    file,      \* data/contacts.json
    env,       \* the environment of the process
    kill,      \* the kill switch
    contacted, \* debtors with a decision.made on a channel
    phase,     \* of the run: idle, acting
    dry,       \* dry_run
    plan,      \* its decisions, in order
    at,        \* the decision it takes next
    tally,     \* its counters
    job,       \* what the run and the operator are dispatching
    queue,     \* the review queue
    wire,      \* history: mails Resend took
    did,       \* history: what the run queued, and dispatched to somebody
    copies,    \* history: how often an ask of each debtor went out
    unclear,   \* history: and how often the sender took it for failed
    late,      \* history: messages out under the switch, less those it caught
    runs, faults, changes

bookVars == <<row, file, env>>
runVars == <<phase, dry, plan, at, tally, did>>
mailVars == <<wire, copies, unclear>>
bounds == <<runs, faults, changes>>
vars == <<bookVars, kill, contacted, runVars, job, queue, mailVars, late, bounds>>

Senders == {"run", "operator"}

NoJob == [stage |-> "none"]

Zero == [dispatched |-> 0, queued |-> 0, suppressed |-> 0, blocked |-> 0]

Nothing == [queued |-> 0, dispatched |-> 0]

-----------------------------------------------------------------------------
(* _load: the environment wins, and one that is not JSON resolves nobody. *)
Directory(e, f) ==
    LET chosen == IF e.contacts # None THEN e.contacts ELSE f
    IN  IF chosen \in Books THEN chosen ELSE <<>>

(* for_debtor *)
Entry(book, d) == IF d \in DOMAIN book THEN book[d] ELSE [email |-> None, phone |-> None]

(* Deviation: a debtor nobody lists keeps the address of the one before. *)
EmailOfCarriedOver(d) ==
    LET own(x) == IF row[x].email # None THEN row[x].email
                  ELSE Entry(Directory(env, file), x).email
    IN  IF own(d) = None /\ d > 1 THEN own(d - 1) ELSE own(d)

(* The ledger's row first, then the directory; nothing is guessed. *)
EmailOf(d) ==
    IF row[d].email # None THEN row[d].email ELSE Entry(Directory(env, file), d).email

(* The same, of the rows that have no phone - no generated one has. *)
PhoneOf(d) == Entry(Directory(env, file), d).phone

(* send_mode() = LIVE *)
Armed(e) == e.live /\ e.key /\ e.allowed # None

(* resolve_delivery *)
DeliverTo(e, intended) ==
    IF e.allowed = None \/ intended = e.allowed THEN intended ELSE e.allowed

(* Every address that is, or once was, listed for the debtor. *)
Listed(d) == {row[d].email} \cup {Entry(book, d).email : book \in Books}

-----------------------------------------------------------------------------
Init ==
    /\ row \in Ledgers
    /\ file \in Books \cup {None}
    /\ env \in Envs
    /\ kill = FALSE
    /\ contacted = {}
    /\ phase = "idle" /\ dry = FALSE /\ plan = <<>> /\ at = 1
    /\ tally = Zero /\ did = Nothing
    /\ job = [s \in Senders |-> NoJob]
    /\ queue = <<>>
    /\ wire = {}
    /\ copies = [d \in Debtors |-> 0] /\ unclear = [d \in Debtors |-> 0]
    /\ late = 0
    /\ runs = 0 /\ faults = 0 /\ changes = 0

Fault == faults < MaxFaults /\ faults' = faults + 1

-----------------------------------------------------------------------------
Suppressed == [kind |-> "wait", channel |-> "none", review |-> FALSE]

(* What the envelope lets stand: no ask of a debtor in the cooldown. *)
MayDecide(d) ==
    IF row[d].opted THEN {Suppressed}
    ELSE {c \in Decisions : d \in contacted => c.kind # "ask"}

(* The batch decides on the first n debtors of the ledger. *)
Plans(n) == {p \in [1..n -> Decisions \cup {Suppressed}] : \A d \in 1..n : p[d] \in MayDecide(d)}

(* Deviation: a decision a person has to approve is no contact yet. *)
LogUnattended(p) ==
    contacted' = contacted \cup {d \in DOMAIN p : p[d].channel # "none" /\ ~p[d].review}

(* decision.made for each: a contact when it names a channel. *)
LogDecisions(p) ==
    contacted' = contacted \cup {d \in DOMAIN p : p[d].channel # "none"}

KnownMerchants(n) == \A d \in 1..n : row[d].merchant

(* run_deterministic_agent_batch: the whole book is decided and logged     *)
(* before a message is drafted.                                            *)
Start ==
    /\ phase = "idle"
    /\ runs < MaxRuns
    /\ runs' = runs + 1
    /\ KnownMerchants(Size)
    /\ plan' \in Plans(Size)
    /\ LogDecisions(plan')
    /\ phase' = "acting"
    /\ dry' \in BOOLEAN
    /\ UNCHANGED <<bookVars, kill, at, tally, did, job, queue, mailVars, late,
                   faults, changes>>

(* The batch raises after n decisions: the next row names a merchant       *)
(* nobody knows, or an append to the log is refused.                       *)
BatchRaises(n) ==
    /\ phase = "idle"
    /\ runs < MaxRuns
    /\ runs' = runs + 1
    /\ KnownMerchants(n)
    /\ IF row[n + 1].merchant THEN Fault ELSE UNCHANGED faults
    /\ \E p \in Plans(n) : LogDecisions(p)
    /\ UNCHANGED <<bookVars, kill, runVars, job, queue, mailVars, late, changes>>

(* The run is over, and what it knew is gone. *)
GiveUp ==
    /\ phase' = "idle" /\ dry' = FALSE
    /\ plan' = <<>> /\ at' = 1 /\ tally' = Zero /\ did' = Nothing

(* An append to the log is refused between two dispatches. *)
AppendRaises ==
    /\ phase = "acting"
    /\ job["run"] = NoJob
    /\ Fault
    /\ GiveUp
    /\ UNCHANGED <<bookVars, kill, contacted, job, queue, mailVars, late,
                   runs, changes>>

-----------------------------------------------------------------------------
Acting == phase = "acting" /\ at <= Size /\ job["run"] = NoJob

Tally(counter) == tally' = [tally EXCEPT ![counter] = tally[counter] + 1]

Advance == at' = at + 1 /\ UNCHANGED <<phase, dry, plan>>

SuppressOptedOut ==
    /\ Acting
    /\ row[at].opted
    /\ Tally("suppressed") /\ Advance
    /\ UNCHANGED <<bookVars, kill, contacted, did, job, queue, mailVars, late, bounds>>

(* Deviation: the switch is read when the run starts acting. *)
HaltedAtTheStart == kill /\ at = 1

Halted == kill

BlockByKillSwitch ==
    /\ Acting
    /\ ~row[at].opted
    /\ Halted
    /\ Tally("blocked") /\ Advance
    /\ UNCHANGED <<bookVars, kill, contacted, did, job, queue, mailVars, late, bounds>>

(* draft_message_for_decision: what a channel gets of it. *)
Draft ==
    [debtor |-> at, kind |-> plan[at].kind, channel |-> plan[at].channel,
     email |-> EmailOf(at), phone |-> PhoneOf(at)]

(* Deviation: only a missing mail address is noticed. *)
MissingEmailOnly(n) == n.channel = "email" /\ n.email = None

(* missing_contact in the pipeline *)
MissingContact(n) ==
    \/ n.channel = "email" /\ n.email = None
    \/ n.channel = "whatsapp" /\ n.phone = None

Allowed == Acting /\ ~row[at].opted /\ ~Halted

QueueForReview ==
    /\ Allowed
    /\ plan[at].review \/ MissingContact(Draft)
    /\ queue' = Append(queue, Draft)
    /\ did' = [did EXCEPT !.queued = did.queued + 1]
    /\ Tally("queued") /\ Advance
    /\ UNCHANGED <<bookVars, kill, contacted, job, mailVars, late, bounds>>

(* No channel and nothing to review: counted in the total alone. *)
LeaveAlone ==
    /\ Allowed
    /\ ~plan[at].review
    /\ plan[at].channel = "none"
    /\ Advance
    /\ UNCHANGED <<bookVars, kill, contacted, tally, did, job, queue, mailVars, late, bounds>>

DispatchUnattended ==
    /\ Allowed
    /\ ~plan[at].review
    /\ ~MissingContact(Draft)
    /\ plan[at].channel # "none"
    /\ job' = [job EXCEPT !["run"] = [stage |-> "ready", notice |-> Draft, dry |-> dry]]
    /\ UNCHANGED <<bookVars, kill, contacted, runVars, queue, mailVars, late, bounds>>

(* pipeline.completed, with the counters TotalsMatch is about *)
Complete ==
    /\ phase = "acting"
    /\ at > Size
    /\ GiveUp
    /\ UNCHANGED <<bookVars, kill, contacted, job, queue, mailVars, late, bounds>>

-----------------------------------------------------------------------------
InFlight == Cardinality({s \in Senders : job[s] # NoJob})

(* Engaged, it catches what is already on its way. *)
SetKillSwitch ==
    /\ kill' = ~kill
    /\ late' = IF kill THEN 0 ELSE -InFlight
    /\ UNCHANGED <<bookVars, contacted, runVars, job, queue, mailVars, bounds>>

(* approve_review_item up to the pop: the switch, then the debtor's oldest. *)
Approve(i) ==
    /\ job["operator"] = NoJob
    /\ ~kill
    /\ \A j \in 1..(i - 1) : queue[j].debtor # queue[i].debtor
    /\ job' = [job EXCEPT !["operator"] =
                [stage |-> "ready", notice |-> queue[i], dry |-> FALSE]]
    /\ queue' = RemoveAt(queue, i)
    /\ UNCHANGED <<bookVars, kill, contacted, runVars, mailVars, late, bounds>>

-----------------------------------------------------------------------------
Notice(s) == job[s].notice

(* dispatch_message looks for the target once more. *)
NoTarget(n) ==
    \/ n.channel = "email" /\ n.email = None
    \/ n.channel = "whatsapp" /\ n.phone = None

Mail(n) ==
    [debtor |-> n.debtor, to |-> DeliverTo(env, n.email),
     intended |-> n.email]

(* Deviation: a dry run is not told from the others. *)
LiveWhateverTheRun(s) == Notice(s).channel = "email" /\ Notice(s).email # None /\ Armed(env)

(* The job will go to Resend rather than to the outbox. *)
IsLive(s) ==
    /\ Notice(s).channel = "email"
    /\ Notice(s).email # None
    /\ Armed(env)
    /\ ~job[s].dry

Out(n) == copies' = IF n.kind = "ask"
                    THEN [copies EXCEPT ![n.debtor] = copies[n.debtor] + 1] ELSE copies

(* One more message is out while the switch is engaged. *)
CountLate == late' = IF kill THEN late + 1 ELSE late

(* How dispatch_message returns: the run counts it, whatever came of it, *)
(* and an approval that failed is put back at the head.                  *)
Return(s, success) ==
    /\ job' = [job EXCEPT ![s] = NoJob]
    /\ IF s = "run"
       THEN /\ Tally("dispatched") /\ Advance
            /\ did' = IF NoTarget(Notice(s)) THEN did
                      ELSE [did EXCEPT !.dispatched = did.dispatched + 1]
            /\ UNCHANGED queue
       ELSE /\ queue' = IF success THEN queue ELSE <<Notice(s)>> \o queue
            /\ UNCHANGED runVars

(* No address: channel.missing_recipient. *)
MissingRecipient(s) ==
    /\ job[s].stage = "ready"
    /\ NoTarget(Notice(s))
    /\ Return(s, FALSE)
    /\ UNCHANGED <<bookVars, kill, contacted, mailVars, late, bounds>>

(* The outbox, the portal, WhatsApp's sandbox, or nobody: it succeeds. *)
Simulate(s) ==
    /\ job[s].stage = "ready"
    /\ ~NoTarget(Notice(s))
    /\ ~IsLive(s)
    /\ IF Notice(s).channel = "none" THEN UNCHANGED <<copies, late>>
       ELSE Out(Notice(s)) /\ CountLate
    /\ Return(s, TRUE)
    /\ UNCHANGED <<bookVars, kill, contacted, wire, unclear, bounds>>

(* Resend takes the mail. *)
PostTaken(s) ==
    /\ job[s].stage = "ready"
    /\ IsLive(s)
    /\ wire' = wire \cup {Mail(Notice(s))}
    /\ Out(Notice(s)) /\ CountLate
    /\ job' = [job EXCEPT ![s].stage = "taken"]
    /\ UNCHANGED <<bookVars, kill, contacted, runVars, queue, unclear, bounds>>

(* channel.email_sent *)
RecordSent(s) ==
    /\ job[s].stage = "taken"
    /\ Return(s, TRUE)
    /\ UNCHANGED <<bookVars, kill, contacted, mailVars, late, bounds>>

(* Its answer is lost, or the row is refused: channel.email_failed. *)
AnswerLost(s) ==
    /\ job[s].stage = "taken"
    /\ Fault
    /\ unclear' = [unclear EXCEPT ![Notice(s).debtor] = unclear[Notice(s).debtor] + 1]
    /\ Return(s, FALSE)
    /\ UNCHANGED <<bookVars, kill, contacted, wire, copies, late, runs, changes>>

(* Resend refuses, or is out of reach: channel.email_failed. *)
PostRefused(s) ==
    /\ job[s].stage = "ready"
    /\ IsLive(s)
    /\ Fault
    /\ Return(s, FALSE)
    /\ UNCHANGED <<bookVars, kill, contacted, mailVars, late,
                   runs, changes>>

(* The outbox file, or a row that no try is left to catch, is refused: the *)
(* call raises.  The run is over, and what the operator took off the queue *)
(* is gone.                                                                *)
DispatchRaises(s) ==
    /\ job[s] # NoJob
    /\ Fault
    /\ job' = [job EXCEPT ![s] = NoJob]
    /\ IF s = "run" THEN GiveUp ELSE UNCHANGED runVars
    /\ UNCHANGED <<bookVars, kill, contacted, queue, mailVars, late, runs, changes>>

-----------------------------------------------------------------------------
(* data/contacts.json is rewritten; every lookup reads it anew. *)
EditContacts ==
    /\ changes < MaxChanges
    /\ changes' = changes + 1
    /\ file' \in (Books \cup {None}) \ {file}
    /\ UNCHANGED <<row, env, kill, contacted, runVars, job, queue, mailVars, late,
                   runs, faults>>

(* The process dies and another starts, perhaps with another environment. *)
Restart ==
    /\ changes < MaxChanges
    /\ changes' = changes + 1
    /\ env' \in Envs
    /\ job' = [s \in Senders |-> NoJob]
    /\ GiveUp
    /\ UNCHANGED <<row, file, kill, contacted, queue, mailVars, late, runs, faults>>

Run ==
    \/ Start \/ (\E n \in 0..(Size - 1) : BatchRaises(n)) \/ AppendRaises
    \/ SuppressOptedOut \/ BlockByKillSwitch \/ QueueForReview \/ LeaveAlone
    \/ DispatchUnattended \/ Complete

Dispatch(s) ==
    \/ MissingRecipient(s) \/ Simulate(s)
    \/ PostTaken(s) \/ RecordSent(s) \/ AnswerLost(s) \/ PostRefused(s)
    \/ DispatchRaises(s)

Next ==
    \/ Run
    \/ SetKillSwitch
    \/ \E i \in DOMAIN queue : Approve(i)
    \/ \E s \in Senders : Dispatch(s)
    \/ EditContacts
    \/ Restart

Spec == Init /\ [][Next]_vars

-----------------------------------------------------------------------------
(* Every variable has a value the code can give it, and a message is on    *)
(* its way from the run only while the run acts.                           *)
TypeOK ==
    /\ contacted \subseteq Debtors
    /\ phase \in {"idle", "acting"}
    /\ Len(plan) = IF phase = "acting" THEN Size ELSE 0
    /\ at \in 1..(Size + 1)
    /\ \A s \in Senders : job[s].stage \in {"none", "ready", "taken"}
    /\ job["run"] # NoJob => phase = "acting" /\ at <= Size
    /\ \A s \in Senders : job[s].stage = "taken" => IsLive(s)

(* Mail leaves an armed deployment alone, never from a dry run, and only   *)
(* to the one address that deployment allows - whatever produced the       *)
(* address, the environment of the run that queued it included             *)
(* (contacts.py:12, channels.py:65).                                       *)
OnlyTheAllowed ==
    [][\A w \in wire' \ wire :
        /\ env.live /\ env.key
        /\ w.to = env.allowed
        /\ \E s \in Senders : job[s] # NoJob /\ ~job[s].dry /\ Notice(s).debtor = w.debtor]_vars

(* What waits or leaves is addressed to an address that was listed for     *)
(* that very debtor: a debtor nobody lists is never guessed at             *)
(* (contacts.py:6, pipeline.py:71).                                        *)
NeverGuessed ==
    /\ \A i \in DOMAIN queue : queue[i].email \in Listed(queue[i].debtor) \cup {None}
    /\ \A w \in wire : w.intended \in Listed(w.debtor) \ {None}

(* A run that completes accounts for every debtor it decided, and for what *)
(* it did: each counted dispatch had somebody to go to, each counted       *)
(* notice is one it queued, and what is in no counter was a decision to    *)
(* reach nobody (pipeline.py:168).                                         *)
TotalsMatch ==
    /\ tally.dispatched = did.dispatched
    /\ tally.queued = did.queued
    /\ phase = "acting" /\ at > Size =>
        LET silent == {d \in Debtors : plan[d].channel = "none" /\ ~plan[d].review}
            optedOut == {d \in Debtors : row[d].opted}
            counted == tally.dispatched + tally.queued + tally.suppressed + tally.blocked
        IN  /\ tally.suppressed = Cardinality(optedOut)
            /\ counted <= Len(plan)
            /\ Len(plan) - counted <= Cardinality(silent \ optedOut)

(* Engaging the switch stops everything but the messages already being     *)
(* dispatched, one of the run's and one of the operator's (operator.py:4). *)
HaltIsPrompt == late <= 0

(* Within one cooldown a debtor is asked once, over runs that were cut     *)
(* short, restarted or repeated, dispatches that failed and approvals of   *)
(* what an earlier run queued; a further copy is owed to an answer that    *)
(* was lost (contact_history.py:201).                                      *)
AskedOnce == \A d \in Debtors : copies[d] <= 1 + unclear[d]

(* Disagreement: a failed dispatch never deletes a notice an operator      *)
(* approved (operator.py:176) - but one that raises does.                  *)
ApprovedNeverLost ==
    [][\A s \in Senders : s = "operator" /\ job[s].stage = "ready" /\ job'[s] = NoJob
        /\ changes' = changes =>
            \/ Len(queue') > Len(queue)
            \/ copies' # copies
            \/ Notice(s).kind # "ask"]_vars

(* Disagreement, with Decisions = MCAsks: a row that was no outreach must  *)
(* not "silence a debtor the agent never wrote to" (contact_history.py:205)*)
(* - the decision is logged before the switch, the queue or a dispatch is  *)
(* reached, so a run that is blocked or cut short silences its book.       *)
CooledWasReached ==
    \A d \in Debtors : phase = "idle" /\ d \in contacted =>
        \/ copies[d] > 0
        \/ \E i \in DOMAIN queue : queue[i].debtor = d
        \/ job["operator"] # NoJob
=============================================================================
