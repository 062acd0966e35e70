---------------------------- MODULE OutboundProofs ----------------------------
(***************************************************************************)
(* Proofs about Outbound.tla: whom a message may reach, for any book of    *)
(* debtors, any directories and environments, and any number of runs,      *)
(* failures and restarts.                                                  *)
(***************************************************************************)
EXTENDS Outbound, FiniteSetTheorems, SequenceTheorems, TLAPS

Kinds == {"ask", "other", "wait", "handoff"}

Addresses == (UNION {Listed(d) : d \in Debtors}) \cup {None}

Phones == {Entry(book, d).phone : book \in Books, d \in Debtors} \cup {None}

(* Notices to an address that was listed for their debtor, or to nobody. *)
Addressed ==
    {n \in [debtor : Debtors, kind : Kinds, channel : Channels,
            email : Addresses, phone : Phones] :
        n.email \in Listed(n.debtor) \cup {None}}

Jobs == {NoJob} \cup [stage : {"ready", "taken"}, notice : Addressed, dry : BOOLEAN]

(* What the batch decided keeps the decisions' form until the run is over. *)
PlanInv ==
    /\ at \in Nat \ {0}
    /\ dry \in BOOLEAN
    /\ phase = "acting" =>
        \A d \in Debtors : plan[d].kind \in Kinds /\ plan[d].channel \in Channels

(* NeverGuessed, with what is being dispatched: it may be put back.        *)
AddressInv ==
    /\ PlanInv
    /\ queue \in Seq(Addressed)
    /\ job \in [Senders -> Jobs]
    /\ \A w \in wire : w.intended \in Listed(w.debtor) \ {None}

-----------------------------------------------------------------------------
(* A directory, even an unreadable one, lists what is listed or nobody. *)
LEMMA Lookup ==
    ASSUME NEW d \in Debtors
    PROVE  /\ EmailOf(d) \in Listed(d) \cup {None}
           /\ PhoneOf(d) \in Phones
<1> DEFINE chosen == Directory(env, file)
<1>1. CASE chosen \in Books
  <2>1. Entry(chosen, d).email \in {Entry(book, d).email : book \in Books}
    BY <1>1
  <2>2. Entry(chosen, d).phone \in {Entry(book, e).phone : book \in Books, e \in Debtors}
    BY <1>1
  <2> QED
    BY <2>1, <2>2 DEF EmailOf, PhoneOf, Listed, Phones
<1>2. CASE chosen = <<>>
  <2>1. Entry(chosen, d) = [email |-> None, phone |-> None]
    BY <1>2 DEF Entry
  <2> QED
    BY <2>1 DEF EmailOf, PhoneOf, Listed, Phones
<1> QED
  BY <1>1, <1>2 DEF Directory

(* What a run drafts is addressed. *)
LEMMA DraftAddressed ==
    ASSUME PlanInv, Acting
    PROVE  Draft \in Addressed
<1>1. at \in Debtors
  BY OutboundAssumption DEF PlanInv, Acting, Debtors
<1>2. plan[at].kind \in Kinds /\ plan[at].channel \in Channels
  BY <1>1 DEF PlanInv, Acting
<1>3. EmailOf(at) \in Listed(at) \cup {None} /\ PhoneOf(at) \in Phones
  BY <1>1, Lookup
<1>4. EmailOf(at) \in Addresses
  BY <1>1, <1>3 DEF Addresses
<1> QED
  BY <1>1, <1>2, <1>3, <1>4 DEF Draft, Addressed

(* Taking one element out of a sequence leaves a sequence of the others. *)
LEMMA RemoveAtType ==
    ASSUME NEW S, NEW q \in Seq(S), NEW i \in DOMAIN q
    PROVE  RemoveAt(q, i) \in Seq(S)
<1>1. SubSeq(q, 1, i - 1) \in Seq(S) /\ SubSeq(q, i + 1, Len(q)) \in Seq(S)
  OBVIOUS
<1> QED
  BY <1>1 DEF RemoveAt

(* What a batch decides is a decision, or that the debtor is suppressed. *)
LEMMA PlansAreDecisions ==
    ASSUME NEW p \in Plans(Size), NEW d \in Debtors
    PROVE  p[d].kind \in Kinds /\ p[d].channel \in Channels
<1>1. p[d] \in Decisions \cup {Suppressed}
  BY DEF Plans, Debtors
<1> QED
  BY <1>1, OutboundAssumption DEF Suppressed, Kinds, Channels

LEMMA InitAddressed == Init => AddressInv
<1> SUFFICES ASSUME Init PROVE AddressInv
  OBVIOUS
<1>1. PlanInv
  <2>1. at \in Nat \ {0} /\ phase # "acting"
    BY SMT DEF Init
  <2> QED
    BY <2>1, Zenon DEF Init, PlanInv
<1>2. queue \in Seq(Addressed) /\ wire = {}
  BY DEF Init
<1>3. job \in [Senders -> Jobs]
  BY DEF Init, Jobs
<1> QED
  BY <1>1, <1>2, <1>3 DEF AddressInv

-----------------------------------------------------------------------------
(* The rows are those of the ledger for ever, and who is listed with them. *)
LEMMA ListedStays ==
    ASSUME UNCHANGED row
    PROVE  /\ \A d : Listed(d)' = Listed(d)
           /\ Addressed' = Addressed
           /\ Jobs' = Jobs
<1>1. \A d : Listed(d)' = Listed(d)
  BY DEF Listed
<1>2. Addresses' = Addresses
  BY <1>1 DEF Addresses
<1>3. Addressed' = Addressed
  BY <1>1, <1>2 DEF Addressed
<1> QED
  BY <1>1, <1>3 DEF Jobs

(* A run that is over leaves no plan. *)
LEMMA GiveUpPlan == GiveUp => PlanInv'
<1> SUFFICES ASSUME GiveUp PROVE PlanInv'
  OBVIOUS
<1>1. at' \in Nat \ {0} /\ phase' # "acting"
  BY SMT DEF GiveUp
<1> QED
  BY <1>1, Zenon DEF GiveUp, PlanInv

LEMMA AdvancePlan == PlanInv /\ Advance => PlanInv'
  BY DEF Advance, PlanInv

LEMMA PlanStays == PlanInv /\ UNCHANGED runVars => PlanInv'
  BY DEF runVars, PlanInv

(* A dispatch that returns gives up the job, or puts its notice back. *)
LEMMA ReturnAddressed ==
    ASSUME AddressInv, NEW s \in Senders, job[s] # NoJob, NEW success, Return(s, success)
    PROVE  /\ PlanInv'
           /\ queue' \in Seq(Addressed)
           /\ job' \in [Senders -> Jobs]
<1>1. job[s].notice \in Addressed
  BY DEF AddressInv, Jobs
<1>2. job' \in [Senders -> Jobs]
  BY DEF Return, AddressInv, Jobs
<1>3. CASE s = "run"
  BY <1>2, <1>3, AdvancePlan DEF Return, AddressInv
<1>4. CASE s # "run"
  <2>1. <<job[s].notice>> \in Seq(Addressed)
    BY <1>1
  <2>2. queue' = queue \/ queue' = <<job[s].notice>> \o queue
    BY <1>4, Zenon DEF Return, Notice
  <2>3. queue \in Seq(Addressed)
    BY DEF AddressInv
  <2>4. <<job[s].notice>> \o queue \in Seq(Addressed)
    BY <2>1, <2>3
  <2>5. queue' \in Seq(Addressed)
    BY <2>2, <2>3, <2>4
  <2> QED
    BY <1>2, <1>4, <2>5, PlanStays DEF Return, AddressInv
<1> QED
  BY <1>3, <1>4

LEMMA DispatchAddressed ==
    ASSUME AddressInv, NEW s \in Senders, Dispatch(s)
    PROVE  AddressInv'
<1> DEFINE Known(ws) == \A w \in ws : w.intended \in Listed(w.debtor) \ {None}
<1>1. UNCHANGED row
  BY DEF Dispatch, MissingRecipient, Simulate, PostTaken, RecordSent, AnswerLost,
         PostRefused, DispatchRaises, bookVars
<1>2. SUFFICES /\ PlanInv'
               /\ queue' \in Seq(Addressed)
               /\ job' \in [Senders -> Jobs]
               /\ Known(wire')
  BY <1>1, ListedStays DEF AddressInv
<1>3. job[s].stage \in {"ready", "taken"} => job[s] # NoJob
  BY DEF NoJob
<1>4. Known(wire)
  BY DEF AddressInv
<1>5. CASE MissingRecipient(s)
  BY <1>3, <1>4, <1>5, ReturnAddressed DEF MissingRecipient, mailVars
<1>6. CASE Simulate(s)
  BY <1>3, <1>4, <1>6, ReturnAddressed DEF Simulate
<1>7. CASE PostTaken(s)
  <2>1. job[s] \in [stage : {"ready", "taken"}, notice : Addressed, dry : BOOLEAN]
    BY <1>3, <1>7 DEF PostTaken, AddressInv, Jobs
  <2>2. job' \in [Senders -> Jobs]
    BY <1>7, <2>1 DEF PostTaken, AddressInv, Jobs
  <2>3. Notice(s).email \in Listed(Notice(s).debtor) \ {None}
    BY <1>7, <2>1 DEF PostTaken, IsLive, Notice, Addressed
  <2>4. Known(wire')
    BY <1>4, <1>7, <2>3 DEF PostTaken, Mail
  <2> QED
    BY <1>7, <2>2, <2>4, PlanStays DEF PostTaken, AddressInv
<1>8. CASE RecordSent(s)
  BY <1>3, <1>4, <1>8, ReturnAddressed DEF RecordSent, mailVars
<1>9. CASE AnswerLost(s)
  BY <1>3, <1>4, <1>9, ReturnAddressed DEF AnswerLost
<1>10. CASE PostRefused(s)
  BY <1>3, <1>4, <1>10, ReturnAddressed DEF PostRefused, mailVars
<1>11. CASE DispatchRaises(s)
  <2>1. job' \in [Senders -> Jobs]
    BY <1>11 DEF DispatchRaises, AddressInv, Jobs
  <2>2. PlanInv'
    BY <1>11, GiveUpPlan, PlanStays DEF DispatchRaises, AddressInv
  <2> QED
    BY <1>4, <1>11, <2>1, <2>2 DEF DispatchRaises, AddressInv, mailVars
<1> QED
  BY <1>5, <1>6, <1>7, <1>8, <1>9, <1>10, <1>11 DEF Dispatch

LEMMA RunAddressed ==
    ASSUME AddressInv, Run
    PROVE  AddressInv'
<1>1. UNCHANGED <<row, wire>>
  BY DEF Run, Start, BatchRaises, AppendRaises, SuppressOptedOut, BlockByKillSwitch,
         QueueForReview, LeaveAlone, DispatchUnattended, Complete, bookVars, mailVars
<1>2. SUFFICES /\ PlanInv'
               /\ queue' \in Seq(Addressed)
               /\ job' \in [Senders -> Jobs]
  BY <1>1, ListedStays DEF AddressInv
<1>3. CASE Start
  <2>1. PlanInv'
    BY <1>3, PlansAreDecisions DEF Start, PlanInv, AddressInv
  <2> QED
    BY <1>3, <2>1 DEF Start, AddressInv
<1>4. ASSUME NEW n \in 0..(Size - 1), BatchRaises(n)
      PROVE  /\ PlanInv'
             /\ queue' \in Seq(Addressed)
             /\ job' \in [Senders -> Jobs]
  BY <1>4, PlanStays DEF BatchRaises, AddressInv
<1>5. CASE AppendRaises
  BY <1>5, GiveUpPlan DEF AppendRaises, AddressInv
<1>6. CASE SuppressOptedOut
  BY <1>6, AdvancePlan DEF SuppressOptedOut, AddressInv
<1>7. CASE BlockByKillSwitch
  BY <1>7, AdvancePlan DEF BlockByKillSwitch, AddressInv
<1>8. CASE QueueForReview
  <2>1. Draft \in Addressed
    BY <1>8, DraftAddressed DEF QueueForReview, Allowed, AddressInv
  <2> QED
    BY <1>8, <2>1, AdvancePlan DEF QueueForReview, AddressInv
<1>9. CASE LeaveAlone
  BY <1>9, AdvancePlan DEF LeaveAlone, AddressInv
<1>10. CASE DispatchUnattended
  <2>1. Draft \in Addressed
    BY <1>10, DraftAddressed DEF DispatchUnattended, Allowed, AddressInv
  <2>2. [stage |-> "ready", notice |-> Draft, dry |-> dry] \in Jobs
    BY <2>1 DEF Jobs, AddressInv, PlanInv
  <2>3. job' \in [Senders -> Jobs]
    BY <1>10, <2>2 DEF DispatchUnattended, AddressInv
  <2> QED
    BY <1>10, <2>3, PlanStays DEF DispatchUnattended, AddressInv
<1>11. CASE Complete
  BY <1>11, GiveUpPlan DEF Complete, AddressInv
<1> QED
  BY <1>3, <1>4, <1>5, <1>6, <1>7, <1>8, <1>9, <1>10, <1>11 DEF Run

LEMMA NextAddressed == AddressInv /\ [Next]_vars => AddressInv'
<1> SUFFICES ASSUME AddressInv, [Next]_vars PROVE AddressInv'
  OBVIOUS
<1>1. CASE Run
  BY <1>1, RunAddressed
<1>2. CASE SetKillSwitch
  BY <1>2, ListedStays, PlanStays DEF SetKillSwitch, AddressInv, bookVars, mailVars
<1>3. ASSUME NEW i \in DOMAIN queue, Approve(i) PROVE AddressInv'
  <2>1. queue[i] \in Addressed
    BY <1>3 DEF AddressInv
  <2>2. [stage |-> "ready", notice |-> queue[i], dry |-> FALSE] \in Jobs
    BY <2>1 DEF Jobs
  <2>3. job' \in [Senders -> Jobs]
    BY <1>3, <2>2 DEF Approve, AddressInv
  <2>4. queue' \in Seq(Addressed)
    BY <1>3, RemoveAtType DEF Approve, AddressInv
  <2> QED
    BY <1>3, <2>3, <2>4, ListedStays, PlanStays DEF Approve, AddressInv, bookVars, mailVars
<1>4. ASSUME NEW s \in Senders, Dispatch(s) PROVE AddressInv'
  BY <1>4, DispatchAddressed
<1>5. CASE EditContacts
  BY <1>5, ListedStays, PlanStays DEF EditContacts, AddressInv, mailVars
<1>6. CASE Restart
  <2>1. job' \in [Senders -> Jobs]
    BY <1>6 DEF Restart, Jobs
  <2> QED
    BY <1>6, <2>1, ListedStays, GiveUpPlan DEF Restart, AddressInv, mailVars
<1>7. CASE UNCHANGED vars
  BY <1>7, ListedStays, PlanStays DEF vars, AddressInv, bookVars, mailVars
<1> QED
  BY <1>1, <1>2, <1>3, <1>4, <1>5, <1>6, <1>7 DEF Next

(* Nothing waits for or leaves to an address that was not listed for its   *)
(* debtor, whatever was edited or restarted since it was drafted           *)
(* (missing_contact in pipeline.py, resolve_delivery in contacts.py).      *)
THEOREM NobodyGuessed == Spec => []NeverGuessed
<1>1. AddressInv => NeverGuessed
  <2> SUFFICES ASSUME AddressInv PROVE NeverGuessed
    OBVIOUS
  <2>1. \A i \in DOMAIN queue : queue[i] \in Addressed
    BY DEF AddressInv
  <2> QED
    BY <2>1 DEF NeverGuessed, AddressInv, Addressed
<1> QED
  BY <1>1, InitAddressed, NextAddressed, PTL DEF Spec

-----------------------------------------------------------------------------
(* A mail leaves only armed, not from a dry run, and to the allowed        *)
(* address: PostTaken is the one way out, and the environment it reads is  *)
(* that of the dispatch, not of the draft (channels.py:65).                *)
THEOREM AllowedOnly == Spec => OnlyTheAllowed
<1> DEFINE Leaves ==
      \A w \in wire' \ wire :
        /\ env.live /\ env.key
        /\ w.to = env.allowed
        /\ \E s \in Senders : job[s] # NoJob /\ ~job[s].dry /\ Notice(s).debtor = w.debtor
<1>1. ASSUME NEW s \in Senders, PostTaken(s) PROVE Leaves
  <2>1. job[s] # NoJob /\ IsLive(s)
    BY <1>1 DEF PostTaken, NoJob
  <2>2. DeliverTo(env, Notice(s).email) = env.allowed
    BY <2>1 DEF IsLive, Armed, DeliverTo
  <2>3. wire' \ wire \subseteq {Mail(Notice(s))}
    BY <1>1 DEF PostTaken
  <2> QED
    BY <2>1, <2>2, <2>3 DEF IsLive, Armed, Mail
<1>2. Next => UNCHANGED wire \/ \E s \in Senders : PostTaken(s)
  BY DEF Next, Run, Start, BatchRaises, AppendRaises, SuppressOptedOut,
         BlockByKillSwitch, QueueForReview, LeaveAlone, DispatchUnattended, Complete,
         SetKillSwitch, Approve, Dispatch, MissingRecipient, Simulate, RecordSent,
         AnswerLost, PostRefused, DispatchRaises, EditContacts, Restart, mailVars
<1>3. [Next]_vars => [Leaves]_vars
  BY <1>1, <1>2 DEF vars, mailVars
<1> QED
  BY <1>3, PTL DEF Spec, OnlyTheAllowed

-----------------------------------------------------------------------------
Ready(s) == IF job[s].stage = "ready" THEN 1 ELSE 0

Admitted == IF kill THEN Ready("run") + Ready("operator") ELSE 0

(* Under the switch, a message goes out only if it was counted as under    *)
(* way when the switch was engaged, and each of those only once.           *)
HaltInv == late \in Int /\ kill \in BOOLEAN /\ late + Admitted <= 0

LEMMA InFlightCounts ==
    InFlight \in Nat /\ Ready("run") + Ready("operator") <= InFlight
<1> DEFINE S == {s \in Senders : job[s] # NoJob}
<1>1. \A s \in Senders : Ready(s) = 1 => s \in S
  BY DEF Ready, NoJob
<1>2. \A s \in Senders : Ready(s) \in {0, 1}
  BY DEF Ready
<1>3. Cardinality({}) = 0 /\ Cardinality({"run"}) = 1 /\ Cardinality({"operator"}) = 1
  BY FS_EmptySet, FS_Singleton
<1>4. Cardinality({"run", "operator"}) = 2
  <2>1. {"run", "operator"} = {"run"} \cup {"operator"} /\ "operator" \notin {"run"}
    OBVIOUS
  <2> QED
    BY <2>1, <1>3, FS_Singleton, FS_AddElement
<1>5. S \in {{}, {"run"}, {"operator"}, {"run", "operator"}}
  BY DEF Senders
<1>6. \/ S = {} \/ S = {"run"} \/ S = {"operator"} \/ S = {"run", "operator"}
  BY <1>5
<1> HIDE DEF S
<1>7. /\ Ready("run") \in {0, 1} /\ (Ready("run") = 1 => "run" \in S)
      /\ Ready("operator") \in {0, 1} /\ (Ready("operator") = 1 => "operator" \in S)
  BY <1>1, <1>2 DEF Senders
<1>8. S = {} => Ready("run") = 0 /\ Ready("operator") = 0
  BY <1>7
<1>9. S = {"run"} => Ready("operator") = 0
  BY <1>7
<1>10. S = {"operator"} => Ready("run") = 0
  BY <1>7
<1>11. Cardinality(S) \in Nat /\ Ready("run") + Ready("operator") <= Cardinality(S)
  BY <1>3, <1>4, <1>6, <1>7, <1>8, <1>9, <1>10
<1> QED
  BY <1>11 DEF InFlight, S

(* A dispatch sends at most what it had ready. *)
LEMMA DispatchHalts ==
    ASSUME AddressInv, HaltInv, NEW s \in Senders, Dispatch(s)
    PROVE  HaltInv'
<1> DEFINE Fewer == Ready("run")' <= Ready("run") /\ Ready("operator")' <= Ready("operator")
           Spent == Ready("run")' + Ready("operator")' < Ready("run") + Ready("operator")
<1>1. \A t \in Senders : Ready(t) \in {0, 1} /\ Ready(t)' \in {0, 1}
  BY DEF Ready
<1>2. kill' = kill
  BY DEF Dispatch, MissingRecipient, Simulate, PostTaken, RecordSent, AnswerLost,
         PostRefused, DispatchRaises
<1>3. Fewer
  BY DEF Dispatch, MissingRecipient, Simulate, PostTaken, RecordSent, AnswerLost,
         PostRefused, DispatchRaises, Return, AddressInv, Jobs, Ready, NoJob, Senders
<1> HIDE DEF Fewer, Spent
<1>4. late' = late \/ (CountLate /\ Spent)
  <2>1. CASE Simulate(s)
    <3>1. Spent
      BY <2>1 DEF Simulate, Return, AddressInv, Ready, NoJob, Senders, Spent
    <3> QED
      BY <2>1, <3>1 DEF Simulate
  <2>2. CASE PostTaken(s)
    <3>1. Spent
      BY <2>2 DEF PostTaken, AddressInv, Jobs, Ready, NoJob, Senders, Spent
    <3> QED
      BY <2>2, <3>1 DEF PostTaken
  <2>3. MissingRecipient(s) \/ RecordSent(s) \/ AnswerLost(s) \/ PostRefused(s)
          \/ DispatchRaises(s) => late' = late
    BY DEF MissingRecipient, RecordSent, AnswerLost, PostRefused, DispatchRaises
  <2> QED
    BY <2>1, <2>2, <2>3 DEF Dispatch
<1> QED
  <2>1. /\ Ready("run") \in {0, 1} /\ Ready("run")' \in {0, 1}
        /\ Ready("operator") \in {0, 1} /\ Ready("operator")' \in {0, 1}
    BY <1>1 DEF Senders
  <2> QED
    BY <2>1, <1>2, <1>3, <1>4 DEF HaltInv, Admitted, CountLate, Fewer, Spent

LEMMA NextHalts == AddressInv /\ HaltInv /\ [Next]_vars => HaltInv'
<1> SUFFICES ASSUME AddressInv, HaltInv, [Next]_vars PROVE HaltInv'
  OBVIOUS
<1>1. CASE SetKillSwitch
  <2>1. UNCHANGED job
    BY <1>1 DEF SetKillSwitch
  <2>2. Ready("run")' = Ready("run") /\ Ready("operator")' = Ready("operator")
    BY <2>1 DEF Ready
  <2>3. CASE kill
    <3>1. late' = 0 /\ kill' = FALSE
      BY <1>1, <2>3, Zenon DEF SetKillSwitch
    <3>2. Admitted' = 0
      BY <3>1, Zenon DEF Admitted
    <3>3. late' \in Int /\ late' + Admitted' <= 0
      BY <3>1, <3>2
    <3> QED
      BY <3>1, <3>3, Zenon DEF HaltInv
  <2>4. CASE ~kill
    <3>1. late' = -InFlight /\ kill' = TRUE
      BY <1>1, <2>4, Zenon DEF SetKillSwitch
    <3>2. Admitted' = Ready("run") + Ready("operator")
      BY <2>2, <3>1, Zenon DEF Admitted
    <3>3. Ready("run") \in Nat /\ Ready("operator") \in Nat
      BY DEF Ready
    <3>4. late' \in Int /\ late' + Admitted' <= 0
      BY <3>1, <3>2, <3>3, InFlightCounts
    <3> QED
      BY <3>1, <3>4, Zenon DEF HaltInv
  <2> QED
    BY <2>3, <2>4
<1>2. ASSUME NEW s \in Senders, Dispatch(s) PROVE HaltInv'
  BY <1>2, DispatchHalts
<1>3. CASE Restart
  <2>1. Ready("run")' = 0 /\ Ready("operator")' = 0
    BY <1>3 DEF Restart, Ready, NoJob, Senders
  <2>2. Ready("run") >= 0 /\ Ready("operator") >= 0
    BY DEF Ready
  <2> QED
    BY <1>3, <2>1, <2>2 DEF Restart, HaltInv, Admitted, Ready
<1>4. CASE DispatchUnattended
  BY <1>4 DEF DispatchUnattended, Allowed, Halted, HaltInv, Admitted
<1>5. ASSUME NEW i \in DOMAIN queue, Approve(i) PROVE HaltInv'
  BY <1>5 DEF Approve, HaltInv, Admitted
<1>6. UNCHANGED <<kill, late, job>> => HaltInv'
  BY DEF HaltInv, Admitted, Ready
<1>7. CASE Run /\ ~DispatchUnattended
  BY <1>6, <1>7 DEF Run, Start, BatchRaises, AppendRaises, SuppressOptedOut,
     BlockByKillSwitch, QueueForReview, LeaveAlone, Complete
<1>8. CASE EditContacts
  BY <1>6, <1>8 DEF EditContacts
<1>9. CASE UNCHANGED vars
  BY <1>6, <1>9 DEF vars
<1> QED
  BY <1>1, <1>2, <1>3, <1>4, <1>5, <1>7, <1>8, <1>9 DEF Next

(* However runs, approvals and the switch interleave, after the switch was *)
(* engaged no more messages go out than were under way (operator.py:4).    *)
THEOREM HaltPrompt == Spec => []HaltIsPrompt
<1>1. Init => HaltInv
  <2>1. Init => late = 0 /\ kill = FALSE
    BY Zenon DEF Init
  <2>2. kill = FALSE => Admitted = 0
    BY Zenon DEF Admitted
  <2>3. 0 \in Int /\ 0 + 0 <= 0
    OBVIOUS
  <2> QED
    BY <2>1, <2>2, <2>3, Zenon DEF HaltInv
<1>2. HaltInv => HaltIsPrompt
  <2>1. Ready("run") >= 0 /\ Ready("operator") >= 0
    BY DEF Ready
  <2> QED
    BY <2>1 DEF HaltInv, Admitted, HaltIsPrompt, Ready
<1> QED
  BY <1>1, <1>2, InitAddressed, NextAddressed, NextHalts, PTL DEF Spec

-----------------------------------------------------------------------------
(***************************************************************************)
(* A debtor is asked once, over any number of runs, failed dispatches,     *)
(* approvals and restarts within one cooldown.                             *)
(***************************************************************************)
(* The places where an ask of a debtor can wait: the queue, a dispatch     *)
(* under way, and what is left of the run's plan.                          *)
Asks(n, d) == n.debtor = d /\ n.kind = "ask" /\ n.channel # "none"

Waits(d, i) == i \in DOMAIN queue /\ Asks(queue[i], d)

Held(d, s) == job[s] # NoJob /\ Asks(Notice(s), d)

Ahead(d) ==
    /\ phase = "acting"
    /\ plan[d].kind = "ask" /\ plan[d].channel # "none"
    /\ at <= d
    /\ job["run"] # NoJob => at # d

Somewhere(d) == (\E i \in DOMAIN queue : Waits(d, i)) \/ (\E s \in Senders : Held(d, s)) \/ Ahead(d)

(* The one ask of a debtor is in one place, and was logged; until it goes  *)
(* out, every copy that did was given up for lost.                         *)
OnceFor(d) ==
    /\ copies[d] <= 1 + unclear[d]
    /\ copies[d] > 0 \/ Somewhere(d) => d \in contacted
    /\ \/ \E i \in DOMAIN queue : Waits(d, i)
       \/ \E s \in Senders : Held(d, s) /\ job[s].stage = "ready"
       \/ Ahead(d)
       => copies[d] <= unclear[d]
    /\ \A i, j \in DOMAIN queue : Waits(d, i) /\ Waits(d, j) => i = j
    /\ \A i \in DOMAIN queue : Waits(d, i) => ~Ahead(d) /\ \A s \in Senders : ~Held(d, s)
    /\ \A s \in Senders : Held(d, s) => ~Ahead(d) /\ \A t \in Senders : Held(d, t) => t = s

(* What the run is dispatching is the decision it has come to. *)
RunInv == job["run"] # NoJob => phase = "acting" /\ Notice("run").debtor = at

CountInv == copies \in [Debtors -> Nat] /\ unclear \in [Debtors -> Nat]

OnceInv == RunInv /\ CountInv /\ \A d \in Debtors : OnceFor(d)

-----------------------------------------------------------------------------
(* How the queue's operations renumber what waits in it. *)
LEMMA AppendElements ==
    ASSUME NEW S, NEW q \in Seq(S), NEW e
    PROVE  /\ DOMAIN Append(q, e) = DOMAIN q \cup {Len(q) + 1}
           /\ Len(q) + 1 \notin DOMAIN q
           /\ \A j \in DOMAIN q : Append(q, e)[j] = q[j]
           /\ Append(q, e)[Len(q) + 1] = e
OBVIOUS

LEMMA PrependElements ==
    ASSUME NEW S, NEW q \in Seq(S), NEW e \in S
    PROVE  /\ (<<e>> \o q)[1] = e
           /\ \A j \in DOMAIN (<<e>> \o q) :
                j # 1 => j - 1 \in DOMAIN q /\ (<<e>> \o q)[j] = q[j - 1]
           /\ \A j \in DOMAIN (<<e>> \o q) : j \in Int
<1>1. <<e>> \in Seq(S) /\ Len(<<e>>) = 1 /\ <<e>>[1] = e
  OBVIOUS
<1>2. DOMAIN (<<e>> \o q) = 1..(1 + Len(q)) /\ DOMAIN q = 1..Len(q) /\ Len(q) \in Nat
  BY <1>1
<1>3. (<<e>> \o q)[1] = e
  BY <1>1, <1>2
<1>4. \A j \in 2..(1 + Len(q)) : (<<e>> \o q)[j] = q[j - 1]
  BY <1>1, <1>2
<1> QED
  BY <1>2, <1>3, <1>4

LEMMA RemoveAtElements ==
    ASSUME NEW S, NEW q \in Seq(S), NEW i \in DOMAIN q, NEW j \in DOMAIN RemoveAt(q, i)
    PROVE  /\ j \in Int /\ i \in Int
           /\ j < i => j \in DOMAIN q /\ RemoveAt(q, i)[j] = q[j]
           /\ j >= i => j + 1 \in DOMAIN q /\ RemoveAt(q, i)[j] = q[j + 1]
<1> DEFINE u == SubSeq(q, 1, i - 1)
           v == SubSeq(q, i + 1, Len(q))
<1>1. Len(q) \in Nat /\ DOMAIN q = 1..Len(q) /\ i \in 1..Len(q)
  OBVIOUS
<1>2. u \in Seq(S) /\ Len(u) = i - 1 /\ \A k \in 1..(i - 1) : u[k] = q[k]
  BY <1>1
<1>3. v \in Seq(S) /\ Len(v) = Len(q) - i /\ \A k \in 1..(Len(q) - i) : v[k] = q[k + i]
  BY <1>1
<1> HIDE DEF u, v
<1>4. RemoveAt(q, i) = u \o v
  BY DEF RemoveAt, u, v
<1>5. j \in 1..(Len(q) - 1)
  BY <1>1, <1>2, <1>3, <1>4
<1>6. RemoveAt(q, i)[j] = IF j <= i - 1 THEN u[j] ELSE v[j - (i - 1)]
  <2>1. j \in 1..(Len(u) + Len(v))
    BY <1>1, <1>2, <1>3, <1>5
  <2>2. (u \o v)[j] = IF j <= Len(u) THEN u[j] ELSE v[j - Len(u)]
    BY <1>2, <1>3, <2>1, ConcatProperties
  <2> QED
    BY <1>2, <1>4, <2>2
<1>7. j \in Int /\ i \in Int
  BY <1>1, <1>5
<1>8. ASSUME j < i
      PROVE  j \in DOMAIN q /\ RemoveAt(q, i)[j] = q[j]
  <2>1. j \in 1..(i - 1) /\ j \in DOMAIN q /\ j <= i - 1
    BY <1>1, <1>5, <1>8
  <2> QED
    BY <1>2, <1>6, <2>1
<1>9. ASSUME j >= i
      PROVE  j + 1 \in DOMAIN q /\ RemoveAt(q, i)[j] = q[j + 1]
  <2> DEFINE k == j - (i - 1)
  <2>1. /\ k \in 1..(Len(q) - i) /\ k + i = j + 1
        /\ j + 1 \in DOMAIN q /\ ~(j <= i - 1)
    BY <1>1, <1>5, <1>9
  <2>2. RemoveAt(q, i)[j] = v[k]
    BY <1>6, <2>1
  <2> HIDE DEF k
  <2>3. v[k] = q[k + i]
    BY <1>3, <2>1
  <2> QED
    BY <2>1, <2>2, <2>3
<1> QED
  BY <1>7, <1>8, <1>9

-----------------------------------------------------------------------------
LEMMA StagedIsJob ==
    ASSUME NEW s, job[s].stage \in {"ready", "taken"}
    PROVE  job[s] # NoJob
BY DEF NoJob

(* Nothing new to ask for: places only become fewer. *)
LEMMA FewerPlaces ==
    ASSUME NEW d \in Debtors, OnceFor(d),
           UNCHANGED <<queue, copies, unclear>>,
           contacted \subseteq contacted',
           Ahead(d)' => Ahead(d),
           \A s \in Senders : job'[s] = job[s] \/ job'[s] = NoJob
    PROVE  OnceFor(d)'
<1>1. \A i : Waits(d, i)' <=> Waits(d, i)
  BY DEF Waits, Asks
<1>2. \A s \in Senders : Held(d, s)' => Held(d, s) /\ job'[s] = job[s]
  BY DEF Held, Asks, Notice
<1> QED
  BY <1>1, <1>2 DEF OnceFor, Somewhere

(* The run's own bookkeeping: it moves on, or stops. *)
LEMMA AdvanceLeavesBehind ==
    ASSUME NEW d \in Debtors, AddressInv, RunInv, Advance,
           job'["run"] = NoJob
    PROVE  /\ Ahead(d)' => Ahead(d)
           /\ ~(Ahead(d)' /\ d = at)
<1>1. at \in Nat /\ d \in Nat
  BY DEF AddressInv, PlanInv, Debtors
<1>2. at' = at + 1 /\ phase' = phase /\ plan' = plan
  BY DEF Advance
<1>3. Ahead(d)' => at + 1 <= d
  BY <1>2 DEF Ahead
<1> QED
  BY <1>1, <1>2, <1>3 DEF Ahead

LEMMA NoPlanNothingAhead ==
    ASSUME NEW d, GiveUp
    PROVE  ~Ahead(d)'
BY DEF GiveUp, Ahead

(* Whoever may still be asked has not been contacted, so nothing of his    *)
(* waits anywhere and no copy went out.                                    *)
LEMMA StartOnce ==
    ASSUME AddressInv, OnceInv, Start, NEW d \in Debtors
    PROVE  OnceFor(d)'
<1>1. job["run"] = NoJob /\ UNCHANGED <<queue, job, copies, unclear>>
  BY DEF Start, OnceInv, RunInv, mailVars
<1>2. \A i : Waits(d, i)' <=> Waits(d, i)
  BY <1>1 DEF Waits, Asks
<1>3. \A s : Held(d, s)' <=> Held(d, s)
  BY <1>1 DEF Held, Asks, Notice
<1>4. contacted \subseteq contacted'
  BY DEF Start, LogDecisions
<1>5. CASE ~Ahead(d)'
  BY <1>1, <1>4, <1>5, FewerPlaces DEF OnceInv
<1>6. CASE Ahead(d)'
  <2>1. plan'[d] \in MayDecide(d) /\ d \in DOMAIN plan'
    BY DEF Start, Plans, Debtors
  <2>2. plan'[d].kind = "ask" /\ plan'[d].channel # "none"
    BY <1>6 DEF Ahead
  <2>3. d \notin contacted
    BY <2>1, <2>2 DEF MayDecide, Suppressed
  <2>4. d \in contacted'
    BY <2>1, <2>2 DEF Start, LogDecisions
  <2>5. ~Somewhere(d) /\ ~(copies[d] > 0)
    BY <2>3 DEF OnceInv, OnceFor
  <2>6. copies[d] = 0 /\ unclear[d] \in Nat
    BY <2>5 DEF OnceInv, CountInv
  <2> QED
    BY <1>1, <1>2, <1>3, <2>4, <2>5, <2>6 DEF OnceFor, Somewhere
<1> QED
  BY <1>5, <1>6

(* The ask moves from the plan into the queue. *)
LEMMA QueueOnce ==
    ASSUME AddressInv, OnceInv, QueueForReview, NEW d \in Debtors
    PROVE  OnceFor(d)'
<1>1. /\ job["run"] = NoJob /\ phase = "acting"
      /\ UNCHANGED <<job, copies, unclear, contacted>>
      /\ Advance
      /\ queue' = Append(queue, Draft)
  BY DEF QueueForReview, Allowed, Acting, mailVars
<1>2. ~(Ahead(d)' /\ d = at) /\ (Ahead(d)' => Ahead(d))
  BY <1>1, AdvanceLeavesBehind DEF OnceInv
<1>3. \A s : Held(d, s)' <=> Held(d, s)
  BY <1>1 DEF Held, Asks, Notice
<1>4. Asks(Draft, d) => Ahead(d) /\ d = at
  <2>1. at \in Nat
    BY DEF AddressInv, PlanInv
  <2> QED
    BY <1>1, <2>1 DEF Asks, Draft, Ahead
<1>5. queue \in Seq(Addressed)
  BY DEF AddressInv
<1>. PICK last : last = Len(queue) + 1
  OBVIOUS
<1>6. /\ DOMAIN queue' = DOMAIN queue \cup {last} /\ last \notin DOMAIN queue
      /\ \A i \in DOMAIN queue : Waits(d, i)' <=> Waits(d, i)
      /\ Waits(d, last)' <=> Asks(Draft, d)
  <2>1. /\ DOMAIN queue' = DOMAIN queue \cup {last} /\ last \notin DOMAIN queue
        /\ \A i \in DOMAIN queue : queue'[i] = queue[i]
        /\ queue'[last] = Draft
    BY <1>1, <1>5, AppendElements
  <2>2. \A i \in DOMAIN queue : Waits(d, i)' <=> Waits(d, i)
    BY <2>1 DEF Waits, Asks
  <2>3. Waits(d, last)' <=> Asks(Draft, d)
    BY <2>1 DEF Waits, Asks
  <2> QED
    BY <2>1, <2>2, <2>3
<1>7. CASE ~Asks(Draft, d)
  <2>1. \A i \in DOMAIN queue' : Waits(d, i)' => i \in DOMAIN queue /\ Waits(d, i)
    BY <1>6, <1>7
  <2>2. OnceFor(d)
    BY DEF OnceInv
  <2> QED
    BY <1>1, <1>2, <1>3, <2>1, <2>2 DEF OnceFor, Somewhere
<1>8. CASE Asks(Draft, d)
  <2>1. Ahead(d) /\ ~Ahead(d)'
    BY <1>2, <1>4, <1>8
  <2>2. /\ \A i \in DOMAIN queue : ~Waits(d, i)
        /\ \A s \in Senders : ~Held(d, s)
        /\ d \in contacted /\ copies[d] <= unclear[d] /\ copies[d] <= 1 + unclear[d]
    BY <2>1 DEF OnceInv, OnceFor, Somewhere
  <2> QED
    BY <1>1, <1>3, <1>6, <2>1, <2>2 DEF OnceFor, Somewhere
<1> QED
  BY <1>7, <1>8

(* The ask moves from the plan to a dispatch. *)
LEMMA UnattendedOnce ==
    ASSUME AddressInv, OnceInv, DispatchUnattended, NEW d \in Debtors
    PROVE  OnceFor(d)'
<1>1. /\ job["run"] = NoJob /\ phase = "acting"
      /\ UNCHANGED <<runVars, queue, copies, unclear, contacted>>
      /\ job' = [job EXCEPT !["run"] = [stage |-> "ready", notice |-> Draft, dry |-> dry]]
  BY DEF DispatchUnattended, Allowed, Acting, mailVars
<1>2. \A i : Waits(d, i)' <=> Waits(d, i)
  BY <1>1 DEF Waits, Asks
<1>3. /\ job'["run"] = [stage |-> "ready", notice |-> Draft, dry |-> dry]
      /\ job'["operator"] = job["operator"]
  BY <1>1 DEF AddressInv, Senders
<1>4. /\ Held(d, "run")' <=> Asks(Draft, d)
      /\ Held(d, "operator")' <=> Held(d, "operator")
      /\ ~Held(d, "run")
  BY <1>1, <1>3 DEF Held, Asks, Notice, NoJob
<1>5. (Ahead(d)' => Ahead(d)) /\ ~(Ahead(d)' /\ d = at)
  BY <1>1, <1>3 DEF Ahead, runVars, NoJob
<1>6. Asks(Draft, d) => Ahead(d) /\ d = at
  <2>1. at \in Nat
    BY DEF AddressInv, PlanInv
  <2> QED
    BY <1>1, <2>1 DEF Asks, Draft, Ahead
<1>7. CASE ~Asks(Draft, d)
  BY <1>1, <1>2, <1>3, <1>4, <1>5, <1>7 DEF OnceInv, OnceFor, Somewhere, Senders
<1>8. CASE Asks(Draft, d)
  <2>1. Ahead(d) /\ ~Ahead(d)'
    BY <1>5, <1>6, <1>8
  <2>2. /\ \A i \in DOMAIN queue : ~Waits(d, i)
        /\ \A s \in Senders : ~Held(d, s)
        /\ d \in contacted /\ copies[d] <= unclear[d] /\ copies[d] <= 1 + unclear[d]
    BY <2>1 DEF OnceInv, OnceFor, Somewhere
  <2> QED
    BY <1>1, <1>2, <1>4, <2>1, <2>2 DEF OnceFor, Somewhere, Senders
<1> QED
  BY <1>7, <1>8

(* The ask moves from the queue to the operator. *)
LEMMA ApproveOnce ==
    ASSUME AddressInv, OnceInv, NEW k \in DOMAIN queue, Approve(k), NEW d \in Debtors
    PROVE  OnceFor(d)'
<1>1. /\ job["operator"] = NoJob
      /\ UNCHANGED <<runVars, copies, unclear, contacted>>
      /\ job' = [job EXCEPT !["operator"] =
                   [stage |-> "ready", notice |-> queue[k], dry |-> FALSE]]
      /\ queue' = RemoveAt(queue, k)
  BY DEF Approve, mailVars
<1>2. /\ job'["operator"] = [stage |-> "ready", notice |-> queue[k], dry |-> FALSE]
      /\ job'["run"] = job["run"]
  BY <1>1 DEF AddressInv, Senders
<1>3. /\ Held(d, "operator")' <=> Waits(d, k)
      /\ Held(d, "run")' <=> Held(d, "run")
      /\ ~Held(d, "operator")
  BY <1>1, <1>2 DEF Held, Waits, Asks, Notice, NoJob
<1>4. Ahead(d)' <=> Ahead(d)
  BY <1>1, <1>2 DEF Ahead, runVars
<1> DEFINE Was(j) == IF j < k THEN j ELSE j + 1
<1>5. \A j \in DOMAIN queue' : /\ Was(j) \in DOMAIN queue /\ Was(j) # k
                               /\ Waits(d, j)' => Waits(d, Was(j))
  <2> SUFFICES ASSUME NEW j \in DOMAIN queue'
               PROVE  /\ Was(j) \in DOMAIN queue /\ Was(j) # k
                      /\ Waits(d, j)' => Waits(d, Was(j))
    OBVIOUS
  <2>1. queue \in Seq(Addressed) /\ j \in DOMAIN RemoveAt(queue, k)
    BY <1>1 DEF AddressInv
  <2>2. /\ j \in Int /\ k \in Int
        /\ j < k => j \in DOMAIN queue /\ queue'[j] = queue[j]
        /\ j >= k => j + 1 \in DOMAIN queue /\ queue'[j] = queue[j + 1]
    BY <1>1, <2>1, RemoveAtElements
  <2> QED
    BY <2>2 DEF Waits, Asks
<1>6. \A i, j \in DOMAIN queue' : Was(i) = Was(j) => i = j
  <2>1. \A j \in DOMAIN queue' : j \in Int
    BY <1>1, RemoveAtElements DEF AddressInv
  <2>2. k \in Int
    BY DEF AddressInv
  <2> QED
    BY <2>1, <2>2
<1> HIDE DEF Was
<1>7. \A i, j \in DOMAIN queue' : Waits(d, i)' /\ Waits(d, j)' => i = j
  BY <1>5, <1>6 DEF OnceInv, OnceFor
<1>8. Waits(d, k) => \A j \in DOMAIN queue' : ~Waits(d, j)'
  BY <1>5 DEF OnceInv, OnceFor
<1> QED
  BY <1>1, <1>2, <1>3, <1>4, <1>5, <1>7, <1>8 DEF OnceInv, OnceFor, Somewhere, Senders

-----------------------------------------------------------------------------
(* A dispatch that is over, its notice not put back. *)
LEMMA DroppedOnce ==
    ASSUME AddressInv, OnceInv, NEW s \in Senders, NEW success, Return(s, success),
           s = "run" \/ success = TRUE,
           UNCHANGED <<contacted, copies>>,
           NEW d \in Debtors, unclear'[d] = unclear[d] \/ unclear'[d] = unclear[d] + 1
    PROVE  OnceFor(d)'
<1>1. /\ queue' = queue
      /\ s = "run" => Advance
      /\ s # "run" => UNCHANGED runVars
      /\ job' = [job EXCEPT ![s] = NoJob]
  BY DEF Return
<1>2. \A t \in Senders : job'[t] = IF t = s THEN NoJob ELSE job[t]
  BY <1>1 DEF AddressInv
<1>3. Ahead(d)' => Ahead(d)
  BY <1>1, <1>2, AdvanceLeavesBehind DEF OnceInv, Ahead, runVars, Senders
<1>4. \A i : Waits(d, i)' <=> Waits(d, i)
  BY <1>1 DEF Waits, Asks
<1>5. \A t \in Senders : Held(d, t)' => Held(d, t) /\ job'[t] = job[t]
  BY <1>2 DEF Held, Asks, Notice
<1>6. copies[d] \in Nat /\ unclear[d] \in Nat
  BY DEF OnceInv, CountInv
<1> QED
  BY <1>1, <1>3, <1>4, <1>5, <1>6 DEF OnceInv, OnceFor, Somewhere

(* What the operator could not get out goes back to the head of the queue. *)
LEMMA PutBackOnce ==
    ASSUME AddressInv, OnceInv, NEW s \in Senders, s # "run", job[s] # NoJob,
           Return(s, FALSE),
           UNCHANGED <<contacted, copies>>,
           NEW d \in Debtors,
           unclear'[d] \in Nat, unclear[d] <= unclear'[d],
           Held(d, s) => job[s].stage = "ready" \/ unclear'[d] = unclear[d] + 1
    PROVE  OnceFor(d)'
<1>1. /\ queue' = <<Notice(s)>> \o queue
      /\ UNCHANGED runVars
      /\ job' = [job EXCEPT ![s] = NoJob]
  BY DEF Return
<1>2. \A t \in Senders : job'[t] = IF t = s THEN NoJob ELSE job[t]
  BY <1>1 DEF AddressInv
<1>3. Ahead(d)' <=> Ahead(d)
  BY <1>1, <1>2 DEF Ahead, runVars, Senders
<1>4. \A t \in Senders : Held(d, t)' => Held(d, t) /\ t # s /\ job'[t] = job[t]
  BY <1>2 DEF Held, Asks, Notice
<1>5. Notice(s) \in Addressed /\ queue \in Seq(Addressed)
  BY DEF AddressInv, Jobs, Notice
<1>6. /\ queue'[1] = Notice(s)
      /\ \A j \in DOMAIN queue' : /\ j \in Int
                                  /\ j # 1 => /\ j - 1 \in DOMAIN queue
                                              /\ queue'[j] = queue[j - 1]
  BY <1>1, <1>5, PrependElements
<1>7. \A j \in DOMAIN queue' : Waits(d, j)' =>
        IF j = 1 THEN Held(d, s) ELSE Waits(d, j - 1)
  BY <1>6 DEF Waits, Held, Asks
<1>8. copies[d] \in Nat /\ unclear[d] \in Nat
  BY DEF OnceInv, CountInv
<1>9. \A i, j \in DOMAIN queue' : Waits(d, i)' /\ Waits(d, j)' => i = j
  <2> SUFFICES ASSUME NEW i \in DOMAIN queue', NEW j \in DOMAIN queue',
                      Waits(d, i)', Waits(d, j)', i # j
               PROVE  FALSE
    OBVIOUS
  <2>1. CASE i = 1
    <3>1. Held(d, s) /\ Waits(d, j - 1) /\ j - 1 \in DOMAIN queue
      BY <1>6, <1>7, <2>1
    <3> QED
      BY <3>1 DEF OnceInv, OnceFor
  <2>2. CASE j = 1
    <3>1. Held(d, s) /\ Waits(d, i - 1) /\ i - 1 \in DOMAIN queue
      BY <1>6, <1>7, <2>2
    <3> QED
      BY <3>1 DEF OnceInv, OnceFor
  <2>3. CASE i # 1 /\ j # 1
    <3>1. /\ Waits(d, i - 1) /\ i - 1 \in DOMAIN queue
          /\ Waits(d, j - 1) /\ j - 1 \in DOMAIN queue
      BY <1>6, <1>7, <2>3
    <3>2. i - 1 = j - 1
      BY <3>1 DEF OnceInv, OnceFor
    <3> QED
      BY <1>6, <3>2
  <2> QED
    BY <2>1, <2>2, <2>3
<1>10. \A j \in DOMAIN queue' : Waits(d, j)' =>
          /\ ~Ahead(d)' /\ \A t \in Senders : ~Held(d, t)'
          /\ d \in contacted
          /\ copies[d] <= unclear'[d]
  <2> SUFFICES ASSUME NEW j \in DOMAIN queue', Waits(d, j)'
               PROVE  /\ ~Ahead(d)' /\ \A t \in Senders : ~Held(d, t)'
                      /\ d \in contacted
                      /\ copies[d] <= unclear'[d]
    OBVIOUS
  <2>1. CASE j = 1
    <3>1. Held(d, s)
      BY <1>7, <2>1
    <3> QED
      BY <1>3, <1>4, <1>8, <3>1 DEF OnceInv, OnceFor, Somewhere
  <2>2. CASE j # 1
    <3>1. Waits(d, j - 1) /\ j - 1 \in DOMAIN queue
      BY <1>6, <1>7, <2>2
    <3> QED
      BY <1>3, <1>4, <1>8, <3>1 DEF OnceInv, OnceFor, Somewhere
  <2> QED
    BY <2>1, <2>2
<1> QED
  BY <1>3, <1>4, <1>8, <1>9, <1>10 DEF OnceInv, OnceFor, Somewhere

-----------------------------------------------------------------------------
(* A message that goes out is the one that waited. *)
LEMMA OutOnce ==
    ASSUME AddressInv, OnceInv, NEW s \in Senders, job[s].stage = "ready",
           Out(Notice(s)), NEW d \in Debtors, Notice(s).channel # "none"
    PROVE  /\ copies'[d] = IF Held(d, s) THEN copies[d] + 1 ELSE copies[d]
           /\ copies' \in [Debtors -> Nat]
<1>1. job[s] # NoJob
  BY DEF NoJob
<1>2. Notice(s) \in Addressed
  BY <1>1 DEF AddressInv, Jobs, Notice
<1>3. Notice(s).debtor \in Debtors
  BY <1>2 DEF Addressed
<1>4. copies \in [Debtors -> Nat]
  BY DEF OnceInv, CountInv
<1>5. CASE Notice(s).kind = "ask"
  BY <1>1, <1>3, <1>4, <1>5 DEF Out, Held, Asks
<1>6. CASE Notice(s).kind # "ask"
  BY <1>1, <1>4, <1>6 DEF Out, Held, Asks
<1> QED
  BY <1>5, <1>6

LEMMA PostTakenOnce ==
    ASSUME AddressInv, OnceInv, NEW s \in Senders, PostTaken(s), NEW d \in Debtors
    PROVE  OnceFor(d)'
<1>1. /\ job[s].stage = "ready" /\ job[s] # NoJob /\ Notice(s).channel # "none"
      /\ Out(Notice(s))
      /\ UNCHANGED <<runVars, queue, unclear, contacted>>
      /\ job' = [job EXCEPT ![s].stage = "taken"]
  BY DEF PostTaken, NoJob, IsLive
<1>2. copies'[d] = IF Held(d, s) THEN copies[d] + 1 ELSE copies[d]
  BY <1>1, OutOnce
<1>3. \A i : Waits(d, i)' <=> Waits(d, i)
  BY <1>1 DEF Waits, Asks
<1>4. job[s] \in [stage : {"ready", "taken"}, notice : Addressed, dry : BOOLEAN]
  BY <1>1 DEF AddressInv, Jobs
<1>5. /\ job'[s] = [job[s] EXCEPT !.stage = "taken"]
      /\ \A t \in Senders : t # s => job'[t] = job[t]
  BY <1>1 DEF AddressInv
<1>6. job'[s].stage = "taken" /\ job'[s].notice = job[s].notice /\ job'[s] # NoJob
  BY <1>4, <1>5 DEF NoJob
<1>7. \A t \in Senders : Held(d, t)' <=> Held(d, t)
  BY <1>1, <1>5, <1>6 DEF Held, Asks, Notice
<1>8. Ahead(d)' <=> Ahead(d)
  BY <1>1, <1>5, <1>6 DEF Ahead, runVars, Senders
<1>9. copies[d] \in Nat /\ unclear[d] \in Nat
  BY DEF OnceInv, CountInv
<1>10. CASE Held(d, s)
  <2>1. copies[d] <= unclear[d] /\ d \in contacted
    BY <1>1, <1>10 DEF OnceInv, OnceFor, Somewhere
  <2>2. /\ \A i \in DOMAIN queue : ~Waits(d, i)
        /\ ~Ahead(d)
        /\ \A t \in Senders : Held(d, t) => t = s
    BY <1>10 DEF OnceInv, OnceFor
  <2> QED
    BY <1>1, <1>2, <1>3, <1>6, <1>7, <1>8, <1>9, <1>10, <2>1, <2>2 DEF OnceFor, Somewhere
<1>11. CASE ~Held(d, s)
  <2>1. OnceFor(d) /\ copies'[d] = copies[d]
    BY <1>2, <1>11 DEF OnceInv
  <2>2. \A t \in Senders : Held(d, t)' => Held(d, t) /\ job'[t] = job[t]
    BY <1>5, <1>7, <1>11
  <2> QED
    BY <1>1, <1>3, <1>7, <1>8, <2>1, <2>2 DEF OnceFor, Somewhere
<1> QED
  BY <1>10, <1>11

LEMMA SimulateOnce ==
    ASSUME AddressInv, OnceInv, NEW s \in Senders, Simulate(s), NEW d \in Debtors
    PROVE  OnceFor(d)'
<1>1. /\ job[s].stage = "ready" /\ job[s] # NoJob
      /\ Return(s, TRUE)
      /\ UNCHANGED <<unclear, contacted>>
  <2>1. job[s].stage = "ready"
    BY DEF Simulate
  <2>2. job[s] # NoJob
    BY <2>1, StagedIsJob
  <2> QED
    BY <2>1, <2>2, Zenon DEF Simulate
<1>2. CASE UNCHANGED copies
  BY <1>1, <1>2, DroppedOnce
<1>3. CASE Notice(s).channel # "none" /\ Out(Notice(s))
  <2>1. copies'[d] = IF Held(d, s) THEN copies[d] + 1 ELSE copies[d]
    BY <1>1, <1>3, OutOnce
  <2>2. /\ queue' = queue
        /\ s = "run" => Advance
        /\ s # "run" => UNCHANGED runVars
        /\ job' = [job EXCEPT ![s] = NoJob]
    BY <1>1 DEF Return
  <2>3. \A t \in Senders : job'[t] = IF t = s THEN NoJob ELSE job[t]
    BY <2>2 DEF AddressInv
  <2>4. Ahead(d)' => Ahead(d)
    BY <2>2, <2>3, AdvanceLeavesBehind DEF OnceInv, Ahead, runVars, Senders
  <2>5. \A i : Waits(d, i)' <=> Waits(d, i)
    BY <2>2 DEF Waits, Asks
  <2>6. \A t \in Senders : Held(d, t)' => Held(d, t) /\ t # s /\ job'[t] = job[t]
    BY <2>3 DEF Held, Asks, Notice
  <2>7. copies[d] \in Nat /\ unclear[d] \in Nat
    BY DEF OnceInv, CountInv
  <2>8. CASE Held(d, s)
    <3>1. copies[d] <= unclear[d] /\ d \in contacted
      BY <1>1, <2>8 DEF OnceInv, OnceFor, Somewhere
    <3>2. /\ \A i \in DOMAIN queue : ~Waits(d, i)
          /\ ~Ahead(d)
          /\ \A t \in Senders : Held(d, t) => t = s
      BY <2>8 DEF OnceInv, OnceFor
    <3> QED
      BY <1>1, <2>1, <2>2, <2>4, <2>5, <2>6, <2>7, <2>8, <3>1, <3>2 DEF OnceFor, Somewhere
  <2>9. CASE ~Held(d, s)
    <3>1. OnceFor(d) /\ copies'[d] = copies[d]
      BY <2>1, <2>9 DEF OnceInv
    <3> QED
      BY <1>1, <2>2, <2>4, <2>5, <2>6, <3>1 DEF OnceFor, Somewhere
  <2> QED
    BY <2>8, <2>9
<1> QED
  BY <1>2, <1>3 DEF Simulate

(* The answer to a message that went out is lost. *)
LEMMA AnswerLostOnce ==
    ASSUME AddressInv, OnceInv, NEW s \in Senders, AnswerLost(s), NEW d \in Debtors
    PROVE  OnceFor(d)'
<1>1. /\ job[s].stage = "taken" /\ job[s] # NoJob
      /\ Return(s, FALSE)
      /\ UNCHANGED <<copies, contacted>>
      /\ unclear' = [unclear EXCEPT ![Notice(s).debtor] = unclear[Notice(s).debtor] + 1]
  <2>1. job[s].stage = "taken"
    BY DEF AnswerLost
  <2>2. job[s] # NoJob
    BY <2>1, StagedIsJob
  <2> QED
    BY <2>1, <2>2, Zenon DEF AnswerLost
<1>2. unclear \in [Debtors -> Nat]
  BY DEF OnceInv, CountInv
<1>3. /\ unclear'[d] = unclear[d] \/ unclear'[d] = unclear[d] + 1
      /\ Notice(s).debtor = d => unclear'[d] = unclear[d] + 1
      /\ unclear'[d] \in Nat /\ unclear[d] <= unclear'[d]
  BY <1>1, <1>2
<1>4. CASE s = "run"
  BY <1>1, <1>3, <1>4, DroppedOnce
<1>5. CASE s # "run"
  <2>1. Held(d, s) => unclear'[d] = unclear[d] + 1
    BY <1>3 DEF Held, Asks
  <2> QED
    BY <1>1, <1>3, <1>5, <2>1, PutBackOnce
<1> QED
  BY <1>4, <1>5

LEMMA DispatchOnce ==
    ASSUME AddressInv, OnceInv, NEW s \in Senders, Dispatch(s), NEW d \in Debtors
    PROVE  OnceFor(d)'
<1>1. unclear[d] \in Nat /\ OnceFor(d)
  BY DEF OnceInv, CountInv
<1>2. ASSUME job[s].stage = "ready", Return(s, FALSE), UNCHANGED <<contacted, copies, unclear>>
      PROVE  OnceFor(d)'
  <2>1. job[s] # NoJob
    BY <1>2 DEF NoJob
  <2>2. CASE s = "run"
    BY <1>2, <2>2, DroppedOnce
  <2>3. CASE s # "run"
    <3>1. /\ unclear'[d] \in Nat /\ unclear[d] <= unclear'[d]
          /\ UNCHANGED <<contacted, copies>>
      BY <1>1, <1>2
    <3> QED
      BY <1>2, <2>1, <2>3, <3>1, PutBackOnce, Zenon
  <2> QED
    BY <2>2, <2>3
<1>3. CASE MissingRecipient(s) \/ PostRefused(s)
  BY <1>2, <1>3 DEF MissingRecipient, PostRefused, mailVars
<1>4. CASE RecordSent(s)
  BY <1>4, DroppedOnce DEF RecordSent, mailVars
<1>5. CASE DispatchRaises(s)
  <2>1. /\ UNCHANGED <<queue, copies, unclear, contacted>>
        /\ \A t \in Senders : job'[t] = IF t = s THEN NoJob ELSE job[t]
        /\ s = "run" => GiveUp
        /\ s # "run" => UNCHANGED runVars
    BY <1>5 DEF DispatchRaises, AddressInv, mailVars
  <2>2. Ahead(d)' => Ahead(d)
    BY <2>1, NoPlanNothingAhead DEF Ahead, runVars, Senders
  <2> QED
    BY <1>1, <2>1, <2>2, FewerPlaces
<1> QED
  BY <1>3, <1>4, <1>5, SimulateOnce, PostTakenOnce, AnswerLostOnce DEF Dispatch

LEMMA NextOnceFor ==
    ASSUME AddressInv, OnceInv, [Next]_vars, NEW d \in Debtors
    PROVE  OnceFor(d)'
<1>1. OnceFor(d)
  BY DEF OnceInv
<1>2. ASSUME UNCHANGED <<queue, copies, unclear, job>>, contacted \subseteq contacted',
             Ahead(d)' => Ahead(d)
      PROVE  OnceFor(d)'
  BY <1>1, <1>2, FewerPlaces
<1>3. UNCHANGED <<runVars, job>> => (Ahead(d)' => Ahead(d))
  BY DEF Ahead, runVars
<1>4. ASSUME NEW n \in 0..(Size - 1), BatchRaises(n) PROVE OnceFor(d)'
  BY <1>2, <1>3, <1>4 DEF BatchRaises, LogDecisions, mailVars
<1>5. CASE AppendRaises \/ Complete
  BY <1>2, <1>5, NoPlanNothingAhead DEF AppendRaises, Complete, mailVars
<1>6. CASE SuppressOptedOut \/ BlockByKillSwitch \/ LeaveAlone
  <2>1. /\ UNCHANGED <<queue, copies, unclear, job, contacted>>
        /\ Advance /\ job'["run"] = NoJob
    BY <1>6 DEF SuppressOptedOut, BlockByKillSwitch, LeaveAlone, Allowed, Acting, mailVars
  <2> QED
    BY <1>2, <2>1, AdvanceLeavesBehind DEF OnceInv
<1>7. CASE SetKillSwitch \/ EditContacts \/ UNCHANGED vars
  BY <1>2, <1>3, <1>7 DEF SetKillSwitch, EditContacts, vars, runVars, mailVars
<1>8. CASE Restart
  <2>1. \A t \in Senders : job'[t] = NoJob
    BY <1>8 DEF Restart
  <2> QED
    BY <1>1, <1>8, <2>1, FewerPlaces, NoPlanNothingAhead DEF Restart, mailVars
<1> QED
  BY <1>4, <1>5, <1>6, <1>7, <1>8, StartOnce, QueueOnce, UnattendedOnce, ApproveOnce,
     DispatchOnce DEF Next, Run

-----------------------------------------------------------------------------
LEMMA NextRun == AddressInv /\ RunInv /\ [Next]_vars => RunInv'
<1> SUFFICES ASSUME AddressInv, RunInv, [Next]_vars PROVE RunInv'
  OBVIOUS
<1>1. job'["run"] = NoJob => RunInv'
  BY DEF RunInv
<1>2. CASE Run
  <2>1. CASE DispatchUnattended
    BY <2>1 DEF DispatchUnattended, Allowed, Acting, RunInv, Notice, Draft, runVars,
                AddressInv, Senders
  <2>2. CASE Start \/ (\E n \in 0..(Size - 1) : BatchRaises(n))
    BY <2>2 DEF Start, BatchRaises, RunInv, runVars
  <2>3. CASE Complete
    <3>1. at \notin Debtors
      BY <2>3, OutboundAssumption DEF Complete, Debtors, AddressInv, PlanInv
    <3>2. ASSUME job["run"] # NoJob PROVE at \in Debtors
      <4>1. Notice("run") \in Addressed /\ Notice("run").debtor = at
        BY <3>2 DEF AddressInv, Jobs, Notice, RunInv, Senders
      <4> QED
        BY <4>1 DEF Addressed
    <3>3. job["run"] = NoJob
      BY <3>1, <3>2
    <3> QED
      BY <1>1, <2>3, <3>3 DEF Complete
  <2> QED
    BY <1>1, <1>2, <2>1, <2>2, <2>3 DEF Run, AppendRaises, SuppressOptedOut,
       BlockByKillSwitch, QueueForReview, LeaveAlone, Allowed, Acting
<1>3. ASSUME NEW i \in DOMAIN queue, Approve(i) PROVE RunInv'
  BY <1>3 DEF Approve, RunInv, Notice, runVars, AddressInv, Senders
<1>4. ASSUME NEW s \in Senders, Dispatch(s) PROVE RunInv'
  BY <1>1, <1>4 DEF Dispatch, MissingRecipient, Simulate, PostTaken, RecordSent,
     AnswerLost, PostRefused, DispatchRaises, Return, RunInv, Notice, runVars,
     AddressInv, Jobs, NoJob, Senders
<1>5. CASE Restart
  BY <1>1, <1>5 DEF Restart, Senders
<1>6. CASE SetKillSwitch \/ EditContacts \/ UNCHANGED vars
  BY <1>6 DEF SetKillSwitch, EditContacts, vars, RunInv, Notice, runVars
<1> QED
  BY <1>2, <1>3, <1>4, <1>5, <1>6 DEF Next

LEMMA NextCount == AddressInv /\ OnceInv /\ [Next]_vars => CountInv'
<1> SUFFICES ASSUME AddressInv, OnceInv, [Next]_vars PROVE CountInv'
  OBVIOUS
<1>1. CountInv
  BY DEF OnceInv
<1>2. UNCHANGED <<copies, unclear>> => CountInv'
  BY <1>1 DEF CountInv
<1>3. ASSUME NEW s \in Senders, Dispatch(s) PROVE CountInv'
  <2>1. ASSUME job[s].stage = "ready" \/ job[s].stage = "taken"
        PROVE  Notice(s).debtor \in Debtors
    <3>1. job[s] # NoJob
      BY <2>1, StagedIsJob
    <3>2. Notice(s) \in Addressed
      BY <3>1 DEF AddressInv, Jobs, Notice
    <3> QED
      BY <3>2 DEF Addressed
  <2>2. CASE Simulate(s) \/ PostTaken(s)
    <3>1. Notice(s).debtor \in Debtors /\ UNCHANGED unclear
      BY <2>1, <2>2 DEF Simulate, PostTaken
    <3>2. UNCHANGED copies \/ Out(Notice(s))
      BY <2>2, Zenon DEF Simulate, PostTaken
    <3> QED
      BY <1>1, <3>1, <3>2 DEF Out, CountInv
  <2>3. CASE AnswerLost(s)
    BY <1>1, <2>1, <2>3 DEF AnswerLost, CountInv
  <2> QED
    BY <1>2, <1>3, <2>2, <2>3 DEF Dispatch, MissingRecipient, RecordSent, PostRefused,
       DispatchRaises, mailVars
<1> QED
  BY <1>2, <1>3 DEF Next, Run, Start, BatchRaises, AppendRaises, SuppressOptedOut,
     BlockByKillSwitch, QueueForReview, LeaveAlone, DispatchUnattended, Complete,
     SetKillSwitch, Approve, EditContacts, Restart, vars, mailVars

LEMMA InitOnce == Init => OnceInv
<1> SUFFICES ASSUME Init PROVE OnceInv
  OBVIOUS
<1>1. RunInv /\ CountInv
  BY DEF Init, RunInv, CountInv, Senders
<1>2. ASSUME NEW d \in Debtors PROVE OnceFor(d)
  <2>1. ~Somewhere(d) /\ copies[d] = 0 /\ unclear[d] = 0
    BY DEF Init, Somewhere, Waits, Held, Ahead
  <2> QED
    BY <2>1 DEF OnceFor, Somewhere
<1> QED
  BY <1>1, <1>2 DEF OnceInv

(* Within one cooldown a debtor is asked once, whatever failed, restarted, *)
(* was repeated or approved in between; only an answer that was lost may   *)
(* have cost a further copy (decisions are logged before anything is sent, *)
(* strategist.py; a failed approval is put back, operator.py).             *)
THEOREM OneAskEach == Spec => []AskedOnce
<1>1. OnceInv => AskedOnce
  BY DEF OnceInv, OnceFor, AskedOnce
<1>2. AddressInv /\ OnceInv /\ [Next]_vars => OnceInv'
  BY NextRun, NextCount, NextOnceFor DEF OnceInv
<1> QED
  BY <1>1, <1>2, InitAddressed, NextAddressed, InitOnce, PTL DEF Spec
-----------------------------------------------------------------------------
(***************************************************************************)
(* A run accounts for the whole book (TotalsMatch).  What it has counted   *)
(* is compared with the debtors it has come past.                          *)
(***************************************************************************)
OptedOut(rows, n) == {d \in 1..n : rows[d].opted}

Silent(rows, p, n) ==
    {d \in 1..n : p[d].channel = "none" /\ ~p[d].review /\ ~rows[d].opted}

Counted == tally.dispatched + tally.queued + tally.suppressed + tally.blocked

Tallies ==
    /\ tally \in [dispatched : Nat, queued : Nat, suppressed : Nat, blocked : Nat]
    /\ did \in [queued : Nat, dispatched : Nat]
    /\ tally.dispatched = did.dispatched
    /\ tally.queued = did.queued

Past ==
    /\ at \in 1..(Size + 1)
    /\ Len(plan) = Size
    /\ tally.suppressed = Cardinality(OptedOut(row, at - 1))
    /\ Counted <= at - 1
    /\ at - 1 - Counted <= Cardinality(Silent(row, plan, at - 1))

(* Whom the run dispatches to did not opt out, and can be reached. *)
UnderWay ==
    job["run"] # NoJob =>
        /\ phase = "acting" /\ at <= Size
        /\ ~row[at].opted
        /\ ~NoTarget(Notice("run"))

TotalInv ==
    /\ Tallies
    /\ UnderWay
    /\ phase = "acting" => Past
    /\ phase # "acting" => at = 1 /\ tally = Zero /\ did = Nothing

(* One debtor further, the sets grow by that debtor or not at all. *)
LEMMA OneFurther ==
    ASSUME NEW n \in Nat \ {0}
    PROVE  /\ Cardinality(OptedOut(row, n)) \in Nat /\ Cardinality(OptedOut(row, n - 1)) \in Nat
           /\ Cardinality(Silent(row, plan, n)) \in Nat
           /\ Cardinality(Silent(row, plan, n - 1)) \in Nat
           /\ row[n].opted =>
                /\ Cardinality(OptedOut(row, n)) = Cardinality(OptedOut(row, n - 1)) + 1
                /\ Cardinality(Silent(row, plan, n)) = Cardinality(Silent(row, plan, n - 1))
           /\ ~row[n].opted =>
                /\ Cardinality(OptedOut(row, n)) = Cardinality(OptedOut(row, n - 1))
                /\ Cardinality(Silent(row, plan, n)) >= Cardinality(Silent(row, plan, n - 1))
           /\ ~row[n].opted /\ plan[n].channel = "none" /\ ~plan[n].review =>
                Cardinality(Silent(row, plan, n)) = Cardinality(Silent(row, plan, n - 1)) + 1
<1>1. /\ IsFiniteSet(1..n) /\ IsFiniteSet(1..(n - 1))
      /\ OptedOut(row, n) \subseteq 1..n /\ OptedOut(row, n - 1) \subseteq 1..(n - 1)
      /\ Silent(row, plan, n) \subseteq 1..n /\ Silent(row, plan, n - 1) \subseteq 1..(n - 1)
  BY FS_Interval DEF OptedOut, Silent
<1>2. /\ IsFiniteSet(OptedOut(row, n)) /\ IsFiniteSet(OptedOut(row, n - 1))
      /\ IsFiniteSet(Silent(row, plan, n)) /\ IsFiniteSet(Silent(row, plan, n - 1))
  BY <1>1, FS_Subset
<1>3. n \notin OptedOut(row, n - 1) /\ n \notin Silent(row, plan, n - 1)
  BY <1>1
<1>4. row[n].opted => OptedOut(row, n) = OptedOut(row, n - 1) \cup {n}
  BY DEF OptedOut
<1>5. ~row[n].opted => OptedOut(row, n) = OptedOut(row, n - 1)
  BY DEF OptedOut
<1>6. row[n].opted => Silent(row, plan, n) = Silent(row, plan, n - 1)
  BY DEF Silent
<1>7. ~row[n].opted /\ plan[n].channel = "none" /\ ~plan[n].review =>
        Silent(row, plan, n) = Silent(row, plan, n - 1) \cup {n}
  BY DEF Silent
<1>8. Silent(row, plan, n - 1) \subseteq Silent(row, plan, n)
  BY DEF Silent
<1>9. Cardinality(Silent(row, plan, n)) >= Cardinality(Silent(row, plan, n - 1))
  BY <1>2, <1>8, FS_Subset, FS_CardinalityType
<1>10. /\ Cardinality(OptedOut(row, n - 1) \cup {n}) = Cardinality(OptedOut(row, n - 1)) + 1
       /\ Cardinality(Silent(row, plan, n - 1) \cup {n}) = Cardinality(Silent(row, plan, n - 1)) + 1
  BY <1>2, <1>3, FS_AddElement
<1> QED
  BY <1>2, <1>4, <1>5, <1>6, <1>7, <1>9, <1>10, FS_CardinalityType

LEMMA NothingCounted ==
    ASSUME tally = Zero, did = Nothing
    PROVE  Tallies /\ Counted = 0
BY DEF Tallies, Counted, Zero, Nothing

(* The run's bookkeeping of one decision: which counter, if any, is raised. *)
LEMMA OneMore ==
    ASSUME Tallies, Past, at <= Size, Advance, UNCHANGED row, Tallies',
           \/ /\ row[at].opted
              /\ tally'.suppressed = tally.suppressed + 1
              /\ Counted' = Counted + 1
           \/ /\ ~row[at].opted
              /\ tally'.suppressed = tally.suppressed
              /\ Counted' = Counted + 1
           \/ /\ ~row[at].opted /\ plan[at].channel = "none" /\ ~plan[at].review
              /\ tally'.suppressed = tally.suppressed
              /\ Counted' = Counted
    PROVE  Past'
<1>1. at \in Nat \ {0} /\ at' = at + 1 /\ plan' = plan /\ Size \in Nat /\ at' - 1 = at
  BY OutboundAssumption DEF Past, Advance
<1>2. Counted \in Int /\ Counted' \in Int /\ tally.suppressed \in Int
  BY DEF Tallies, Counted
<1> DEFINE out == Cardinality(OptedOut(row, at))
           out0 == Cardinality(OptedOut(row, at - 1))
           mute == Cardinality(Silent(row, plan, at))
           mute0 == Cardinality(Silent(row, plan, at - 1))
<1>3. tally.suppressed = out0 /\ Counted <= at - 1 /\ at - 1 - Counted <= mute0
  BY DEF Past
<1>4. /\ out \in Nat /\ out0 \in Nat /\ mute \in Nat /\ mute0 \in Nat
      /\ row[at].opted => out = out0 + 1 /\ mute = mute0
      /\ ~row[at].opted => out = out0 /\ mute >= mute0
      /\ ~row[at].opted /\ plan[at].channel = "none" /\ ~plan[at].review => mute = mute0 + 1
  BY <1>1, OneFurther
<1> HIDE DEF out, out0, mute, mute0
<1>5. tally'.suppressed = out /\ Counted' <= at /\ at - Counted' <= mute
  BY <1>1, <1>2, <1>3, <1>4
<1>6. /\ out = Cardinality(OptedOut(row, at - 1))'
      /\ mute = Cardinality(Silent(row, plan, at - 1))'
  BY <1>1 DEF out, mute
<1> QED
  BY <1>1, <1>5, <1>6 DEF Past

(* What does not count is a run that stops, one that starts, and a step    *)
(* the run has no part in.                                                 *)
LEMMA StopCounts == GiveUp /\ job'["run"] = NoJob => TotalInv'
<1> SUFFICES ASSUME GiveUp, job'["run"] = NoJob PROVE TotalInv'
  OBVIOUS
<1>1. phase' = "idle" /\ at' = 1 /\ tally' = Zero /\ did' = Nothing
  BY Zenon DEF GiveUp
<1>2. phase' # "acting"
  BY <1>1
<1>3. Tallies'
  BY <1>1 DEF Tallies, Zero, Nothing
<1>4. UnderWay'
  BY Zenon DEF UnderWay
<1> QED
  BY <1>1, <1>2, <1>3, <1>4, Zenon DEF TotalInv

LEMMA StartCounts ==
    ASSUME TotalInv, Start
    PROVE  TotalInv'
<1>1. /\ phase = "idle" /\ at = 1 /\ tally = Zero /\ did = Nothing
      /\ UNCHANGED <<row, at, tally, did, job>> /\ phase' = "acting"
  <2>1. phase = "idle" /\ phase' = "acting"
    BY Zenon DEF Start
  <2> QED
    BY <2>1 DEF Start, TotalInv, bookVars
<1>2. job["run"] = NoJob /\ Tallies
  BY <1>1 DEF TotalInv, UnderWay
<1>3. Tallies' /\ UnderWay' /\ at' = 1 /\ Counted' = 0 /\ tally'.suppressed = 0
  BY <1>1, <1>2 DEF Tallies, UnderWay, Counted, Zero
<1>4. Len(plan') = Size
  <2>1. plan' \in [1..Size -> Decisions \cup {Suppressed}]
    BY DEF Start, Plans
  <2>2. plan' \in Seq(Decisions \cup {Suppressed}) /\ DOMAIN plan' = 1..Size
    BY <2>1, OutboundAssumption
  <2>3. Len(plan') \in Nat /\ DOMAIN plan' = 1..Len(plan')
    BY <2>2
  <2> QED
    BY <2>2, <2>3, OutboundAssumption
<1>5. OptedOut(row', 0) = {} /\ Silent(row', plan', 0) = {}
  BY DEF OptedOut, Silent
<1>6. Past'
  <2>1. at' - 1 = 0
    BY <1>3
  <2>2. (/\ Cardinality(OptedOut(row, at - 1)) = 0
         /\ Cardinality(Silent(row, plan, at - 1)) = 0)'
    BY <1>5, <2>1, FS_EmptySet
  <2> QED
    BY <1>3, <1>4, <2>1, <2>2, OutboundAssumption DEF Past
<1>7. phase' = "acting"
  BY <1>1
<1> QED
  BY <1>3, <1>6, <1>7 DEF TotalInv

LEMMA StaysCounted ==
    ASSUME TotalInv, UNCHANGED <<row, runVars>>, job'["run"] \in {NoJob, job["run"]}
    PROVE  TotalInv'
<1>1. Tallies' <=> Tallies
  BY DEF Tallies, runVars
<1>2. Past' <=> Past
  BY DEF Past, Counted, runVars
<1>3. UnderWay'
  BY DEF TotalInv, UnderWay, Notice, NoTarget, runVars
<1> QED
  BY <1>1, <1>2, <1>3 DEF TotalInv, runVars

(* The decisions that reach nobody at once, and the one that is taken up.  *)
LEMMA DecisionCounts ==
    ASSUME AddressInv, TotalInv,
           SuppressOptedOut \/ BlockByKillSwitch \/ QueueForReview \/ LeaveAlone
    PROVE  TotalInv'
<1>1. /\ Acting /\ phase = "acting" /\ at <= Size /\ job["run"] = NoJob
      /\ Advance /\ UNCHANGED <<row, job>> /\ phase' = "acting"
  BY DEF SuppressOptedOut, BlockByKillSwitch, QueueForReview, LeaveAlone, Allowed,
         Acting, Advance, bookVars
<1>2. Tallies /\ Past
  BY <1>1 DEF TotalInv
<1>3. UnderWay'
  BY <1>1 DEF UnderWay
<1>4. CASE SuppressOptedOut
  <2>1. /\ Tallies' /\ row[at].opted /\ tally'.suppressed = tally.suppressed + 1
        /\ Counted' = Counted + 1
    BY <1>2, <1>4 DEF SuppressOptedOut, Tally, Tallies, Counted
  <2> QED
    BY <1>1, <1>2, <1>3, <2>1, OneMore DEF TotalInv
<1>5. CASE BlockByKillSwitch
  <2>1. /\ Tallies' /\ ~row[at].opted /\ tally'.suppressed = tally.suppressed
        /\ Counted' = Counted + 1
    BY <1>2, <1>5 DEF BlockByKillSwitch, Tally, Tallies, Counted
  <2> QED
    BY <1>1, <1>2, <1>3, <2>1, OneMore DEF TotalInv
<1>6. CASE QueueForReview
  <2>1. /\ ~row[at].opted /\ Tally("queued")
        /\ did' = [did EXCEPT !.queued = did.queued + 1]
    BY <1>6, Zenon DEF QueueForReview, Allowed
  <2>2. /\ Tallies' /\ tally'.suppressed = tally.suppressed
        /\ Counted' = Counted + 1
    BY <1>2, <2>1 DEF Tally, Tallies, Counted
  <2> QED
    BY <1>1, <1>2, <1>3, <2>1, <2>2, OneMore DEF TotalInv
<1>7. CASE LeaveAlone
  <2>1. /\ Tallies' /\ ~row[at].opted /\ tally'.suppressed = tally.suppressed
        /\ plan[at].channel = "none" /\ ~plan[at].review
        /\ Counted' = Counted
    BY <1>2, <1>7 DEF LeaveAlone, Allowed, Tallies, Counted
  <2> QED
    BY <1>1, <1>2, <1>3, <2>1, OneMore DEF TotalInv
<1> QED
  BY <1>4, <1>5, <1>6, <1>7

LEMMA TakenUpCounts ==
    ASSUME AddressInv, TotalInv, DispatchUnattended
    PROVE  TotalInv'
<1>1. /\ Acting /\ phase = "acting" /\ at <= Size /\ ~row[at].opted
      /\ ~MissingContact(Draft) /\ UNCHANGED <<row, runVars>>
  BY DEF DispatchUnattended, Allowed, Acting, bookVars
<1>2. job'["run"].notice = Draft
  BY DEF DispatchUnattended, AddressInv, Senders
<1>3. ~NoTarget(Notice("run"))'
  BY <1>1, <1>2 DEF NoTarget, MissingContact, Notice
<1>4. UnderWay'
  BY <1>1, <1>3 DEF UnderWay, runVars
<1>5. Tallies' /\ Past'
  BY <1>1 DEF TotalInv, Tallies, Past, Counted, runVars
<1>6. phase' = "acting"
  BY <1>1 DEF runVars
<1> QED
  BY <1>4, <1>5, <1>6 DEF TotalInv

LEMMA DispatchCounts ==
    ASSUME AddressInv, TotalInv, NEW s \in Senders, Dispatch(s)
    PROVE  TotalInv'
<1>1. UNCHANGED row
  BY DEF Dispatch, MissingRecipient, Simulate, PostTaken, RecordSent, AnswerLost,
         PostRefused, DispatchRaises, bookVars
<1>2. job[s] # NoJob
  <2>1. DispatchRaises(s) \/ job[s].stage = "ready" \/ job[s].stage = "taken"
    BY DEF Dispatch, MissingRecipient, Simulate, PostTaken, RecordSent, AnswerLost,
           PostRefused
  <2> QED
    BY <2>1, StagedIsJob DEF DispatchRaises
<1>3. CASE s = "operator"
  <2>1. UNCHANGED runVars /\ job'["run"] = job["run"]
    BY <1>3 DEF Dispatch, MissingRecipient, Simulate, PostTaken, RecordSent, AnswerLost,
           PostRefused, DispatchRaises, Return, AddressInv, Senders
  <2> QED
    BY <1>1, <2>1, StaysCounted
<1>4. CASE s = "run" /\ \E success \in BOOLEAN : Return(s, success)
  <2>1. /\ Tally("dispatched") /\ Advance /\ job'["run"] = NoJob
        /\ did' = IF NoTarget(Notice("run")) THEN did
                  ELSE [did EXCEPT !.dispatched = did.dispatched + 1]
    BY <1>4 DEF Return, AddressInv
  <2>2. phase = "acting" /\ at <= Size /\ ~row[at].opted /\ ~NoTarget(Notice("run"))
    BY <1>2, <1>4 DEF TotalInv, UnderWay
  <2>3. Tallies /\ Past
    BY <2>2 DEF TotalInv
  <2>4. /\ Tallies' /\ tally'.suppressed = tally.suppressed
        /\ Counted' = Counted + 1
    BY <2>1, <2>2, <2>3 DEF Tally, Tallies, Counted
  <2>5. Past'
    BY <1>1, <2>1, <2>2, <2>3, <2>4, OneMore
  <2>6. UnderWay'
    BY <2>1 DEF UnderWay
  <2> QED
    BY <2>4, <2>5, <2>6, <2>1, <2>2 DEF TotalInv, Advance
<1>5. CASE s = "run" /\ PostTaken(s)
  <2>1. UNCHANGED runVars /\ job'["run"] # NoJob /\ Notice("run")' = Notice("run")
    BY <1>2, <1>5 DEF PostTaken, AddressInv, Jobs, NoJob, Notice, Senders
  <2>2. UnderWay'
    BY <1>1, <1>2, <1>5, <2>1 DEF TotalInv, UnderWay, runVars, NoTarget
  <2> QED
    BY <1>1, <2>1, <2>2 DEF TotalInv, Tallies, Past, Counted, runVars
<1>6. CASE s = "run" /\ DispatchRaises(s)
  BY <1>6, StopCounts DEF DispatchRaises, AddressInv, Senders
<1>7. (\E success \in BOOLEAN : Return(s, success)) \/ PostTaken(s) \/ DispatchRaises(s)
  BY DEF Dispatch, MissingRecipient, Simulate, RecordSent, AnswerLost, PostRefused
<1> QED
  BY <1>3, <1>4, <1>5, <1>6, <1>7 DEF Senders

LEMMA NextCounts == AddressInv /\ TotalInv /\ [Next]_vars => TotalInv'
<1> SUFFICES ASSUME AddressInv, TotalInv, [Next]_vars PROVE TotalInv'
  OBVIOUS
<1>1. ASSUME NEW n \in 0..(Size - 1), BatchRaises(n) PROVE TotalInv'
  BY <1>1, StaysCounted DEF BatchRaises, bookVars
<1>2. CASE AppendRaises \/ Complete
  <2>1. job'["run"] = NoJob
    <3>1. CASE AppendRaises
      BY <3>1 DEF AppendRaises
    <3>2. CASE Complete
      BY <3>2, OutboundAssumption DEF Complete, TotalInv, UnderWay, AddressInv, PlanInv
    <3> QED
      BY <1>2, <3>1, <3>2
  <2> QED
    BY <1>2, <2>1, StopCounts DEF AppendRaises, Complete
<1>3. CASE Restart
  BY <1>3, StopCounts DEF Restart, Senders
<1>4. ASSUME NEW i \in DOMAIN queue, Approve(i) PROVE TotalInv'
  BY <1>4, StaysCounted DEF Approve, bookVars, AddressInv, Senders
<1>5. CASE SetKillSwitch \/ EditContacts \/ UNCHANGED vars
  BY <1>5, StaysCounted DEF SetKillSwitch, EditContacts, vars, bookVars
<1>6. ASSUME NEW s \in Senders, Dispatch(s) PROVE TotalInv'
  BY <1>6, DispatchCounts
<1>7. CASE Run
  BY <1>1, <1>2, <1>7, StartCounts, DecisionCounts, TakenUpCounts DEF Run
<1> QED
  BY <1>3, <1>4, <1>5, <1>6, <1>7 DEF Next

(* Whatever the operator, the contacts file and failures do meanwhile, a   *)
(* run that comes to its end has accounted for each debtor it decided      *)
(* (execute_recovery_pipeline's counters, pipeline.py:168).                *)
THEOREM AllAccountedFor == Spec => []TotalsMatch
<1>1. Init => TotalInv
  <2> SUFFICES ASSUME Init PROVE TotalInv
    OBVIOUS
  <2>1. phase = "idle" /\ at = 1 /\ tally = Zero /\ did = Nothing /\ job["run"] = NoJob
    BY DEF Init, Senders
  <2>2. Tallies /\ UnderWay /\ phase # "acting"
    BY <2>1, NothingCounted DEF UnderWay
  <2> QED
    BY <2>1, <2>2 DEF TotalInv
<1>2. TotalInv => TotalsMatch
  <2> SUFFICES ASSUME TotalInv PROVE TotalsMatch
    OBVIOUS
  <2>1. tally.dispatched = did.dispatched /\ tally.queued = did.queued
    BY DEF TotalInv, Tallies
  <2>2. ASSUME phase = "acting", at > Size
        PROVE  /\ tally.suppressed = Cardinality(OptedOut(row, Size))
               /\ Counted <= Len(plan)
               /\ Len(plan) - Counted <= Cardinality(Silent(row, plan, Size))
    <3>1. at - 1 = Size
      BY <2>2, OutboundAssumption DEF TotalInv, Past
    <3> QED
      BY <2>2, <3>1 DEF TotalInv, Past
  <2>3. OptedOut(row, Size) = {d \in Debtors : row[d].opted}
    BY DEF OptedOut, Debtors
  <2>4. Silent(row, plan, Size) = {d \in Debtors : plan[d].channel = "none" /\ ~plan[d].review}
                       \ {d \in Debtors : row[d].opted}
    BY DEF Silent, Debtors
  <2> QED
    BY <2>1, <2>2, <2>3, <2>4 DEF TotalsMatch, Counted
<1> QED
  BY <1>1, <1>2, InitAddressed, NextAddressed, NextCounts, PTL DEF Spec
================================================================================
