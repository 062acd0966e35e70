---------------------------- MODULE PromiseProofs ----------------------------
(***************************************************************************)
(* Why promising again and again cannot hold recovery off: whatever the    *)
(* door answers and however often it forgets, each window the fold counts  *)
(* pays for at most Horizon + 1 days.                                      *)
(***************************************************************************)
EXTENDS PromiseDoor, TLAPS

(* The windows that were honoured: the fold counts one more to refuse. *)
Used == IF opened > MaxWindows THEN MaxWindows ELSE opened

ClockOK ==
    /\ today \in Nat
    /\ due \in Int
    /\ opened \in 0..(MaxWindows + 1)
    /\ held \in Nat
    /\ carried \in Nat
    /\ ask \in [Threads -> Int]

(* No request carries a date beyond the horizon. *)
AskInv == \A t \in Threads : ask[t] <= today + Horizon

(* The days spared so far and those the running promise still has are paid *)
(* for by the windows opened and by what the last settlement left running. *)
DaysInv == held + DaysLeft <= Used * (Horizon + 1) + carried

HoldInv == ClockOK /\ AskInv /\ DaysInv

-----------------------------------------------------------------------------
(* One more window is worth Horizon + 1 days. *)
LEMMA OneWindowMore ==
    ASSUME NEW n \in Nat
    PROVE  (n + 1) * (Horizon + 1) = n * (Horizon + 1) + Horizon + 1
  BY BoundsAssumption, FoldAssumption, SMT

(* Fewer windows are worth no more days. *)
LEMMA WindowsMonotone ==
    ASSUME NEW n \in Nat, NEW m \in Nat, n <= m
    PROVE  n * (Horizon + 1) <= m * (Horizon + 1)
<1> DEFINE k == m - n
<1>1. k \in Nat /\ m = n + k
  OBVIOUS
<1>2. m * (Horizon + 1) = n * (Horizon + 1) + k * (Horizon + 1)
  BY <1>1, BoundsAssumption, FoldAssumption, SMT
<1>3. k * (Horizon + 1) \in Nat /\ n * (Horizon + 1) \in Nat
  BY <1>1, BoundsAssumption, FoldAssumption, SMT
<1> QED
  BY <1>2, <1>3

LEMMA HoldInit == Init => HoldInv
  BY BoundsAssumption, FoldAssumption DEF Init, NothingPromised, HoldInv, ClockOK, AskInv, DaysInv,
     DaysLeft, FoldRunning, Used, NoDate

(* Folding a promise whose date is within the horizon keeps the account. *)
LEMMA FoldKeepsDays ==
    ASSUME HoldInv, NEW i, NEW d \in Int, d <= today + Horizon,
           FoldPromise(i, d), today' = today, UNCHANGED historyVars
    PROVE  /\ due' \in Int
           /\ opened' \in 0..(MaxWindows + 1)
           /\ DaysInv'
<1> USE BoundsAssumption, FoldAssumption
<1>1. CASE FoldRunning
  BY <1>1 DEF HoldInv, ClockOK, DaysInv, FoldPromise, FoldRunning, DaysLeft, Extends,
     Used, historyVars
<1>2. CASE ~FoldRunning
  <2>1. opened' = Counted
    BY <1>2 DEF FoldPromise
  <2>2. opened' \in 0..(MaxWindows + 1)
    BY <2>1 DEF Counted, HoldInv, ClockOK
  <2>3. CASE OverBudget(Counted)
    <3>1. due' = due
      BY <1>2, <2>3 DEF FoldPromise
    <3>2. Used' = MaxWindows /\ DaysLeft' = 0
      BY <1>2, <2>1, <2>3, <3>1 DEF OverBudget, Used, DaysLeft, FoldRunning, HoldInv, ClockOK
    <3>3. Used * (Horizon + 1) <= MaxWindows * (Horizon + 1)
      BY WindowsMonotone DEF Used, HoldInv, ClockOK
    <3>4. Used * (Horizon + 1) \in Nat /\ MaxWindows * (Horizon + 1) \in Nat
      BY SMT DEF Used, HoldInv, ClockOK
    <3>5. held <= Used * (Horizon + 1) + carried
      BY <1>2 DEF HoldInv, ClockOK, DaysInv, DaysLeft
    <3> QED
      BY <2>2, <3>1, <3>2, <3>3, <3>4, <3>5 DEF DaysInv, HoldInv, ClockOK, historyVars
  <2>4. CASE ~OverBudget(Counted)
    <3>1. due' = d
      BY <1>2, <2>4 DEF FoldPromise
    <3>2. Used' = Used + 1 /\ Used \in Nat
      BY <2>1, <2>4 DEF OverBudget, Counted, Used, HoldInv, ClockOK
    <3>3. DaysLeft' <= Horizon + 1 /\ DaysLeft' \in Nat
      BY <3>1 DEF DaysLeft, FoldRunning, HoldInv, ClockOK
    <3>4. held <= Used * (Horizon + 1) + carried
      BY <1>2 DEF HoldInv, ClockOK, DaysInv, DaysLeft
    <3>5. Used' * (Horizon + 1) = Used * (Horizon + 1) + Horizon + 1
      BY <3>2, OneWindowMore
    <3>6. Used * (Horizon + 1) \in Nat
      BY <3>2, SMT
    <3> QED
      BY <2>2, <3>1, <3>3, <3>4, <3>5, <3>6 DEF DaysInv, HoldInv, ClockOK, historyVars
  <2> QED
    BY <2>3, <2>4
<1> QED
  BY <1>1, <1>2

LEMMA HoldStep == HoldInv /\ [Next]_vars => HoldInv'
<1> SUFFICES ASSUME HoldInv, [Next]_vars
             PROVE  HoldInv'
  OBVIOUS
<1> USE BoundsAssumption, FoldAssumption
<1>1. CASE Tick
  <2>1. ClockOK' /\ AskInv'
    BY <1>1 DEF Tick, HoldInv, ClockOK, AskInv, foldVars, requestVars
  <2>2. held' + DaysLeft' = held + DaysLeft
    BY <1>1 DEF Tick, HoldInv, ClockOK, DaysLeft, FoldRunning, foldVars
  <2>3. Used' = Used /\ carried' = carried
    BY <1>1 DEF Tick, Used, foldVars
  <2> QED
    BY <2>1, <2>2, <2>3 DEF HoldInv, DaysInv
<1>2. ASSUME NEW t \in Threads, Request(t)
      PROVE  HoldInv'
  <2>1. ASSUME NEW i \in Invoices, NEW d \in today..(today + Horizon), Submit(t, i, d)
        PROVE  HoldInv'
    BY <2>1 DEF Submit, HoldInv, ClockOK, AskInv, DaysInv, DaysLeft, FoldRunning, Used,
       foldVars, historyVars
  <2>2. CASE Refuse(t)
    BY <2>2 DEF Refuse, Ended, HoldInv, ClockOK, AskInv, DaysInv, DaysLeft, FoldRunning,
       Used, NoDate, foldVars, historyVars
  <2>3. CASE Accept(t)
    BY <2>3 DEF Accept, HoldInv, ClockOK, AskInv, DaysInv, DaysLeft, FoldRunning, Used,
       foldVars, historyVars
  <2>4. CASE Write(t)
    BY <2>4 DEF Write, HoldInv, ClockOK, AskInv, DaysInv, DaysLeft, FoldRunning, Used,
       foldVars, historyVars
  <2>5. CASE Log(t)
    <3>1. ask[t] \in Int /\ ask[t] <= today + Horizon
      BY DEF HoldInv, ClockOK, AskInv
    <3>2. today' = today /\ UNCHANGED historyVars /\ FoldPromise(about[t], ask[t])
      BY <2>5 DEF Log
    <3>3. due' \in Int /\ opened' \in 0..(MaxWindows + 1) /\ DaysInv'
      BY <3>1, <3>2, FoldKeepsDays
    <3>4. ask' \in [Threads -> Int] /\ AskInv'
      BY <2>5 DEF Log, Ended, HoldInv, ClockOK, AskInv, NoDate
    <3> QED
      BY <3>2, <3>3, <3>4 DEF HoldInv, ClockOK, historyVars
  <2> QED
    BY <1>2, <2>1, <2>2, <2>3, <2>4, <2>5 DEF Request
<1>3. ASSUME NEW i \in Invoices, Settle(i)
      PROVE  HoldInv'
  <2>1. AskInv' /\ ask' = ask /\ today' = today /\ held' = 0 /\ opened' = 0
    BY <1>3 DEF Settle, FoldSettlement, HoldInv, AskInv, requestVars
  <2>2. carried' = DaysLeft' /\ due' \in Int /\ carried' \in Nat
    BY <1>3 DEF Settle, FoldSettlement, DaysLeft, FoldRunning, NoDate, HoldInv, ClockOK
  <2>3. Used' * (Horizon + 1) = 0
    BY <2>1 DEF Used
  <2> QED
    BY <2>1, <2>2, <2>3 DEF HoldInv, ClockOK, DaysInv
<1>4. ASSUME NEW i \in Invoices, Dispute(i)
      PROVE  HoldInv'
  BY <1>4 DEF Dispute, HoldInv, ClockOK, AskInv, DaysInv, DaysLeft, FoldRunning, Used,
     foldVars, requestVars, historyVars
<1>5. CASE Restart
  BY <1>5 DEF Restart, HoldInv, ClockOK, AskInv, DaysInv, DaysLeft, FoldRunning, Used,
     NoDate, foldVars, historyVars
<1>6. CASE UNCHANGED vars
  BY <1>6 DEF vars, HoldInv, ClockOK, AskInv, DaysInv, DaysLeft, FoldRunning, Used,
     foldVars, requestVars, historyVars
<1> QED
  BY <1>1, <1>2, <1>3, <1>4, <1>5, <1>6 DEF Next

LEMMA HoldImpliesBound == HoldInv => HoldIsBounded
<1> SUFFICES ASSUME HoldInv
             PROVE  HoldIsBounded
  OBVIOUS
<1> USE BoundsAssumption, FoldAssumption
<1>1. Used \in Nat /\ Used <= MaxWindows /\ DaysLeft \in Nat
  BY DEF HoldInv, ClockOK, Used, DaysLeft, FoldRunning
<1>2. Used * (Horizon + 1) <= MaxWindows * (Horizon + 1)
  BY <1>1, WindowsMonotone
<1>3. Used * (Horizon + 1) \in Nat /\ MaxWindows * (Horizon + 1) \in Nat
  BY <1>1, SMT
<1> QED
  BY <1>1, <1>2, <1>3 DEF HoldInv, ClockOK, DaysInv, HoldIsBounded

(* Between two settlements a debtor is spared for at most MaxWindows       *)
(* windows and the remainder carried over, for every horizon and budget,   *)
(* any number of invoices and requests, and any number of restarts.        *)
THEOREM HoldBounded == Spec => []HoldIsBounded
<1>1. Init => HoldInv
  BY HoldInit
<1>2. HoldInv /\ [Next]_vars => HoldInv'
  BY HoldStep
<1>3. HoldInv => HoldIsBounded
  BY HoldImpliesBound
<1> QED
  BY <1>1, <1>2, <1>3, PTL DEF Spec
-----------------------------------------------------------------------------
(* What the action property needs: a request under way names a real date.  *)
NamedInv ==
    /\ today \in Nat
    /\ status \in [Invoices -> Statuses]
    /\ pc \in [Threads -> PCs]
    /\ ask \in [Threads -> Int]
    /\ \A t \in Threads : pc[t] # "idle" => ask[t] \in Nat

LEMMA NamedInit == Init => NamedInv
  BY DEF Init, NamedInv, Statuses, PCs, NoDate

LEMMA NamedStep == NamedInv /\ [Next]_vars => NamedInv'
<1> SUFFICES ASSUME NamedInv, [Next]_vars
             PROVE  NamedInv'
  OBVIOUS
<1> USE BoundsAssumption, FoldAssumption DEF NamedInv, Statuses, PCs
<1>1. CASE Tick
  BY <1>1 DEF Tick, doorVars, requestVars
<1>2. ASSUME NEW t \in Threads, Request(t)
      PROVE  NamedInv'
  <2>1. ASSUME NEW i \in Invoices, NEW d \in today..(today + Horizon), Submit(t, i, d)
        PROVE  NamedInv'
    BY <2>1 DEF Submit, doorVars
  <2>2. CASE Refuse(t)
    BY <2>2 DEF Refuse, Ended, NoDate, doorVars
  <2>3. CASE Accept(t)
    BY <2>3 DEF Accept
  <2>4. CASE Write(t)
    BY <2>4 DEF Write
  <2>5. CASE Log(t)
    BY <2>5 DEF Log, Ended, NoDate, doorVars
  <2> QED
    BY <1>2, <2>1, <2>2, <2>3, <2>4, <2>5 DEF Request
<1>3. ASSUME NEW i \in Invoices, Settle(i)
      PROVE  NamedInv'
  BY <1>3 DEF Settle, requestVars
<1>4. ASSUME NEW i \in Invoices, Dispute(i)
      PROVE  NamedInv'
  BY <1>4 DEF Dispute, requestVars
<1>5. CASE Restart
  BY <1>5 DEF Restart, NoDate
<1>6. CASE UNCHANGED vars
  BY <1>6 DEF vars, doorVars, requestVars
<1> QED
  BY <1>1, <1>2, <1>3, <1>4, <1>5, <1>6 DEF Next

(* The body of OnlyOwnInvoiceCloses. *)
KeptOrPaid ==
    FoldRunning => \/ due' <= due /\ due' # NoDate
                   \/ due' = NoDate /\ status'[dueOn] \in {"PARTIALLY_PAID", "PAID"}

LEMMA StepKeepsOrPays == NamedInv /\ HoldInv /\ [Next]_vars => KeptOrPaid
<1> SUFFICES ASSUME NamedInv, HoldInv, [Next]_vars, FoldRunning
             PROVE  KeptOrPaid
  BY DEF KeptOrPaid
<1>1. due \in Int /\ due # NoDate
  BY DEF NamedInv, HoldInv, ClockOK, FoldRunning, NoDate
<1>2. CASE due' = due
  BY <1>1, <1>2 DEF KeptOrPaid
<1>3. ASSUME NEW t \in Threads, Log(t)
      PROVE  KeptOrPaid
  <2>1. ask[t] \in Nat
    BY <1>3 DEF Log, NamedInv
  <2> QED
    BY <1>1, <1>3, <2>1 DEF Log, FoldPromise, Extends, KeptOrPaid, NoDate
<1>4. ASSUME NEW i \in Invoices, Settle(i)
      PROVE  KeptOrPaid
  <2>1. CASE ClosedBy(i)
    <3>1. status'[i] \in {"PARTIALLY_PAID", "PAID"}
      BY <1>4 DEF Settle, NamedInv
    <3> QED
      BY <1>4, <2>1, <3>1 DEF Settle, FoldSettlement, ClosedBy, KeptOrPaid
  <2>2. CASE ~ClosedBy(i)
    BY <1>1, <1>4, <2>2 DEF Settle, FoldSettlement, KeptOrPaid
  <2> QED
    BY <2>1, <2>2
<1> QED
  BY <1>2, <1>3, <1>4 DEF Next, Tick, Request, Submit, Refuse, Accept, Write, Dispute,
     Restart, vars, foldVars

(* For any number of invoices, requests and restarts, a running promise    *)
(* ends before its date only when its own invoice is paid on.              *)
THEOREM OwnInvoiceCloses == Spec => OnlyOwnInvoiceCloses
<1>1. NamedInv /\ HoldInv /\ [Next]_vars => [KeptOrPaid]_vars
  BY StepKeepsOrPays
<1> QED
  BY NamedInit, NamedStep, HoldInit, HoldStep, <1>1, PTL
     DEF Spec, OnlyOwnInvoiceCloses, KeptOrPaid
=============================================================================
