------------------------------ MODULE ClockProofs ------------------------------
(***************************************************************************)
(* What StatutoryClock promises, for every ledger, supplier and calendar:  *)
(* a stopped clock was stopped by an objection in time, and a letter       *)
(* demands only what the ledger bills.                                     *)
(***************************************************************************)
EXTENDS StatutoryClock, SumProofs, TLAPS

(* The ledger and the captures of an invoice. *)
LEMMA ProjectRow ==
  ASSUME NEW p \in [Invoices -> Nat], NEW i \in Invoices, ledger \in Ledgers
  PROVE  Balance(Project(ledger, p)[i]) = Balance(ledger[i]) - p[i]
<1>1. ledger[i] \in LedgerRow /\ p[i] \in Nat /\ DOMAIN ledger = Invoices
  BY LedgerAssumption
<1>2. CASE p[i] = 0
  BY <1>1, <1>2 DEF Project, Balance, LedgerRow
<1>3. CASE p[i] # 0
  <2> DEFINE credited == [ledger[i] EXCEPT !.received = ledger[i].received + p[i]]
  <2> DEFINE s == IF Balance(credited) <= 0 THEN "PAID" ELSE "PARTIALLY_PAID"
  <2>1. Project(ledger, p)[i] = [credited EXCEPT !.state = s]
    BY <1>1, <1>3 DEF Project
  <2>2. QED
    BY <1>1, <2>1 DEF Balance, LedgerRow
<1>4. QED
  BY <1>2, <1>3

-----------------------------------------------------------------------------
(* The values of every variable; Settlement and Strategist bound the rest. *)
ClockType ==
    /\ today \in Days
    /\ ledger \in Ledgers
    /\ status \in [Invoices -> {"OVERDUE", "DISPUTED", "PARTIALLY_PAID", "PAID"}]
    /\ suspended \in [Invoices -> BOOLEAN]
    /\ objected \in [Invoices -> [first : Days \cup {NoDate}, last : Days \cup {NoDate}]]
    /\ paid \in [Invoices -> Nat]
    /\ \A i \in Invoices : paid[i] <= Balance(ledger[i])

(* A clock stands still exactly when the last objection to its invoice was *)
(* raised in time; objections are dated in the order they were raised.     *)
ObjectionInv ==
    \A i \in Invoices : objected[i].first # NoDate =>
        /\ objected[i].first <= objected[i].last
        /\ objected[i].last \in Days /\ objected[i].last <= today
        /\ suspended[i] <=> Counts(ledger[i].delivery, objected[i].last)

ClockInv == ClockType /\ ObjectionInv

LEMMA RowsIn ==
  ASSUME ledger \in Ledgers, NEW i \in Invoices
  PROVE  ledger[i] \in LedgerRow /\ DOMAIN ledger = Invoices /\ Balance(ledger[i]) >= 0
  BY LedgerAssumption

LEMMA ClockInit == Init => ClockInv
<1> SUFFICES ASSUME Init PROVE ClockInv
  OBVIOUS
<1>1. Days \in SUBSET Nat /\ Days # {}
  BY ClockAssumption
<1>2. Min(Days) \in Days
  BY <1>1, LeastNatural DEF Min
<1>3. \A rows \in Ledgers, i \in Invoices : Balance(rows[i]) >= 0
  BY LedgerAssumption
<1>4. QED
  BY <1>2, <1>3 DEF Init, ClockInv, ClockType, ObjectionInv

LEMMA ClockStep == ClockInv /\ [Next]_vars => ClockInv'
<1> SUFFICES ASSUME ClockInv, [Next]_vars PROVE ClockInv'
  OBVIOUS
<1> USE DEF ClockInv, ClockType, ObjectionInv
<1>1. Days \in SUBSET Nat
  BY ClockAssumption
<1>2. CASE Pass
  <2>1. /\ today' \in Days /\ today < today'
        /\ UNCHANGED <<ledger, status, suspended, objected, paid>>
    BY <1>2 DEF Pass, portalVars, facts
  <2>2. ASSUME NEW i \in Invoices, objected[i].first # NoDate
        PROVE  objected[i].last <= today'
    <3>1. objected[i].last \in Nat /\ today \in Nat /\ today' \in Nat
      BY <1>1, <2>1, <2>2
    <3>2. QED
      BY <2>1, <2>2, <3>1
  <2>3. QED
    BY <2>1, <2>2
<1>3. ASSUME NEW i \in Invoices, RaiseDispute(i) PROVE ClockInv'
  <2>1. ledger[i].delivery \in Nat
    BY RowsIn DEF LedgerRow
  <2>2. today \in Nat /\ today # NoDate
    BY <1>1 DEF NoDate
  <2>3. Acceptance(ledger[i].delivery, today, NoDate) = NoDate
          <=> Counts(ledger[i].delivery, today)
    <3>1. ledger[i].delivery # NoDate
      BY <2>1 DEF NoDate
    <3>2. CASE Counts(ledger[i].delivery, today)
      BY <2>2, <3>2 DEF Acceptance
    <3>3. CASE ~Counts(ledger[i].delivery, today)
      BY <3>1, <3>3 DEF Acceptance
    <3>4. QED
      BY <3>2, <3>3
  <2>4. ASSUME objected[i].first # NoDate PROVE objected[i].first <= today
    <3>1. objected[i].first \in Nat /\ objected[i].last \in Nat
      BY <1>1, <2>4
    <3>2. QED
      BY <2>2, <2>4, <3>1
  <2>5. /\ suspended' \in [Invoices -> BOOLEAN]
        /\ suspended'[i] <=> Counts(ledger[i].delivery, today)
        /\ \A j \in Invoices \ {i} : suspended'[j] = suspended[j]
    BY <1>3, <2>3 DEF RaiseDispute
  <2>6. /\ objected' \in [Invoices -> [first : Days \cup {NoDate}, last : Days \cup {NoDate}]]
        /\ objected'[i].last = today
        /\ objected'[i].first <= today
        /\ \A j \in Invoices \ {i} : objected'[j] = objected[j]
    BY <1>3, <2>2, <2>4 DEF RaiseDispute
  <2>7. UNCHANGED <<today, ledger, paid>>
    BY <1>3 DEF RaiseDispute, facts
  <2>8. status' \in [Invoices -> {"OVERDUE", "DISPUTED", "PARTIALLY_PAID", "PAID"}]
    BY <1>3 DEF RaiseDispute
  <2>9. ObjectionInv'
    BY <2>2, <2>5, <2>6, <2>7
  <2>10. QED
    BY <2>5, <2>6, <2>7, <2>8, <2>9
<1>4. ASSUME NEW i \in Invoices, OpenOrder(i) PROVE ClockInv'
  BY <1>4 DEF OpenOrder, facts
<1>5. ASSUME NEW i \in Invoices, NEW amount \in Payments, Capture(i, amount)
      PROVE  ClockInv'
  <2>1. amount \in Nat /\ paid[i] \in Nat /\ Balance(ledger[i]) \in Int
    BY ClockAssumption, RowsIn DEF Balance, LedgerRow
  <2>2. amount <= Balance(ledger[i]) - paid[i]
    BY <1>5, ProjectRow, RowsIn DEF Capture, Live
  <2>3. /\ paid' = [paid EXCEPT ![i] = paid[i] + amount]
        /\ UNCHANGED <<today, ledger, suspended, objected>>
    BY <1>5 DEF Capture, facts
  <2>4. paid' \in [Invoices -> Nat] /\ \A j \in Invoices : paid'[j] <= Balance(ledger[j])
    BY <2>1, <2>2, <2>3
  <2>5. status' \in [Invoices -> {"OVERDUE", "DISPUTED", "PARTIALLY_PAID", "PAID"}]
    BY <1>5 DEF Capture
  <2>6. QED
    BY <2>3, <2>4, <2>5
<1>6. ASSUME NEW ask \in Asks, Escalate(ask) PROVE ClockInv'
  BY <1>6 DEF Escalate, portalVars, facts
<1>7. CASE UNCHANGED vars
  BY <1>7 DEF vars, portalVars, facts
<1>8. QED
  BY <1>2, <1>3, <1>4, <1>5, <1>6, <1>7 DEF Next

LEMMA ClockInvHolds == Spec => []ClockInv
  BY ClockInit, ClockStep, PTL DEF Spec

(* The clock of an invoice objected to too late never stops, and one last  *)
(* objected to in time stands still: what raise_dispute writes agrees with *)
(* the dates of the objections, whatever else happens at the portal.       *)
THEOREM SuspensionIsEarnedHolds == Spec => []SuspensionIsEarned
<1>1. ClockInv => SuspensionIsEarned
  <2> SUFFICES ASSUME ClockInv, NEW i \in Invoices, objected[i].first # NoDate
               PROVE  LET After(day) == day - ledger[i].delivery
                      IN  /\ After(objected[i].first) > ObjectionWindow => ~suspended[i]
                          /\ After(objected[i].last) <= ObjectionWindow => suspended[i]
    BY DEF SuspensionIsEarned
  <2>1. /\ ledger[i].delivery \in Nat /\ ObjectionWindow \in Nat
        /\ objected[i].first \in Nat /\ objected[i].last \in Nat
    BY RowsIn, ClockAssumption, StatuteAssumption
    DEF LedgerRow, ClockInv, ClockType, ObjectionInv
  <2>2. QED
    BY <2>1 DEF ClockInv, ClockType, ObjectionInv, Counts
<1>2. QED
  BY <1>1, ClockInvHolds, PTL
-----------------------------------------------------------------------------
(* Whole rests and the days left over. *)
LEMMA Division ==
  ASSUME NEW n \in Nat, NEW r \in Nat \ {0}
  PROVE  \E q \in Nat, s \in 0..(r - 1) : n = r * q + s /\ n \div r = q /\ n % r = s
<1>1. r * (n \div r) <= n /\ n < r * (n \div r) + r
  OBVIOUS
<1>2. PICK q \in Nat : q = n \div r
  OBVIOUS
<1>3. r * q \in Nat
  OBVIOUS
<1>4. n - r * q \in 0..(r - 1) /\ n = r * q + (n - r * q)
  BY <1>1, <1>2, <1>3
<1>5. PICK s \in 0..(r - 1) : n = r * q + s
  BY <1>4
<1>6. n % r = s
  BY <1>5
<1>7. QED
  BY <1>2, <1>5, <1>6

LEMMA DivisionIs ==
  ASSUME NEW n \in Nat, NEW r \in Nat \ {0}, NEW q \in Nat, NEW s \in 0..(r - 1),
         n = r * q + s
  PROVE  n \div r = q /\ n % r = s
<1>1. n \div r = q
  OBVIOUS
<1>2. n % r = s
  OBVIOUS
<1>3. QED
  BY <1>1, <1>2

LEMMA NextDay ==
  ASSUME NEW n \in Nat, NEW r \in Nat \ {0}
  PROVE  /\ (n % r) + 1 < r => /\ (n + 1) \div r = n \div r
                             /\ (n + 1) % r = (n % r) + 1
         /\ ~((n % r) + 1 < r) => /\ (n + 1) \div r = n \div r + 1
                                /\ (n + 1) % r = 0
<1>1. PICK q \in Nat, s \in 0..(r - 1) : n = r * q + s /\ n \div r = q /\ n % r = s
  BY Division
<1>2. CASE s + 1 < r
  <2>1. s + 1 \in 0..(r - 1) /\ n + 1 = r * q + (s + 1)
    BY <1>1, <1>2
  <2>2. (n + 1) \div r = q /\ (n + 1) % r = s + 1
    BY <2>1, DivisionIs
  <2>3. QED
    BY <1>1, <1>2, <2>2
<1>3. CASE ~(s + 1 < r)
  <2>1. s + 1 = r
    BY <1>3
  <2>2. n + 1 = r * (q + 1) + 0 /\ n + 1 \in Nat /\ q + 1 \in Nat /\ 0 \in 0..(r - 1)
    BY <1>1, <2>1
  <2>3. (n + 1) \div r = q + 1 /\ (n + 1) % r = 0
    BY <2>2, DivisionIs
  <2>4. QED
    BY <1>1, <1>3, <2>3
<1>4. QED
  BY <1>2, <1>3

LEMMA PowerIs ==
  ASSUME NEW b \in Nat
  PROVE  /\ Power(b) \in [Nat -> Nat]
         /\ Power(b)[0] = 1
         /\ \A n \in Nat : Power(b)[n + 1] = b * Power(b)[n]
<1> DEFINE F == [x \in Nat |-> b * x]
<1>1. F \in [Nat -> Nat]
  OBVIOUS
<1>2. PICK g \in [Nat -> Nat] : g[0] = 1 /\ \A n \in Nat : g[n + 1] = F[g[n]]
  <2> HIDE DEF F
  <2>1. 1 \in Nat
    OBVIOUS
  <2>2. QED
    BY <1>1, <2>1, Iterates
<1>3. \A n \in Nat : g[n] = IF n = 0 THEN 1 ELSE b * g[n - 1]
  <2> TAKE n \in Nat
  <2>1. CASE n = 0
    BY <1>2, <2>1
  <2>2. CASE n # 0
    <3>1. n - 1 \in Nat /\ (n - 1) + 1 = n
      BY <2>2
    <3>2. g[(n - 1) + 1] = F[g[n - 1]]
      BY <1>2, <3>1
    <3>3. QED
      BY <2>2, <3>1, <3>2
  <2>3. QED
    BY <2>1, <2>2
<1>4. g = [n \in Nat |-> IF n = 0 THEN 1 ELSE b * g[n - 1]]
  BY <1>3
<1> DEFINE p == CHOOSE h : h = [n \in Nat |-> IF n = 0 THEN 1 ELSE b * h[n - 1]]
<1>5. p = [n \in Nat |-> IF n = 0 THEN 1 ELSE b * p[n - 1]]
  BY <1>4, Zenon
<1>6. Power(b) = p
  BY DEF Power
<1>7. \A n \in Nat : p[n] = IF n = 0 THEN 1 ELSE b * p[n - 1]
  BY <1>5, Zenon
<1>8. DOMAIN p = Nat
  BY <1>5, Zenon
<1> HIDE DEF p
<1>9. p[0] = 1
  BY <1>7
<1>10. \A n \in Nat : p[n + 1] = b * p[n]
  BY <1>7
<1>11. \A n \in Nat : p[n] \in Nat
  <2> DEFINE Good == {n \in Nat : p[n] \in Nat}
  <2>1. 0 \in Good
    BY <1>9
  <2>2. ASSUME NEW n \in Nat, n \in Good PROVE n + 1 \in Good
    BY <1>10, <2>2
  <2>3. Nat \subseteq Good
    <3> HIDE DEF Good
    <3>1. QED
      BY <2>1, <2>2, NaturalsIn
  <2>4. QED
    BY <2>3
<1>12. p \in [Nat -> Nat]
  <2>1. p = [n \in Nat |-> p[n]]
    BY <1>5, <1>8, Zenon
  <2>2. QED
    BY <1>11, <2>1
<1>13. QED
  BY <1>6, <1>9, <1>10, <1>12

LEMMA PowerPositive ==
  ASSUME NEW b \in Nat \ {0}, NEW n \in Nat PROVE Power(b)[n] \in Nat \ {0}
<1> DEFINE Good == {k \in Nat : Power(b)[k] \in Nat \ {0}}
<1>0. b \in Nat /\ Power(b)[0] = 1 /\ \A k \in Nat : Power(b)[k + 1] = b * Power(b)[k]
  <2>1. b \in Nat
    OBVIOUS
  <2>2. QED
    BY <2>1, PowerIs
<1>1. 0 \in Good
  BY <1>0
<1>2. ASSUME NEW k \in Nat, k \in Good PROVE k + 1 \in Good
  <2>1. PICK x \in Nat \ {0} : x = Power(b)[k]
    BY <1>2
  <2>2. b * x \in Nat \ {0}
    OBVIOUS
  <2>3. Power(b)[k + 1] = b * x /\ k + 1 \in Nat
    BY <1>0, <2>1
  <2>4. QED
    BY <2>2, <2>3
<1>3. Nat \subseteq Good
  <2> HIDE DEF Good
  <2>1. QED
    BY <1>1, <1>2, NaturalsIn
<1>4. QED
  BY <1>3

(* The day-by-day count, in closed form: the recursion adds a rest exactly *)
(* when a month is full.                                                   *)
Grown(n) == [num |-> Power(RateDen + 1)[n \div RestDays],
             den |-> Power(RateDen)[n \div RestDays],
             day |-> n % RestDays]

GrownNext(n, before) ==
    IF n = 0 THEN [num |-> 1, den |-> 1, day |-> 0]
    ELSE IF before.day + 1 < RestDays THEN [before EXCEPT !.day = before.day + 1]
         ELSE [num |-> before.num * (RateDen + 1), den |-> before.den * RateDen, day |-> 0]

LEMMA GrownStep == \A n \in Nat : Grown(n) = GrownNext(n, Grown(n - 1))
<1> SUFFICES ASSUME NEW n \in Nat PROVE Grown(n) = GrownNext(n, Grown(n - 1))
  OBVIOUS
<1>1. RestDays \in Nat \ {0} /\ RateDen \in Nat \ {0} /\ RateDen + 1 \in Nat
  BY StatuteAssumption
<1>2. CASE n = 0
  <2>1. 0 = RestDays * 0 + 0 /\ 0 \in 0..(RestDays - 1)
    BY <1>1
  <2>2. 0 \div RestDays = 0 /\ 0 % RestDays = 0
    BY <1>1, <2>1, DivisionIs
  <2>3. QED
    BY <1>1, <1>2, <2>2, PowerIs DEF Grown, GrownNext
<1>3. CASE n # 0
  <2>1. PICK m \in Nat : n = m + 1 /\ n - 1 = m
    BY <1>3
  <2>2. m \div RestDays \in Nat /\ m % RestDays \in Nat
    BY <1>1, Division
  <2>3. CASE (m % RestDays) + 1 < RestDays
    <3>1. n \div RestDays = m \div RestDays /\ n % RestDays = (m % RestDays) + 1
      BY <1>1, <2>1, <2>3, NextDay
    <3>2. QED
      BY <1>3, <2>1, <2>3, <3>1 DEF Grown, GrownNext
  <2>4. CASE ~((m % RestDays) + 1 < RestDays)
    <3>1. n \div RestDays = m \div RestDays + 1 /\ n % RestDays = 0
      BY <1>1, <2>1, <2>4, NextDay
    <3> DEFINE k == m \div RestDays
    <3>2. /\ Power(RateDen)[k + 1] = RateDen * Power(RateDen)[k]
          /\ Power(RateDen + 1)[k + 1] = (RateDen + 1) * Power(RateDen + 1)[k]
      BY <1>1, <2>2, PowerIs
    <3>3. PICK x \in Nat, y \in Nat : x = Power(RateDen + 1)[k] /\ y = Power(RateDen)[k]
      BY <1>1, <2>2, PowerIs
    <3>4. /\ (RateDen + 1) * x = x * (RateDen + 1)
          /\ RateDen * y = y * RateDen
      BY <1>1
    <3>5. Grown(n) = [num |-> x * (RateDen + 1), den |-> y * RateDen, day |-> 0]
      BY <3>1, <3>2, <3>3, <3>4 DEF Grown
    <3>6. Grown(m).num = x /\ Grown(m).den = y /\ Grown(m).day = m % RestDays
      BY <3>3 DEF Grown
    <3>7. QED
      BY <1>3, <2>1, <2>4, <3>5, <3>6 DEF GrownNext
  <2>5. QED
    BY <2>3, <2>4
<1>4. QED
  BY <1>2, <1>3

LEMMA GrownByIs == \A n \in Nat : GrownBy[n] = Grown(n)
<1> DEFINE Closed == [n \in Nat |-> Grown(n)]
<1>1. Closed = [n \in Nat |-> GrownNext(n, Closed[n - 1])]
  <2>1. ASSUME NEW n \in Nat PROVE Grown(n) = GrownNext(n, Closed[n - 1])
    <3>1. CASE n = 0
      BY <3>1, GrownStep DEF GrownNext
    <3>2. CASE n # 0
      <4>1. Closed[n - 1] = Grown(n - 1)
        BY <3>2
      <4>2. QED
        BY <4>1, GrownStep
    <3>3. QED
      BY <3>1, <3>2
  <2>2. QED
    BY <2>1
<1>2. GrownBy = CHOOSE g : g = [n \in Nat |-> GrownNext(n, g[n - 1])]
  BY DEF GrownBy, GrownNext
<1>3. GrownBy = [n \in Nat |-> GrownNext(n, GrownBy[n - 1])]
  <2> HIDE DEF Closed
  <2>1. \E g : g = [n \in Nat |-> GrownNext(n, g[n - 1])]
    BY <1>1
  <2>2. QED
    BY <1>2, <2>1, Zenon
<1>4. \A n \in Nat : GrownBy[n] = GrownNext(n, GrownBy[n - 1])
  BY <1>3, Zenon
<1> DEFINE Same == {n \in Nat : GrownBy[n] = Grown(n)}
<1>5. 0 \in Same
  <2>1. GrownBy[0] = GrownNext(0, GrownBy[0 - 1]) /\ Grown(0) = GrownNext(0, Grown(0 - 1))
    BY <1>4, GrownStep
  <2>2. QED
    BY <2>1 DEF GrownNext
<1>6. ASSUME NEW n \in Nat, n \in Same PROVE n + 1 \in Same
  <2>1. n + 1 \in Nat /\ (n + 1) - 1 = n
    OBVIOUS
  <2>2. GrownBy[n + 1] = GrownNext(n + 1, GrownBy[n]) /\ Grown(n + 1) = GrownNext(n + 1, Grown(n))
    BY <1>4, <2>1, GrownStep
  <2>3. GrownBy[n] = Grown(n)
    BY <1>6
  <2>4. QED
    BY <2>1, <2>2, <2>3
<1>7. Nat \subseteq Same
  <2> HIDE DEF Same
  <2>1. QED
    BY <1>5, <1>6, NaturalsIn
<1>8. QED
  BY <1>7

(* calculate_section_16_interest accrues, by its whole months and days     *)
(* left over, what adding a day's share each day comes to.                 *)
THEOREM InterestIsDaily ==
  ASSUME NEW principal \in Int, NEW due \in Int, NEW asOf \in Int
  PROVE  Interest(principal, due, asOf) = InterestByDay(principal, due, asOf)
<1>1. CASE asOf <= due \/ principal <= 0
  BY <1>1 DEF Interest, InterestByDay
<1>2. CASE ~(asOf <= due \/ principal <= 0)
  <2> DEFINE n == asOf - due
  <2>1. n \in Nat /\ ~(n <= 0)
    BY <1>2
  <2>2. GrownBy[n] = Grown(n)
    BY <2>1, GrownByIs
  <2>3. QED
    BY <1>2, <2>1, <2>2 DEF Interest, InterestByDay, Grown, FullMonths, ResidualDays
<1>3. QED
  BY <1>1, <1>2
-----------------------------------------------------------------------------
(* What is left of each invoice. *)
LEMMA LiveRows ==
  ASSUME ClockInv
  PROVE  \A i \in Invoices : Balance(Live[i]) \in Nat
<1>1. SUFFICES ASSUME NEW i \in Invoices PROVE Balance(Live[i]) \in Nat
  OBVIOUS
<1>2. /\ ledger[i] \in LedgerRow /\ ledger \in Ledgers
      /\ paid \in [Invoices -> Nat] /\ paid[i] <= Balance(ledger[i])
  BY RowsIn DEF ClockInv, ClockType
<1>3. Balance(Live[i]) = Balance(ledger[i]) - paid[i]
  BY <1>2, ProjectRow DEF Live
<1>4. Balance(ledger[i]) \in Int /\ paid[i] \in Nat
  BY <1>2 DEF LedgerRow, Balance
<1>5. QED
  BY <1>2, <1>3, <1>4

(* The invoices an escalation is about, and what the ledger bills for each. *)
LEMMA LedgerRows ==
  ASSUME ClockInv
  PROVE  /\ DOMAIN ledger = Invoices /\ IsFiniteSet(Invoices)
         /\ \A i \in Invoices : ledger[i].days \in Nat /\ Balance(ledger[i]) \in Nat
<1>1. DOMAIN ledger = Invoices /\ IsFiniteSet(Invoices)
  BY LedgerAssumption DEF ClockInv, ClockType
<1>2. ASSUME NEW i \in Invoices PROVE ledger[i].days \in Nat /\ Balance(ledger[i]) \in Nat
  BY RowsIn DEF ClockInv, ClockType, LedgerRow, Balance
<1>3. QED
  BY <1>1, <1>2

Row(d) ==
    d = [strategy |-> d.strategy, channel |-> d.channel, ask |-> d.ask,
         deadline |-> d.deadline, review |-> d.review]

(* An escalation that is left one was permitted, its ask in the band. *)
LEMMA EscalationStands ==
  ASSUME NEW ask, NEW permitted, NEW owed, NEW answer, NEW d,
         answer = [strategy |-> "ESCALATE", channel |-> "email", ask |-> ask,
                   deadline |-> "none", review |-> FALSE],
         d = Decision(answer, permitted, owed),
         d.strategy = "ESCALATE"
  PROVE  "ESCALATE" \in permitted /\ d.ask = Clamp(ask, owed)
<1>1. PICK a : a = Intercept(answer, permitted)
  OBVIOUS
<1>2. PICK b : b = BoundAsk(a, owed)
  OBVIOUS
<1>3. d = ClassReview(DropPastDeadline(DropDelivery(b)))
  BY <1>1, <1>2 DEF Decision
<1>4. /\ Row(a) /\ a.ask = ask
      /\ a.strategy = IF "ESCALATE" \in permitted THEN "ESCALATE" ELSE Fallback(permitted)
  BY <1>1 DEF Intercept, Row
<1>5. /\ Row(b) /\ b.strategy = a.strategy
      /\ a.strategy = "ESCALATE" => b.ask = Clamp(ask, owed)
  BY <1>2, <1>4 DEF BoundAsk, AsksForMoney, Row
<1>6. d.strategy = a.strategy /\ d.ask = b.ask
  BY <1>3, <1>5 DEF ClassReview, DropPastDeadline, DropDelivery, Row
<1>7. QED
  BY <1>4, <1>5, <1>6 DEF Fallback

(* What the envelope has let through when an escalation stands. *)
LEMMA EscalationOwes ==
  ASSUME ClockInv, NEW ask \in Asks, Escalate(ask)
  PROVE  /\ Eligible(supplier)
         /\ Collectible(ledger) \in Nat \ {0}
         /\ letter' = Letter(ledger, Clamp(ask, Collectible(ledger)))
         /\ ~SomeIs(ledger, "DISPUTED")
<1> DEFINE permitted == Permitted(Account, ledger, Past)
           answer == [strategy |-> "ESCALATE", channel |-> "email", ask |-> ask,
                      deadline |-> "none", review |-> FALSE]
           decision == Decision(answer, permitted, Collectible(ledger))
<1>1. decision.strategy = "ESCALATE" /\ letter' = Letter(ledger, decision.ask)
  BY DEF Escalate
<1>2. "ESCALATE" \in permitted
  <2> HIDE DEF permitted
  <2>1. QED
    BY <1>1, EscalationStands DEF AsksForMoney
<1>3. decision.ask = Clamp(ask, Collectible(ledger))
  <2> HIDE DEF permitted
  <2>1. QED
    BY <1>1, EscalationStands
<1>4. "ESCALATE" \notin Excluded(Account, ledger, Past)
  BY <1>2 DEF Permitted
<1>5. /\ Account.eligible /\ ~(Collectible(ledger) <= 0)
      /\ ~SomeIs(ledger, "DISPUTED")
  BY <1>4 DEF Excluded, AsksForMoney, DisputedAsks
<1>6. Collectible(ledger) \in Nat
  <2> DEFINE f == [i \in DOMAIN ledger |-> Balance(ledger[i])]
  <2>1. DOMAIN f = Invoices /\ IsFiniteSet(Invoices) /\ \A i \in Invoices : f[i] \in Nat
    BY LedgerRows
  <2> HIDE DEF f
  <2>2. SumFunctionOnSet(f, Invoices) \in Nat
    BY <2>1, SumOfNaturals
  <2>3. SumFunction(f) \in Nat
    BY <2>1, <2>2 DEF SumFunction
  <2>4. QED
    BY <2>3 DEF Collectible, f
<1>7. QED
  BY <1>1, <1>3, <1>5, <1>6 DEF Account

(* A balance that is not nothing has an invoice with something left. *)
LEMMA SomeCollectible ==
  ASSUME ClockInv, Collectible(ledger) # 0
  PROVE  Collectibles(ledger) # {}
<1> DEFINE f == [i \in DOMAIN ledger |-> Balance(ledger[i])]
<1>1. SUFFICES ASSUME Collectibles(ledger) = {} PROVE FALSE
  OBVIOUS
<1>2. DOMAIN f = Invoices /\ IsFiniteSet(Invoices) /\ \A i \in Invoices : f[i] = 0
  BY <1>1, LedgerRows DEF Collectibles
<1> HIDE DEF f
<1>3. SumFunctionOnSet(f, Invoices) = 0
  BY <1>2, SumOfNothing
<1>4. SumFunction(f) = 0
  BY <1>2, <1>3 DEF SumFunction
<1>5. QED
  BY <1>4 DEF Collectible, f

LEMMA PrimaryIsOldest ==
  ASSUME ClockInv, Collectibles(ledger) # {}
  PROVE  /\ Primary(ledger) \in Collectibles(ledger)
         /\ \A j \in Collectibles(ledger) : ledger[j].days <= ledger[Primary(ledger)].days
<1> DEFINE S == Collectibles(ledger)
           f == [i \in S |-> ledger[i].days]
<1>1. S \subseteq Invoices /\ IsFiniteSet(S) /\ \A i \in S : f[i] \in Nat
  BY LedgerRows, FS_Subset DEF Collectibles
<1>2. \E m \in S : \A x \in S : f[x] <= f[m]
  <2> HIDE DEF S, f
  <2>1. S # {}
    BY DEF S
  <2>2. QED
    BY <1>1, <2>1, GreatestOf
<1>3. \E m \in S : \A x \in S : ledger[x].days <= ledger[m].days
  BY <1>2
<1>4. QED
  BY <1>3 DEF Primary, OldestOf

(* Refused the statute are only the letters of accounts all of whose open  *)
(* invoices are young: envelope and draft judge the same supplier.         *)
LEMMA EscalationAgrees ==
  ASSUME ClockInv, NEW ask \in Asks, Escalate(ask)
  PROVE  StagesAgree'
<1>1. /\ ledger' = ledger
      /\ letter'.statutory <=> /\ AtRisk(supplier, Balance(ledger[Primary(ledger)]))
                               /\ ledger[Primary(ledger)].days > GraceDays
  BY EscalationOwes DEF Letter, Escalate, facts
<1>2. Collectibles(ledger) # {}
  BY EscalationOwes, SomeCollectible
<1>3. /\ Primary(ledger) \in Collectibles(ledger)
      /\ \A j \in Collectibles(ledger) : ledger[j].days <= ledger[Primary(ledger)].days
  BY <1>2, PrimaryIsOldest
<1>4. AtRisk(supplier, Balance(ledger[Primary(ledger)]))
  BY <1>3, EscalationOwes DEF AtRisk, Collectibles
<1>5. \A j \in Collectibles(ledger) : ledger[j].days \in Nat
  BY LedgerRows DEF Collectibles
<1>6. letter'.statutory <=> \E i \in Collectibles(ledger) : ledger[i].days > GraceDays
  <2>1. GraceDays \in Nat
    BY ClockAssumption
  <2>2. QED
    BY <1>1, <1>3, <1>4, <1>5, <2>1
<1>7. QED
  BY <1>1, <1>6 DEF StagesAgree, Collectibles

THEOREM StagesAgreeHolds == Spec => []StagesAgree
<1>1. Init => StagesAgree
  BY DEF Init, StagesAgree
<1>2. ClockInv /\ StagesAgree /\ [Next]_vars => StagesAgree'
  <2> SUFFICES ASSUME ClockInv, StagesAgree, [Next]_vars PROVE StagesAgree'
    OBVIOUS
  <2>1. CASE UNCHANGED <<letter, ledger>>
    BY <2>1 DEF StagesAgree, Collectibles
  <2>2. ASSUME NEW ask \in Asks, Escalate(ask) PROVE StagesAgree'
    BY <2>2, EscalationAgrees
  <2>3. QED
    BY <2>1, <2>2
    DEF Next, vars, facts, agentVars, Pass, RaiseDispute, OpenOrder, Capture
<1>3. QED
  BY <1>1, <1>2, ClockInvHolds, PTL DEF Spec

-----------------------------------------------------------------------------
(* The ask of a letter lies in the band of the balance. *)
LEMMA ClampInBand ==
  ASSUME NEW ask \in Int, NEW owed \in Nat
  PROVE  /\ Clamp(ask, owed) \in Int
         /\ Clamp(ask, owed) <= owed
         /\ Clamp(ask, owed) * 10000 >= owed * (10000 - ConcessionBps)
<1>1. PICK p \in Nat : p = owed * ConcessionBps
  BY EnvelopeAssumption
<1>2. ConcessionBps \in 0..10000 /\ p <= owed * 10000
  BY <1>1, EnvelopeAssumption
<1>3. PICK q \in Nat : q = p \div 10000
  BY <1>1
<1>4. q * 10000 <= p /\ q <= owed
  BY <1>2, <1>3
<1>5. MinAsk(owed) = owed - q
  BY <1>1, <1>3 DEF MinAsk
<1>6. owed * (10000 - ConcessionBps) = owed * 10000 - p
  BY <1>1, <1>2
<1>7. QED
  BY <1>4, <1>5, <1>6 DEF Clamp

(* An invoice's statutory due date is the delivery's, its window later. *)
LEMMA DueIs ==
  ASSUME ClockInv, NEW i \in Invoices
  PROVE  /\ StatutoryDue(i) = ledger[i].delivery + Window(ledger[i].written)
         /\ StatutoryDue(i) \in Int
<1>1. ledger[i].delivery \in Nat /\ Window(ledger[i].written) \in Nat
  BY RowsIn, StatuteAssumption DEF ClockInv, ClockType, LedgerRow, Window
<1>2. ledger[i].delivery # NoDate
  BY <1>1 DEF NoDate
<1>3. QED
  BY <1>1, <1>2 DEF StatutoryDue, DueDate, Acceptance

(* Interest is a whole number of paise. *)
LEMMA InterestType ==
  ASSUME NEW principal \in Int, NEW due \in Int, NEW asOf \in Int
  PROVE  Interest(principal, due, asOf) \in Int
<1> DEFINE days == asOf - due
           months == FullMonths(days)
<1>1. CASE days <= 0 \/ principal <= 0
  BY <1>1 DEF Interest
<1>2. CASE ~(days <= 0 \/ principal <= 0)
  <2>1. RestDays \in Nat \ {0} /\ RateDen \in Nat \ {0} /\ RateDen + 1 \in Nat
    BY StatuteAssumption
  <2>2. days \in Nat /\ principal \in Nat
    BY <1>2
  <2>3. months \in Nat /\ ResidualDays(days) \in Nat
    BY <2>1, <2>2, Division DEF FullMonths, ResidualDays
  <2>4. PICK x \in Nat : x = Power(RateDen + 1)[months]
    BY <2>1, <2>3, PowerIs
  <2>5. PICK y \in Nat \ {0} : y = Power(RateDen)[months]
    BY <2>1, <2>3, PowerPositive
  <2>6. PICK num \in Nat : num = principal * x * (365 * RateDen + 12 * ResidualDays(days))
    BY <2>1, <2>2, <2>3
  <2>7. PICK den \in Nat \ {0} : den = y * 365 * RateDen
    BY <2>1
  <2>8. RoundHalfUp(num, den) \in Int
    BY DEF RoundHalfUp
  <2>9. Interest(principal, due, asOf) = RoundHalfUp(num, den) - principal
    BY <1>2, <2>4, <2>5, <2>6, <2>7 DEF Interest
  <2>10. QED
    BY <2>8, <2>9
<1>3. QED
  BY <1>1, <1>2
(* What the open invoices accrue is what all of them accrue day by day: a  *)
(* settled one adds nothing, no clock prices another's balance, and where  *)
(* nothing is disputed the dates recorded are those of the deliveries.     *)
LEMMA AccruedIsDaily ==
  ASSUME ClockInv, ~SomeIs(ledger, "DISPUTED")
  PROVE  Accrued(ledger, today) =
           SumFunction([i \in Invoices |->
              InterestByDay(Balance(ledger[i]), RecordedDue(i), today)])
<1> DEFINE C == Collectibles(ledger)
           f == [i \in Invoices |->
                   InterestByDay(Balance(ledger[i]), RecordedDue(i), today)]
           g == [i \in C |-> Interest(Balance(ledger[i]), StatutoryDue(i), today)]
<1>0. \A i \in Invoices : ledger[i].accepted = ledger[i].delivery
  BY LedgerAssumption, LedgerRows DEF SomeIs, ClockInv, ClockType
<1>1. IsFiniteSet(Invoices) /\ C \in SUBSET Invoices /\ IsFiniteSet(C)
  BY LedgerRows, FS_Subset DEF Collectibles
<1>2. today \in Int
  BY ClockAssumption DEF ClockInv, ClockType
<1>3. ASSUME NEW i \in Invoices
      PROVE  /\ f[i] = Interest(Balance(ledger[i]), StatutoryDue(i), today)
             /\ f[i] \in Int
             /\ i \notin C => f[i] = 0
  <2>1. /\ Balance(ledger[i]) \in Nat
        /\ StatutoryDue(i) = RecordedDue(i)
        /\ StatutoryDue(i) \in Int
    BY LedgerRows, DueIs, <1>0 DEF RecordedDue
  <2>2. f[i] = Interest(Balance(ledger[i]), StatutoryDue(i), today)
    BY <1>2, <2>1, InterestIsDaily
  <2>3. f[i] \in Int
    <3> HIDE DEF f
    <3>1. QED
      BY <1>2, <2>1, <2>2, InterestType
  <2>4. ASSUME i \notin C PROVE f[i] = 0
    <3>1. Balance(ledger[i]) <= 0
      BY <2>1, <2>4, LedgerRows DEF Collectibles
    <3> HIDE DEF f
    <3>2. QED
      BY <2>2, <3>1 DEF Interest
  <2>5. QED
    BY <2>2, <2>3, <2>4
<1>4. /\ DOMAIN f = Invoices /\ DOMAIN g = C
      /\ \A i \in C : g[i] = f[i] /\ f[i] \in Int
  BY <1>1, <1>3
<1>5. Accrued(ledger, today) = SumFunctionOnSet(g, C)
  BY <1>4 DEF Accrued, SumFunction
<1> HIDE DEF f, g, C
<1>6. SumFunctionOnSet(f, Invoices) = SumFunctionOnSet(f, C)
  BY <1>1, <1>3, SumRestricts
<1>7. SumFunctionOnSet(f, C) = SumFunctionOnSet(g, C)
  BY <1>1, <1>4, SumSame
<1>8. SumFunction(f) = SumFunctionOnSet(f, Invoices)
  BY <1>4 DEF SumFunction
<1>9. Accrued(ledger, today) = SumFunction(f)
  BY <1>5, <1>6, <1>7, <1>8
<1>10. QED
  BY <1>9 DEF f

LEMMA EscalationIsBilled ==
  ASSUME ClockInv, NEW ask \in Asks, Escalate(ask)
  PROVE  DemandIsBilled'
<1> DEFINE owed == Collectible(ledger)
<1>1. /\ owed \in Nat
      /\ letter' = Letter(ledger, Clamp(ask, owed))
      /\ ~SomeIs(ledger, "DISPUTED")
  BY EscalationOwes
<1>2. /\ letter'.day = today
      /\ letter'.ask = Clamp(ask, owed)
      /\ letter'.statutory => letter'.interest = Accrued(ledger, today)
  BY <1>1 DEF Letter
<1>3. /\ letter'.ask <= owed
      /\ letter'.ask * 10000 >= owed * (10000 - ConcessionBps)
  BY <1>1, <1>2, ClampInBand, ClockAssumption
<1>4. ledger' = ledger
  BY DEF Escalate, facts
<1>5. QED
  BY <1>1, <1>2, <1>3, <1>4, AccruedIsDaily DEF DemandIsBilled, RecordedDue

(* A letter asks for no more than the ledger's balance and no less than    *)
(* the concession allows, and the interest it claims is each open          *)
(* invoice's own, counted day by day from the due date recorded for it:    *)
(* rule 2 keeps escalations away from the invoices whose recorded date is  *)
(* not the one messages.py computes.                                       *)
THEOREM DemandIsBilledHolds == Spec => []DemandIsBilled
<1>1. Init => DemandIsBilled
  BY DEF Init, DemandIsBilled
<1>2. ClockInv /\ DemandIsBilled /\ [Next]_vars => DemandIsBilled'
  <2> SUFFICES ASSUME ClockInv, DemandIsBilled, [Next]_vars PROVE DemandIsBilled'
    OBVIOUS
  <2>1. CASE UNCHANGED <<letter, ledger>>
    BY <2>1 DEF DemandIsBilled, RecordedDue
  <2>2. ASSUME NEW ask \in Asks, Escalate(ask) PROVE DemandIsBilled'
    BY <2>2, EscalationIsBilled
  <2>3. QED
    BY <2>1, <2>2
    DEF Next, vars, facts, agentVars, Pass, RaiseDispute, OpenOrder, Capture
<1>3. QED
  BY <1>1, <1>2, ClockInvHolds, PTL DEF Spec
-----------------------------------------------------------------------------
LEMMA EscalationTyped ==
  ASSUME ClockInv, TypeOK, NEW ask \in Asks, Escalate(ask)
  PROVE  escalations' \in 0..MaxEscalations
<1>1. "ESCALATE" \in Permitted(Account, ledger, Past)
  BY EscalationStands DEF Escalate
<1>2. ~AtCeiling(Past)
  BY <1>1 DEF Permitted, Excluded
<1>3. ~(escalations >= MaxEscalations)
  BY <1>2 DEF AtCeiling, Past
<1>4. escalations \in 0..MaxEscalations /\ escalations' = escalations + 1
  BY DEF TypeOK, Escalate
<1>5. QED
  BY <1>3, <1>4, EnvelopeAssumption

(* The ceiling on escalations holds whatever the debtor pays or objects to *)
(* between them, and captures never bring more than an invoice had open.   *)
THEOREM TypeOKHolds == Spec => []TypeOK
<1> DEFINE Plain == /\ supplier \in Suppliers
                    /\ ordered \in [Invoices -> BOOLEAN]
                    /\ escalations \in 0..MaxEscalations
                    /\ contact \in Days \cup {NoDate}
<1>1. ClockInv /\ Plain => TypeOK
  <2> SUFFICES ASSUME ClockInv, Plain PROVE TypeOK
    OBVIOUS
  <2>1. \A i \in Invoices : paid[i] >= 0 /\ Balance(Live[i]) >= 0
    BY LiveRows DEF ClockInv, ClockType
  <2>2. QED
    BY <2>1 DEF TypeOK, ClockInv, ClockType
<1>2. Init => Plain
  BY EnvelopeAssumption DEF Init
<1>3. ClockInv /\ Plain /\ [Next]_vars => Plain'
  <2> SUFFICES ASSUME ClockInv, Plain, [Next]_vars PROVE Plain'
    OBVIOUS
  <2>1. CASE Pass
    BY <2>1 DEF Pass, facts, portalVars, agentVars
  <2>2. ASSUME NEW i \in Invoices, RaiseDispute(i) \/ OpenOrder(i) PROVE Plain'
    BY <2>2 DEF RaiseDispute, OpenOrder, facts, agentVars
  <2>3. ASSUME NEW i \in Invoices, NEW amount \in Payments, Capture(i, amount) PROVE Plain'
    BY <2>3 DEF Capture, facts, agentVars
  <2>4. ASSUME NEW ask \in Asks, Escalate(ask) PROVE Plain'
    <3>1. escalations' \in 0..MaxEscalations
      BY <1>1, <2>4, EscalationTyped
    <3>2. UNCHANGED <<supplier, ordered>> /\ contact' = today /\ today \in Days
      BY <2>4 DEF Escalate, facts, portalVars, ClockInv, ClockType
    <3>3. QED
      BY <3>1, <3>2
  <2>5. CASE UNCHANGED vars
    BY <2>5 DEF vars, facts, portalVars, agentVars
  <2>6. QED
    BY <2>1, <2>2, <2>3, <2>4, <2>5 DEF Next
<1>4. QED
  BY <1>1, <1>2, <1>3, ClockInvHolds, PTL DEF Spec
=============================================================================
