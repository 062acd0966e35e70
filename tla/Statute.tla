-------------------------------- MODULE Statute --------------------------------
(***************************************************************************)
(* The delayed-payment statute as app/statute.py, app/disputes.py and      *)
(* app/ledger.py compute it: when the clock of an invoice starts and runs  *)
(* out, what it accrues afterwards, and which supplier may invoke it.      *)
(*                                                                         *)
(* A date is a day number.  Interest is exact until it is rounded, half    *)
(* up, to a whole paisa; the yearly rate is 12 / RateDen, so that a rest   *)
(* adds 1 / RateDen of what is owed and a day 12 / (365 * RateDen) of it.  *)
(* The financial year a notice names is left out.                          *)
(***************************************************************************)
EXTENDS Integers

CONSTANTS
    WrittenWindow,    \* STATUTORY_WINDOW_WRITTEN_DAYS
    DefaultWindow,    \* STATUTORY_WINDOW_DEFAULT_DAYS
    ObjectionWindow,  \* days after delivery in which an objection counts
    RestDays,         \* rest_interval_days
    RateDen           \* 12 over the yearly rate

ASSUME StatuteAssumption ==
    /\ WrittenWindow \in Nat
    /\ DefaultWindow \in 0..WrittenWindow
    /\ ObjectionWindow \in Nat
    /\ RestDays \in Nat \ {0}
    /\ RateDen \in Nat \ {0}

(* No date at all: the clock has not started. *)
NoDate == -1

Window(written) == IF written THEN WrittenWindow ELSE DefaultWindow

(* Deviation: only objections raised after the window count. *)
CountsLate(delivery, objection) == objection - delivery > ObjectionWindow

(* Whether an objection was raised in time. *)
Counts(delivery, objection) == objection - delivery <= ObjectionWindow

(* The day the goods are accepted: the day of delivery, or once an         *)
(* objection counts the day it is resolved, if it is.                      *)
Acceptance(delivery, objection, resolution) ==
    IF objection # NoDate /\ Counts(delivery, objection) THEN resolution ELSE delivery

(* compute_statutory_dates: the statutory due date *)
DueDate(delivery, written, objection, resolution) ==
    LET accepted == Acceptance(delivery, objection, resolution)
    IN  IF accepted = NoDate THEN NoDate ELSE accepted + Window(written)

-----------------------------------------------------------------------------
FullMonths(days) == days \div RestDays

ResidualDays(days) == days % RestDays

RoundHalfUp(num, den) == (2 * num + den) \div (2 * den)

(* base ** exponent *)
Power(base) ==
    LET power[n \in Nat] == IF n = 0 THEN 1 ELSE base * power[n - 1]
    IN  power

(* calculate_section_16_interest: what has accrued on a principal *)
Interest(principal, due, asOf) ==
    LET days == asOf - due
        months == FullMonths(days)
        num == principal * Power(RateDen + 1)[months]
                 * (365 * RateDen + 12 * ResidualDays(days))
        den == Power(RateDen)[months] * 365 * RateDen
    IN  IF days <= 0 \/ principal <= 0 THEN 0 ELSE RoundHalfUp(num, den) - principal

(* The same, day by day: what a paisa has grown to, a fraction, and how    *)
(* far the running month is.  A day adds its share of the last rest's      *)
(* figure, and the day that completes a month a rest instead.              *)
GrownBy[n \in Nat] ==
    IF n = 0 THEN [num |-> 1, den |-> 1, day |-> 0]
    ELSE LET before == GrownBy[n - 1]
         IN  IF before.day + 1 < RestDays THEN [before EXCEPT !.day = before.day + 1]
             ELSE [num |-> before.num * (RateDen + 1), den |-> before.den * RateDen,
                   day |-> 0]

InterestByDay(principal, due, asOf) ==
    IF asOf <= due \/ principal <= 0 THEN 0
    ELSE LET g == GrownBy[asOf - due]
         IN  RoundHalfUp(principal * g.num * (365 * RateDen + 12 * g.day),
                         g.den * 365 * RateDen) - principal

-----------------------------------------------------------------------------
(* msmed_eligible: three gates, and a missing answer fails its gate. *)
Eligible(supplier) ==
    /\ supplier.registered
    /\ supplier.category \in {"micro", "small"}
    /\ supplier.activity \notin {"missing", "trading"}

(* evaluate_section_43b_h: nothing is at risk where nothing is owed. *)
AtRisk(supplier, balance) == Eligible(supplier) /\ balance > 0
=============================================================================
