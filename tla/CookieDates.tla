----------------------------- MODULE CookieDates -----------------------------
(***************************************************************************)
(* The day an Expires attribute names: days_from_civil of                  *)
(* sdk/rust/src/cookies.rs, checked year by year against the definition of *)
(* the calendar.                                                           *)
(***************************************************************************)
EXTENDS Integers

CONSTANTS
    FirstYear, \* the years that are checked, which include 1970
    LastYear

ASSUME CookieDatesAssumption == FirstYear \in Int /\ FirstYear < 1970 /\ LastYear \in Nat

\* Rust's division of integers, for a positive divisor.
Quotient(a, b) == IF a >= 0 THEN a \div b ELSE -((-a) \div b)

\* Mutant: the year is taken to begin in February.
DaysFromCivilFebruary(y, m, d) ==
    LET year == IF m < 2 THEN y - 1 ELSE y
        era  == Quotient(IF year >= 0 THEN year ELSE year - 399, 400)
        yoe  == year - era * 400
        doy  == Quotient(153 * (IF m > 2 THEN m - 3 ELSE m + 9) + 2, 5) + d - 1
        doe  == yoe * 365 + Quotient(yoe, 4) - Quotient(yoe, 100) + doy IN
    era * 146097 + doe - 719468

\* Days since 1 January 1970: the year begins in March, in eras of 400 years.
DaysFromCivil(y, m, d) ==
    LET year == IF m <= 2 THEN y - 1 ELSE y
        era  == Quotient(IF year >= 0 THEN year ELSE year - 399, 400)
        yoe  == year - era * 400
        doy  == Quotient(153 * (IF m > 2 THEN m - 3 ELSE m + 9) + 2, 5) + d - 1
        doe  == yoe * 365 + Quotient(yoe, 4) - Quotient(yoe, 100) + doy IN
    era * 146097 + doe - 719468

-----------------------------------------------------------------------------
(* The calendar, from its definition, and a walk from 1970 to either side. *)

IsLeap(y) == y % 4 = 0 /\ (y % 100 # 0 \/ y % 400 = 0)

DaysIn(y, m) ==
    IF m = 2 THEN IF IsLeap(y) THEN 29 ELSE 28
    ELSE IF m \in {4, 6, 9, 11} THEN 30 ELSE 31

\* Days of year y before its month m.
Before(y, m) ==
    LET before[k \in 1..13] == IF k = 1 THEN 0 ELSE before[k - 1] + DaysIn(y, k - 1)
    IN  before[m]

VARIABLES
    year,   \* a year
    newYear \* the days from 1 January 1970 to its first

dateVars == <<year, newYear>>

DateInit == year = 1970 /\ newYear = 0

NextYear ==
    /\ year >= 1970 /\ year < LastYear
    /\ year' = year + 1 /\ newYear' = newYear + Before(year, 13)

PreviousYear ==
    /\ year <= 1970 /\ year > FirstYear
    /\ year' = year - 1 /\ newYear' = newYear - Before(year - 1, 13)

DateNext == NextYear \/ PreviousYear

DateSpec == DateInit /\ [][DateNext]_dateVars

-----------------------------------------------------------------------------
\* Every day of every year has the number that counting the days gives it, over
\* leap years, centuries, eras and the year 0; a cookie expires on the second its
\* date names.
DatesAreDays ==
    \A m \in 1..12 : LET first == newYear + Before(year, m) IN
       \A d \in 1..DaysIn(year, m) : DaysFromCivil(year, m, d) = first + d - 1
=============================================================================
