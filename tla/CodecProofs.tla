---------------------------- MODULE CodecProofs ----------------------------
(* Proofs about what the client converts: the dates of cookies (CookieDates)   *)
(* and the frames of a stream (WsFrames).                                      *)
EXTENDS CookieDates, WsFrames, SelectionTheorems, FiniteSetTheorems

-----------------------------------------------------------------------------
(* Dates.                                                                  *)

YearDays(y) == IF IsLeap(y) THEN 366 ELSE 365

\* The recursion over the months has a solution: the sums written out.
LEMMA BeforeIs ==
    ASSUME NEW y \in Int
    PROVE  /\ Before(y, 1) = 0
           /\ \A m \in 1..12 : Before(y, m + 1) = Before(y, m) + DaysIn(y, m)
<1> DEFINE feb == DaysIn(y, 2)
           sums == <<0, 31, 31 + feb, 62 + feb, 92 + feb, 123 + feb, 153 + feb, 184 + feb,
                     215 + feb, 245 + feb, 276 + feb, 306 + feb, 337 + feb>>
           Solves(f) == f = [k \in 1..13 |-> IF k = 1 THEN 0 ELSE f[k - 1] + DaysIn(y, k - 1)]
<1>1. feb \in Int
  BY DEF DaysIn
<1>2. /\ DaysIn(y, 1) = 31 /\ DaysIn(y, 3) = 31 /\ DaysIn(y, 4) = 30 /\ DaysIn(y, 5) = 31
      /\ DaysIn(y, 6) = 30 /\ DaysIn(y, 7) = 31 /\ DaysIn(y, 8) = 31 /\ DaysIn(y, 9) = 30
      /\ DaysIn(y, 10) = 31 /\ DaysIn(y, 11) = 30 /\ DaysIn(y, 12) = 31
  BY DEF DaysIn
<1> HIDE DEF feb
<1>3. Solves([k \in 1..13 |-> sums[k]])
  <2> DEFINE f == [k \in 1..13 |-> sums[k]]
  <2>1. ASSUME NEW k \in 1..13 PROVE f[k] = IF k = 1 THEN 0 ELSE f[k - 1] + DaysIn(y, k - 1)
    <3>1. \/ k = 1 \/ k = 2 \/ k = 3 \/ k = 4 \/ k = 5 \/ k = 6 \/ k = 7 \/ k = 8 \/ k = 9
          \/ k = 10 \/ k = 11 \/ k = 12 \/ k = 13
      OBVIOUS
    <3>2. DaysIn(y, 2) = feb
      BY DEF feb
    <3>3. QED
      BY <1>1, <1>2, <3>1, <3>2
  <2>2. QED
    BY <2>1
<1>4. \E f : Solves(f)
  BY <1>3
<1> DEFINE g == CHOOSE f : Solves(f)
<1>5. Solves(g)
  BY <1>4
<1>6. \A m : Before(y, m) = g[m]
  BY DEF Before
<1> HIDE DEF g
<1>7. g[1] = 0
  BY <1>5
<1>8. ASSUME NEW m \in 1..12 PROVE g[m + 1] = g[m] + DaysIn(y, m)
  <2>1. m + 1 \in 1..13 /\ m + 1 # 1 /\ (m + 1) - 1 = m
    OBVIOUS
  <2>2. QED
    BY <1>5, <2>1
<1>9. QED
  BY <1>6, <1>7, <1>8

\* What days_from_civil counts in years that begin in March.
Marches(y) == 365 * y + (y \div 4) - (y \div 100) + (y \div 400) - 719468

\* The eras are the Gregorian rule.
LEMMA CivilIs ==
    \A y \in Int, m \in 1..12, d \in Int :
       DaysFromCivil(y, m, d) =
          Marches(IF m <= 2 THEN y - 1 ELSE y)
          + Quotient(153 * (IF m > 2 THEN m - 3 ELSE m + 9) + 2, 5) + d - 1
<1> SUFFICES ASSUME NEW y \in Int, NEW m \in 1..12, NEW d \in Int
             PROVE  DaysFromCivil(y, m, d) =
                       Marches(IF m <= 2 THEN y - 1 ELSE y)
                       + Quotient(153 * (IF m > 2 THEN m - 3 ELSE m + 9) + 2, 5) + d - 1
  OBVIOUS
<1> DEFINE x == IF m <= 2 THEN y - 1 ELSE y
           era == Quotient(IF x >= 0 THEN x ELSE x - 399, 400)
           yoe == x - era * 400
           march == Quotient(153 * (IF m > 2 THEN m - 3 ELSE m + 9) + 2, 5)
<1>1. x \in Int /\ march \in Int
  BY DEF Quotient
<1>2. DaysFromCivil(y, m, d) =
         era * 146097 + (yoe * 365 + Quotient(yoe, 4) - Quotient(yoe, 100)
                          + (march + d - 1)) - 719468
  BY DEF DaysFromCivil
<1> HIDE DEF x, march
<1>3. era = x \div 400
  BY <1>1 DEF Quotient
<1> HIDE DEF era
<1>4. /\ yoe \in 0..399 /\ Quotient(yoe, 4) = (x \div 4) - era * 100
      /\ Quotient(yoe, 100) = (x \div 100) - era * 4
  BY <1>1, <1>3 DEF Quotient
<1>5. era \in Int /\ x \div 4 \in Int /\ x \div 100 \in Int
  BY <1>1, <1>3
<1>6. DaysFromCivil(y, m, d) = Marches(x) + march + d - 1
  BY <1>1, <1>2, <1>3, <1>4, <1>5 DEF Marches
<1>7. QED
  BY <1>6 DEF x, march

\* The years of 365 and of 366 days.
LEMMA MarchesStep == \A y \in Int : Marches(y) = Marches(y - 1) + YearDays(y)
<1> SUFFICES ASSUME NEW y \in Int PROVE Marches(y) = Marches(y - 1) + YearDays(y)
  OBVIOUS
<1>1. y \div 4 = ((y - 1) \div 4) + IF y % 4 = 0 THEN 1 ELSE 0
  OBVIOUS
<1>2. y \div 100 = ((y - 1) \div 100) + IF y % 100 = 0 THEN 1 ELSE 0
  OBVIOUS
<1>3. y \div 400 = ((y - 1) \div 400) + IF y % 400 = 0 THEN 1 ELSE 0
  OBVIOUS
<1>4. (y % 100 = 0 => y % 4 = 0) /\ (y % 400 = 0 => y % 100 = 0)
  OBVIOUS
<1>5. /\ (y - 1) \div 4 \in Int /\ (y - 1) \div 100 \in Int /\ (y - 1) \div 400 \in Int
  OBVIOUS
<1>6. QED
  BY <1>1, <1>2, <1>3, <1>4, <1>5 DEF Marches, YearDays, IsLeap

\* The days to a first of March are a whole number.
LEMMA MarchesType == \A y \in Int : Marches(y) \in Int
BY DEF Marches

\* The first of January.
LEMMA CivilFirst ==
    ASSUME NEW y \in Int
    PROVE  DaysFromCivil(y, 1, 1) = Marches(y - 1) + 306
<1>1. DaysFromCivil(y, 1, 1) =
         Marches(IF 1 <= 2 THEN y - 1 ELSE y)
         + Quotient(153 * (IF 1 > 2 THEN 1 - 3 ELSE 1 + 9) + 2, 5) + 1 - 1
  BY CivilIs
<1>2. Quotient(153 * (IF 1 > 2 THEN 1 - 3 ELSE 1 + 9) + 2, 5) = 306
  BY DEF Quotient
<1>3. Marches(y - 1) \in Int
  BY MarchesType
<1>4. QED
  BY <1>1, <1>2, <1>3

\* The days before each month, written out.
LEMMA BeforeSums ==
    ASSUME NEW y \in Int
    PROVE  /\ YearDays(y) \in {365, 366}
           /\ Before(y, 1) = 0 /\ Before(y, 2) = 31 /\ Before(y, 3) = YearDays(y) - 306
           /\ Before(y, 4) = YearDays(y) - 275 /\ Before(y, 5) = YearDays(y) - 245
           /\ Before(y, 6) = YearDays(y) - 214 /\ Before(y, 7) = YearDays(y) - 184
           /\ Before(y, 8) = YearDays(y) - 153 /\ Before(y, 9) = YearDays(y) - 122
           /\ Before(y, 10) = YearDays(y) - 92 /\ Before(y, 11) = YearDays(y) - 61
           /\ Before(y, 12) = YearDays(y) - 31 /\ Before(y, 13) = YearDays(y)
<1>1. YearDays(y) \in {365, 366} /\ DaysIn(y, 2) = YearDays(y) - 337
  BY DEF DaysIn, YearDays, IsLeap
<1>2. /\ DaysIn(y, 1) = 31 /\ DaysIn(y, 3) = 31 /\ DaysIn(y, 4) = 30 /\ DaysIn(y, 5) = 31
      /\ DaysIn(y, 6) = 30 /\ DaysIn(y, 7) = 31 /\ DaysIn(y, 8) = 31 /\ DaysIn(y, 9) = 30
      /\ DaysIn(y, 10) = 31 /\ DaysIn(y, 11) = 30 /\ DaysIn(y, 12) = 31
  BY DEF DaysIn
<1>3. /\ Before(y, 1) = 0
      /\ Before(y, 1 + 1) = Before(y, 1) + DaysIn(y, 1)
      /\ Before(y, 2 + 1) = Before(y, 2) + DaysIn(y, 2)
      /\ Before(y, 3 + 1) = Before(y, 3) + DaysIn(y, 3)
      /\ Before(y, 4 + 1) = Before(y, 4) + DaysIn(y, 4)
      /\ Before(y, 5 + 1) = Before(y, 5) + DaysIn(y, 5)
      /\ Before(y, 6 + 1) = Before(y, 6) + DaysIn(y, 6)
      /\ Before(y, 7 + 1) = Before(y, 7) + DaysIn(y, 7)
      /\ Before(y, 8 + 1) = Before(y, 8) + DaysIn(y, 8)
      /\ Before(y, 9 + 1) = Before(y, 9) + DaysIn(y, 9)
      /\ Before(y, 10 + 1) = Before(y, 10) + DaysIn(y, 10)
      /\ Before(y, 11 + 1) = Before(y, 11) + DaysIn(y, 11)
      /\ Before(y, 12 + 1) = Before(y, 12) + DaysIn(y, 12)
  BY BeforeIs
<1> DEFINE k == YearDays(y)
<1>4. k \in Int /\ Before(y, 2) = 31 /\ Before(y, 3) = k - 306
  BY <1>1, <1>2, <1>3
<1> HIDE DEF k
<1>5. Before(y, 4) = k - 275 /\ Before(y, 5) = k - 245 /\ Before(y, 6) = k - 214
  BY <1>2, <1>3, <1>4
<1>6. Before(y, 7) = k - 184 /\ Before(y, 8) = k - 153 /\ Before(y, 9) = k - 122
  BY <1>2, <1>3, <1>4, <1>5
<1>7. Before(y, 10) = k - 92 /\ Before(y, 11) = k - 61 /\ Before(y, 12) = k - 31
  BY <1>2, <1>3, <1>4, <1>6
<1>8. Before(y, 13) = k
  BY <1>2, <1>3, <1>4, <1>7
<1>9. QED
  BY <1>1, <1>3, <1>4, <1>5, <1>6, <1>7, <1>8 DEF k

\* Within a year days_from_civil counts the days of the calendar.
LEMMA CivilInYear ==
    ASSUME NEW y \in Int, NEW m \in 1..12, NEW d \in Int
    PROVE  DaysFromCivil(y, m, d) = DaysFromCivil(y, 1, 1) + Before(y, m) + d - 1
<1>1. Marches(y) = Marches(y - 1) + YearDays(y) /\ Marches(y - 1) \in Int
  BY MarchesStep, MarchesType
<1>2. DaysFromCivil(y, 1, 1) = Marches(y - 1) + 306
  BY CivilFirst
<1>3. DaysFromCivil(y, m, d) =
         Marches(IF m <= 2 THEN y - 1 ELSE y)
         + Quotient(153 * (IF m > 2 THEN m - 3 ELSE m + 9) + 2, 5) + d - 1
  BY CivilIs, ZenonT(30)
<1>4. \/ m = 1 \/ m = 2 \/ m = 3 \/ m = 4 \/ m = 5 \/ m = 6 \/ m = 7 \/ m = 8 \/ m = 9
      \/ m = 10 \/ m = 11 \/ m = 12
  OBVIOUS
<1> DEFINE q == Quotient(153 * (IF m > 2 THEN m - 3 ELSE m + 9) + 2, 5)
<1>5. CASE m \in {1, 2}
  <2>1. Before(y, m) = 31 * (m - 1)
    BY <1>5, BeforeSums
  <2>2. q = 306 + 31 * (m - 1)
    BY <1>5 DEF Quotient
  <2> HIDE DEF q
  <2>3. DaysFromCivil(y, m, d) = Marches(y - 1) + q + d - 1
    BY <1>3, <1>5 DEF q
  <2>4. QED
    BY <1>1, <1>2, <1>5, <2>1, <2>2, <2>3
<1>6. CASE m \in 3..12
  <2>1. q = Before(y, m) - YearDays(y) + 306 /\ YearDays(y) \in Int
    BY <1>4, <1>6, BeforeSums DEF Quotient
  <2>2. Before(y, m) \in Int
    BY <1>4, BeforeSums
  <2> HIDE DEF q
  <2>3. DaysFromCivil(y, m, d) = Marches(y) + q + d - 1
    BY <1>3, <1>6 DEF q
  <2>4. QED
    BY <1>1, <1>2, <2>1, <2>2, <2>3
<1>7. QED
  BY <1>5, <1>6

\* A year is as long as days_from_civil says.
LEMMA CivilNewYear ==
    ASSUME NEW y \in Int
    PROVE  DaysFromCivil(y + 1, 1, 1) = DaysFromCivil(y, 1, 1) + Before(y, 13)
<1>1. y + 1 \in Int /\ (y + 1) - 1 = y
  OBVIOUS
<1>2. DaysFromCivil(y, 1, 1) = Marches(y - 1) + 306 /\ DaysFromCivil(y + 1, 1, 1) = Marches(y) + 306
  BY <1>1, CivilFirst
<1>3. Marches(y) = Marches(y - 1) + YearDays(y) /\ Marches(y - 1) \in Int
  BY MarchesStep, MarchesType
<1>4. QED
  BY <1>2, <1>3, BeforeSums

DatesInv == year \in Int /\ newYear = DaysFromCivil(year, 1, 1)

\* days_from_civil (cookies.rs) numbers every day of every year as counting does,
\* for every range of years.
THEOREM EveryDayIsCounted == DateSpec => []DatesAreDays
<1>1. DateInit => DatesInv
  <2>1. DaysFromCivil(1970, 1, 1) = Marches(1969) + 306
    BY CivilFirst
  <2>2. Marches(1969) = -306
    BY DEF Marches
  <2>3. QED
    BY <2>1, <2>2 DEF DateInit, DatesInv
<1>2. DatesInv /\ [DateNext]_dateVars => DatesInv'
  <2> SUFFICES ASSUME DatesInv, [DateNext]_dateVars PROVE DatesInv'
    OBVIOUS
  <2>1. CASE NextYear
    BY <2>1, CivilNewYear DEF NextYear, DatesInv
  <2>2. CASE PreviousYear
    <3>1. DaysFromCivil((year - 1) + 1, 1, 1) = DaysFromCivil(year - 1, 1, 1) + Before(year - 1, 13)
      BY CivilNewYear DEF DatesInv
    <3>2. (year - 1) + 1 = year /\ year - 1 \in Int
      BY DEF DatesInv
    <3>3. DaysFromCivil(year - 1, 1, 1) \in Int
      BY <3>2, CivilFirst, MarchesType
    <3>4. Before(year - 1, 13) \in Int
      BY <3>2, BeforeSums
    <3>5. QED
      BY <2>2, <3>1, <3>2, <3>3, <3>4 DEF PreviousYear, DatesInv
  <2>3. CASE UNCHANGED dateVars
    BY <2>3 DEF dateVars, DatesInv
  <2>4. QED
    BY <2>1, <2>2, <2>3 DEF DateNext
<1>3. DatesInv => DatesAreDays
  BY CivilInYear DEF DatesInv, DatesAreDays
<1>4. QED
  BY <1>1, <1>2, <1>3, PTL DEF DateSpec

-----------------------------------------------------------------------------
(* Numbers and their bytes.                                                *)

\* What the assumption says of a byte, its top bit and the two escapes.
LEMMA ByteFacts ==
    /\ Base \in Nat /\ Base >= 8 /\ Top \in Nat /\ Top >= 4 /\ Base = 2 * Top
    /\ Escape2 = Top - 2 /\ Escape8 = Top - 1
    /\ Byte = 0..Base - 1
BY WsFramesAssumption DEF Top, Escape2, Escape8, Byte

\* Below the top bit, a number is what remains of it, with that bit set or not.
LEMMA LowBits == \A n \in 0..Top - 1 : n % Top = n /\ (Top + n) % Top = n
<1>1. Top \in Nat /\ Top >= 4
  BY ByteFacts
<1>2. QED
  BY <1>1

\* A number is its last byte and what is before it.
LEMMA DivMod ==
    \A x \in Nat : /\ x \div Base \in Nat /\ x % Base \in Byte
                   /\ x = Base * (x \div Base) + (x % Base)
<1>1. Base \in Nat /\ Base > 0
  BY ByteFacts
<1>2. \A x \in Nat : x \div Base \in Nat
  BY <1>1
<1>3. \A x \in Nat : x % Base \in 0..Base - 1
  BY <1>1
<1>4. \A x \in Nat : x = Base * (x \div Base) + (x % Base)
  BY <1>1
<1>5. QED
  BY <1>2, <1>3, <1>4 DEF Byte

\* A byte more makes a number.
LEMMA TimesBase == \A x, y \in Nat : Base * x + y \in Nat
<1>1. Base \in Nat
  BY ByteFacts
<1>2. QED
  BY <1>1

\* f[i] is what G makes of z in i steps.
Steps(f, n, z, G) == \A i \in 0..n : f[i] = IF i = 0 THEN z ELSE G[i][f[i - 1]]

\* A recursion over 0..n whose values stay in X has a solution.
LEMMA LoopSome ==
    ASSUME NEW X, NEW z \in X, NEW n \in Nat, NEW G \in [1..n -> [X -> X]]
    PROVE  \E f \in [0..n -> X] : Steps(f, n, z, G)
<1> DEFINE Solves(f, m) == f \in [0..m -> X]
                           /\ \A i \in 0..m : f[i] = IF i = 0 THEN z ELSE G[i][f[i - 1]]
           T == {m \in Nat : m <= n => \E f : Solves(f, m)}
<1>1. 0 \in T
  <2>1. Solves([i \in 0..0 |-> z], 0)
    OBVIOUS
  <2>2. QED
    BY <2>1
<1>2. ASSUME NEW m \in Nat, m \in T PROVE m + 1 \in T
  <2> SUFFICES ASSUME m + 1 <= n PROVE \E f : Solves(f, m + 1)
    OBVIOUS
  <2>1. PICK f : Solves(f, m)
    BY <1>2
  <2> DEFINE e == G[m + 1][f[m]]
             g == [i \in 0..m + 1 |-> IF i = m + 1 THEN e ELSE f[i]]
  <2>2. e \in X
    <3>1. m \in 0..m /\ m + 1 \in 1..n
      OBVIOUS
    <3>2. f[m] \in X
      BY <2>1, <3>1
    <3>3. QED
      BY <3>1, <3>2
  <2>3. g \in [0..m + 1 -> X]
    BY <2>1, <2>2
  <2>4. ASSUME NEW i \in 0..m + 1 PROVE g[i] = IF i = 0 THEN z ELSE G[i][g[i - 1]]
    <3>1. CASE i = m + 1
      <4>1. i # 0 /\ i - 1 = m /\ m \in 0..m + 1 /\ m # m + 1
        BY <3>1
      <4>2. g[m] = f[m] /\ g[i] = e
        BY <3>1, <4>1
      <4>3. QED
        BY <3>1, <4>1, <4>2
    <3>2. CASE i # m + 1
      <4>1. i \in 0..m /\ (i # 0 => i - 1 \in 0..m + 1 /\ i - 1 # m + 1)
        BY <3>2
      <4>2. f[i] = IF i = 0 THEN z ELSE G[i][f[i - 1]]
        BY <2>1, <4>1
      <4>3. QED
        BY <3>2, <4>1, <4>2
    <3>3. QED
      BY <3>1, <3>2
  <2> HIDE DEF g
  <2>5. QED
    BY <2>3, <2>4
<1>3. Nat \subseteq T
  BY <1>1, <1>2, NatsBySteps
<1>4. QED
  BY <1>3 DEF Steps

\* f[i] is v without its last i bytes.
Shifts(f, v, k) == f = [i \in 0..k |-> IF i = 0 THEN v ELSE f[i - 1] \div Base]

\* Shifted(v, k) is the last of k divisions.
LEMMA ShiftedShifts ==
    ASSUME NEW v \in Nat, NEW k \in Nat
    PROVE  \E f : Shifts(f, v, k) /\ Shifted(v, k) = f[k]
<1> DEFINE G == [i \in 1..k |-> [x \in Nat |-> x \div Base]]
<1>1. G \in [1..k -> [Nat -> Nat]]
  BY ByteFacts
<1>2. \A i \in 1..k : \A x \in Nat : G[i][x] = x \div Base
  OBVIOUS
<1> HIDE DEF G
<1>3. PICK f \in [0..k -> Nat] : Steps(f, k, v, G)
  BY <1>1, LoopSome
<1>4. ASSUME NEW i \in 0..k PROVE f[i] = IF i = 0 THEN v ELSE f[i - 1] \div Base
  <2>1. CASE i = 0
    BY <1>3, <2>1 DEF Steps
  <2>2. CASE i # 0
    <3>1. i \in 1..k /\ i - 1 \in 0..k
      BY <2>2
    <3>2. f[i] = G[i][f[i - 1]] /\ f[i - 1] \in Nat
      BY <1>3, <2>2, <3>1 DEF Steps
    <3>3. QED
      BY <1>2, <2>2, <3>1, <3>2
  <2>3. QED
    BY <2>1, <2>2
<1>5. f = [i \in 0..k |-> f[i]]
  OBVIOUS
<1>6. \E g : Shifts(g, v, k)
  BY <1>4, <1>5 DEF Shifts
<1>7. QED
  BY <1>6 DEF Shifted, Shifts

\* Shifted loses one byte with each step.
LEMMA ShiftedStep ==
    ASSUME NEW v \in Nat, NEW k \in Nat
    PROVE  /\ Shifted(v, 0) = v
           /\ Shifted(v, k) \in Nat
           /\ Shifted(v, k + 1) = Shifted(v, k) \div Base
<1>1. PICK f : Shifts(f, v, k) /\ Shifted(v, k) = f[k]
  BY ShiftedShifts
<1>2. PICK g : Shifts(g, v, k + 1) /\ Shifted(v, k + 1) = g[k + 1]
  BY ShiftedShifts
<1> DEFINE T == {i \in Nat : i <= k => f[i] = g[i] /\ f[i] \in Nat}
<1>3. 0 \in T
  BY <1>1, <1>2 DEF Shifts
<1>4. ASSUME NEW i \in Nat, i \in T PROVE i + 1 \in T
  <2> SUFFICES ASSUME i + 1 <= k PROVE f[i + 1] = g[i + 1] /\ f[i + 1] \in Nat
    OBVIOUS
  <2>1. f[i] = g[i] /\ f[i] \in Nat
    BY <1>4
  <2>2. i + 1 \in 0..k /\ i + 1 \in 0..k + 1 /\ i + 1 # 0 /\ (i + 1) - 1 = i
    OBVIOUS
  <2>3. f[i + 1] = f[i] \div Base /\ g[i + 1] = g[i] \div Base
    BY <1>1, <1>2, <2>2 DEF Shifts
  <2>4. f[i] \div Base \in Nat
    BY <2>1, DivMod
  <2>5. QED
    BY <2>1, <2>3, <2>4
<1>5. Nat \subseteq T
  BY <1>3, <1>4, NatsBySteps
<1>6. f[k] = g[k] /\ f[k] \in Nat
  BY <1>5
<1>7. g[k + 1] = g[k] \div Base
  <2>1. k + 1 \in 0..k + 1 /\ k + 1 # 0 /\ (k + 1) - 1 = k
    OBVIOUS
  <2>2. QED
    BY <1>2, <2>1 DEF Shifts
<1>8. Shifted(v, 0) = v
  <2>1. PICK h : Shifts(h, v, 0) /\ Shifted(v, 0) = h[0]
    BY ShiftedShifts
  <2>2. QED
    BY <2>1 DEF Shifts
<1>9. QED
  BY <1>1, <1>2, <1>6, <1>7, <1>8

\* f[i] is the number that the first i bytes of b make.
Values(f, b) == f = [i \in 0..Len(b) |-> IF i = 0 THEN 0 ELSE Base * f[i - 1] + b[i]]

\* FromBigEndian(b) is the last of Len(b) multiplications.
LEMMA FromBigEndianValues ==
    ASSUME NEW b \in Seq(Byte)
    PROVE  \E f : Values(f, b) /\ FromBigEndian(b) = f[Len(b)]
<1> DEFINE n == Len(b)
           G == [i \in 1..n |-> [x \in Nat |-> Base * x + b[i]]]
<1>1. n \in Nat /\ \A i \in 1..n : b[i] \in Nat
  BY ByteFacts
<1>2. \A i \in 1..n : \A x \in Nat : Base * x + b[i] \in Nat
  BY <1>1, TimesBase
<1>3. G \in [1..n -> [Nat -> Nat]]
  BY <1>2
<1>4. \A i \in 1..n : \A x \in Nat : G[i][x] = Base * x + b[i]
  OBVIOUS
<1> HIDE DEF G
<1>5. PICK f \in [0..n -> Nat] : Steps(f, n, 0, G)
  BY <1>1, <1>3, LoopSome
<1>6. ASSUME NEW i \in 0..n PROVE f[i] = IF i = 0 THEN 0 ELSE Base * f[i - 1] + b[i]
  <2>1. CASE i = 0
    BY <1>5, <2>1 DEF Steps
  <2>2. CASE i # 0
    <3>1. i \in 1..n /\ i - 1 \in 0..n
      BY <2>2
    <3>2. f[i] = G[i][f[i - 1]] /\ f[i - 1] \in Nat
      BY <1>5, <2>2, <3>1 DEF Steps
    <3>3. QED
      BY <1>4, <2>2, <3>1, <3>2
  <2>3. QED
    BY <2>1, <2>2
<1>7. f = [i \in 0..n |-> f[i]]
  OBVIOUS
<1>8. \E g : Values(g, b)
  BY <1>6, <1>7 DEF Values
<1>9. QED
  BY <1>8 DEF FromBigEndian, Values

\* Bytes of a number that fits, read back.
LEMMA NumberReadBack ==
    ASSUME NEW v \in Nat, NEW n \in Nat, Shifted(v, n) = 0
    PROVE  /\ BigEndian(v, n) \in Seq(Byte) /\ Len(BigEndian(v, n)) = n
           /\ FromBigEndian(BigEndian(v, n)) = v
<1> DEFINE b == BigEndian(v, n)
<1>1. ASSUME NEW i \in 1..n PROVE Shifted(v, n - i) \in Nat
  <2>1. n - i \in Nat
    OBVIOUS
  <2>2. QED
    BY <2>1, ShiftedStep
<1>2. \A i \in 1..n : b[i] = Shifted(v, n - i) % Base
  BY DEF BigEndian
<1>3. \A i \in 1..n : b[i] \in Byte
  BY <1>1, <1>2, DivMod
<1>4. b \in [1..n -> Byte]
  BY <1>3 DEF BigEndian
<1>5. b \in Seq(Byte) /\ Len(b) = n
  BY <1>4
<1> HIDE DEF b
<1>6. PICK f : Values(f, b) /\ FromBigEndian(b) = f[Len(b)]
  BY <1>5, FromBigEndianValues
<1> DEFINE T == {i \in Nat : i <= n => f[i] = Shifted(v, n - i)}
<1>7. 0 \in T
  BY <1>5, <1>6 DEF Values
<1>8. ASSUME NEW i \in Nat, i \in T PROVE i + 1 \in T
  <2> SUFFICES ASSUME i + 1 <= n PROVE f[i + 1] = Shifted(v, n - (i + 1))
    OBVIOUS
  <2> DEFINE k == n - (i + 1)
             x == Shifted(v, k)
  <2>1. k \in Nat /\ k + 1 = n - i /\ i + 1 \in 1..n
    OBVIOUS
  <2>2. x \in Nat /\ Shifted(v, k + 1) = x \div Base
    BY <2>1, ShiftedStep
  <2>3. f[i] = x \div Base
    BY <1>8, <2>1, <2>2
  <2>4. b[i + 1] = x % Base
    BY <1>2, <2>1
  <2>5. f[i + 1] = Base * f[i] + b[i + 1]
    <3>1. i + 1 \in 0..n /\ i + 1 # 0 /\ (i + 1) - 1 = i
      BY <2>1
    <3>2. QED
      BY <1>5, <1>6, <3>1 DEF Values
  <2> HIDE DEF x
  <2>6. x = Base * (x \div Base) + (x % Base)
    BY <2>2, DivMod
  <2>7. f[i + 1] = x
    BY <2>3, <2>4, <2>5, <2>6, Zenon
  <2>8. QED
    BY <2>7 DEF x
<1>9. Nat \subseteq T
  BY <1>7, <1>8, NatsBySteps
<1>10. f[n] = Shifted(v, n - n)
  BY <1>9
<1>11. n - n = 0 /\ Shifted(v, 0) = v
  BY ShiftedStep
<1>12. QED
  BY <1>5, <1>6, <1>10, <1>11 DEF b

\* 2 bytes hold what is below Base * Base.
LEMMA TwoBytes == \A n \in Nat : n < Base * Base => Shifted(n, 2) = 0
<1> SUFFICES ASSUME NEW n \in Nat, n < Base * Base PROVE Shifted(n, 2) = 0
  OBVIOUS
<1>1. /\ Shifted(n, 0) = n /\ Shifted(n, 0 + 1) = Shifted(n, 0) \div Base
      /\ Shifted(n, 1 + 1) = Shifted(n, 1) \div Base
  BY ShiftedStep
<1>2. n \div Base \in Nat /\ n \div Base < Base
  BY ByteFacts
<1>3. (n \div Base) \div Base = 0
  BY <1>2, ByteFacts
<1>4. QED
  BY <1>1, <1>3

-----------------------------------------------------------------------------
(* A frame and its bytes.                                                  *)

\* The first byte of a frame, and of its length: a flag and a number below it.
LEMMA FlagForm ==
    \A b \in BOOLEAN, m \in 0..Top - 1 :
       /\ Flag(b) + m \in Byte /\ (Flag(b) + m >= Top <=> b) /\ (Flag(b) + m) % Top = m
<1> SUFFICES ASSUME NEW b \in BOOLEAN, NEW m \in 0..Top - 1
             PROVE  /\ Flag(b) + m \in Byte /\ (Flag(b) + m >= Top <=> b)
                    /\ (Flag(b) + m) % Top = m
  OBVIOUS
<1>1. CASE b
  BY <1>1, ByteFacts, LowBits DEF Flag
<1>2. CASE ~b
  <2>1. Flag(b) + m = m
    BY <1>2 DEF Flag
  <2>2. QED
    BY <1>2, <2>1, ByteFacts, LowBits
<1>3. QED
  BY <1>1, <1>2

\* A byte before a sequence of bytes.
LEMMA PrefixForm ==
    ASSUME NEW x \in Byte, NEW s \in Seq(Byte)
    PROVE  /\ <<x>> \o s \in Seq(Byte) /\ Len(<<x>> \o s) = Len(s) + 1
           /\ (<<x>> \o s)[1] = x /\ \A i \in 1..Len(s) : (<<x>> \o s)[i + 1] = s[i]
<1>1. <<x>> \in Seq(Byte) /\ Len(<<x>>) = 1 /\ <<x>>[1] = x /\ Len(s) \in Nat
  OBVIOUS
<1>2. QED
  BY <1>1, ConcatProperties

\* What the bytes of a length tell.
LengthRead(n, mask, L) ==
    /\ L \in Seq(Byte) /\ Len(L) \in {1, 3, 9}
    /\ L[1] >= Top <=> mask
    /\ Len(L) = 1 => L[1] % Top = n /\ n # Escape2 /\ n # Escape8
    /\ Len(L) = 3 => L[1] % Top = Escape2
    /\ Len(L) = 9 => L[1] % Top = Escape8
    /\ \A d \in Seq(Byte) :
          Len(L) # 1 /\ Len(d) = Len(L) - 1 /\ (\A i \in 1..Len(d) : d[i] = L[i + 1])
             => FromBigEndian(d) = n

\* What LengthBytes writes tells the length and whether there is a mask.
LEMMA LengthForm ==
    ASSUME NEW n \in Nat, Shifted(n, 8) = 0, NEW mask \in BOOLEAN
    PROVE  LengthRead(n, mask, LengthBytes(n, mask))
<1> DEFINE L == LengthBytes(n, mask)
<1>1. /\ Escape2 \in 0..Top - 1 /\ Escape8 \in 0..Top - 1 /\ Escape2 # Escape8
      /\ Escape2 = Top - 2 /\ Escape8 = Top - 1 /\ Top \in Nat
  BY ByteFacts
<1>2. CASE n < Escape2
  <2>1. L = <<Flag(mask) + n>>
    BY <1>2 DEF LengthBytes
  <2>2. n \in 0..Top - 1 /\ n # Escape2 /\ n # Escape8
    BY <1>1, <1>2
  <2>3. Flag(mask) + n \in Byte /\ (Flag(mask) + n >= Top <=> mask) /\ (Flag(mask) + n) % Top = n
    BY <2>2, FlagForm
  <2>4. L \in Seq(Byte) /\ Len(L) = 1 /\ L[1] = Flag(mask) + n
    BY <2>1, <2>3
  <2>5. QED
    BY <2>2, <2>3, <2>4 DEF LengthRead
<1>3. ASSUME NEW k \in {2, 8}, NEW m \in 0..Top - 1, Shifted(n, k) = 0,
             (k = 2 => m = Escape2) /\ (k = 8 => m = Escape8),
             L = <<Flag(mask) + m>> \o BigEndian(n, k)
      PROVE  LengthRead(n, mask, L)
  <2> DEFINE b == BigEndian(n, k)
             x == Flag(mask) + m
  <2>1. b \in Seq(Byte) /\ Len(b) = k /\ FromBigEndian(b) = n
    BY <1>3, NumberReadBack
  <2>2. x \in Byte /\ (x >= Top <=> mask) /\ x % Top = m
    BY FlagForm
  <2>3. L = <<x>> \o b
    BY <1>3
  <2> HIDE DEF b, x, L
  <2>4. /\ L \in Seq(Byte) /\ Len(L) = k + 1 /\ L[1] = x
        /\ \A i \in 1..k : L[i + 1] = b[i]
    BY <2>1, <2>2, <2>3, PrefixForm
  <2>5. ASSUME NEW d \in Seq(Byte), Len(d) = Len(L) - 1, \A i \in 1..Len(d) : d[i] = L[i + 1]
        PROVE  FromBigEndian(d) = n
    <3>1. Len(d) = k /\ Len(b) = k
      BY <2>1, <2>4, <2>5
    <3>2. \A i \in 1..Len(d) : d[i] = b[i]
      BY <2>4, <2>5, <3>1
    <3>3. d = b
      BY <2>1, <3>1, <3>2, SeqEqual
    <3>4. QED
      BY <2>1, <3>3
  <2>6. Len(L) \in {3, 9} /\ (Len(L) = 3 => m = Escape2) /\ (Len(L) = 9 => m = Escape8)
    BY <1>3, <2>4
  <2>7. QED
    BY <2>2, <2>4, <2>5, <2>6 DEF LengthRead
<1>4. CASE ~(n < Escape2) /\ n < Base * Base
  <2>1. L = <<Flag(mask) + Escape2>> \o BigEndian(n, 2)
    BY <1>4 DEF LengthBytes
  <2>2. Shifted(n, 2) = 0
    BY <1>4, TwoBytes
  <2>3. 2 \in {2, 8} /\ 2 # 8 /\ Escape2 \in 0..Top - 1
    BY <1>1
  <2>4. QED
    BY <1>3, <2>1, <2>2, <2>3
<1>5. CASE ~(n < Escape2) /\ ~(n < Base * Base)
  <2>1. L = <<Flag(mask) + Escape8>> \o BigEndian(n, 8)
    BY <1>5 DEF LengthBytes
  <2>2. QED
    BY <1>1, <1>3, <2>1
<1>6. QED
  BY <1>2, <1>4, <1>5

\* A frame that the sender may encode.
Payloads == {p \in Seq(Byte) : Shifted(Len(p), 8) = 0}
FrameKeys == MaskKeys \cup {<<>>}

\* Length of the fields before the payload.
Head1(p, key) == 1 + Len(LengthBytes(Len(p), key # <<>>)) + Len(key)

\* A key has 4 bytes, or none.
LEMMA KeyForm ==
    ASSUME NEW key \in FrameKeys
    PROVE  /\ key \in Seq(Byte) /\ Len(key) \in {0, 4} /\ (Len(key) = 4 <=> key # <<>>)
<1>1. CASE key = <<>>
  BY <1>1
<1>2. CASE key \in MaskKeys
  <2>1. key \in [1..4 -> Byte]
    BY <1>2, WsFramesAssumption
  <2>2. key \in Seq(Byte) /\ DOMAIN key = 1..4
    BY <2>1, SeqDef
  <2>3. Len(key) \in Nat /\ DOMAIN key = 1..Len(key)
    BY <2>2, LenProperties
  <2>4. Len(key) = 4
    BY <2>2, <2>3
  <2>5. Len(<<>>) = 0
    OBVIOUS
  <2>6. key # <<>>
    BY <2>4, <2>5
  <2>7. QED
    BY <2>2, <2>4, <2>6
<1>3. QED
  BY <1>1, <1>2 DEF FrameKeys

\* The body of a frame has a byte for each of the payload, masked by the key if there is one.
LEMMA BodyForm ==
    ASSUME NEW p \in Seq(Byte), NEW key \in FrameKeys
    PROVE  LET body == IF key = <<>> THEN p ELSE Masked(p, key) IN
           /\ body \in Seq(Byte) /\ Len(body) = Len(p)
           /\ \A i \in 1..Len(p) :
                 body[i] = IF key = <<>> THEN p[i] ELSE ByteXor(p[i], key[((i - 1) % 4) + 1])
<1>1. CASE key = <<>>
  BY <1>1
<1>2. CASE key # <<>>
  <2> DEFINE q == Masked(p, key)
  <2>1. key \in Seq(Byte) /\ Len(key) = 4
    BY <1>2, KeyForm
  <2>2. ASSUME NEW i \in 1..Len(p) PROVE ByteXor(p[i], key[((i - 1) % 4) + 1]) \in Byte
    <3>1. p[i] \in Byte /\ ((i - 1) % 4) + 1 \in 1..Len(key)
      BY <2>1
    <3>2. key[((i - 1) % 4) + 1] \in Byte
      BY <2>1, <3>1, ElementOfSeq
    <3>3. QED
      BY <3>1, <3>2, WsFramesAssumption
  <2>3. q = [i \in 1..Len(p) |-> ByteXor(p[i], key[((i - 1) % 4) + 1])]
    BY DEF Masked
  <2>4. q \in [1..Len(p) -> Byte]
    BY <2>2, <2>3
  <2>5. q \in Seq(Byte) /\ Len(q) = Len(p)
    BY <2>4
  <2>6. QED
    BY <1>2, <2>3, <2>5
<1>3. QED
  BY <1>1, <1>2

\* What a frame has at each place: the first byte, the length, the key, the body.
LEMMA EncodeForm ==
    ASSUME NEW op \in 0..Top - 1, NEW p \in Payloads, NEW key \in FrameKeys, NEW fin \in BOOLEAN
    PROVE  LET e == Encode(op, p, key, fin)
               L == LengthBytes(Len(p), key # <<>>)
               h == Head1(p, key) IN
           /\ LengthRead(Len(p), key # <<>>, L)
           /\ e \in Seq(Byte) /\ Len(e) = h + Len(p)
           /\ e[1] = Flag(fin) + op
           /\ \A i \in 1..Len(L) : e[1 + i] = L[i]
           /\ \A i \in 1..Len(key) : e[1 + Len(L) + i] = key[i]
           /\ \A i \in 1..Len(p) :
                 e[h + i] = IF key = <<>> THEN p[i] ELSE ByteXor(p[i], key[((i - 1) % 4) + 1])
<1> DEFINE e == Encode(op, p, key, fin)
           L == LengthBytes(Len(p), key # <<>>)
           body == IF key = <<>> THEN p ELSE Masked(p, key)
           a == Flag(fin) + op
<1>1. p \in Seq(Byte) /\ Len(p) \in Nat /\ Shifted(Len(p), 8) = 0
  BY DEF Payloads
<1>2. LengthRead(Len(p), key # <<>>, L)
  BY <1>1, LengthForm
<1>3. L \in Seq(Byte) /\ Len(L) \in Nat
  BY <1>2 DEF LengthRead
<1>4. key \in Seq(Byte) /\ Len(key) \in Nat
  BY KeyForm
<1>5. /\ body \in Seq(Byte) /\ Len(body) = Len(p)
      /\ \A i \in 1..Len(p) :
            body[i] = IF key = <<>> THEN p[i] ELSE ByteXor(p[i], key[((i - 1) % 4) + 1])
  BY <1>1, BodyForm
<1>6. a \in Byte
  BY FlagForm
<1>7. e = ((<<a>> \o L) \o key) \o body
  BY DEF Encode
<1>8. Head1(p, key) = 1 + Len(L) + Len(key)
  BY DEF Head1
<1> HIDE DEF e, L, body, a
<1> DEFINE s == <<a>> \o L
           t == s \o key
<1>9. /\ s \in Seq(Byte) /\ Len(s) = Len(L) + 1 /\ s[1] = a
      /\ \A i \in 1..Len(L) : s[i + 1] = L[i]
  BY <1>3, <1>6, PrefixForm
<1>10. e = t \o body
  BY <1>7
<1> HIDE DEF s
<1>11. /\ t \in Seq(Byte) /\ Len(t) = Len(s) + Len(key)
       /\ \A i \in 1..Len(s) + Len(key) : t[i] = IF i <= Len(s) THEN s[i] ELSE key[i - Len(s)]
  BY <1>4, <1>9, ConcatProperties
<1> HIDE DEF t
<1>12. /\ e \in Seq(Byte) /\ Len(e) = Len(t) + Len(body)
       /\ \A i \in 1..Len(t) + Len(body) :
             e[i] = IF i <= Len(t) THEN t[i] ELSE body[i - Len(t)]
  <2>1. t \in Seq(Byte) /\ body \in Seq(Byte)
    BY <1>5, <1>11
  <2>2. QED
    BY <1>10, <2>1, ConcatProperties
<1>13. Len(t) = 1 + Len(L) + Len(key) /\ Len(e) = Len(t) + Len(p)
  BY <1>3, <1>4, <1>5, <1>9, <1>11, <1>12
<1>14. e[1] = a
  BY <1>1, <1>3, <1>4, <1>5, <1>9, <1>11, <1>12, <1>13
<1>15. ASSUME NEW i \in 1..Len(L) PROVE e[1 + i] = L[i]
  BY <1>1, <1>3, <1>4, <1>5, <1>9, <1>11, <1>12, <1>13
<1>16. ASSUME NEW i \in 1..Len(key) PROVE e[1 + Len(L) + i] = key[i]
  BY <1>1, <1>3, <1>4, <1>5, <1>9, <1>11, <1>12, <1>13
<1>17. ASSUME NEW i \in 1..Len(p) PROVE e[Len(t) + i] = body[i]
  <2>1. /\ Len(t) + i \in 1..Len(t) + Len(body) /\ ~(Len(t) + i <= Len(t))
        /\ (Len(t) + i) - Len(t) = i
    BY <1>1, <1>3, <1>4, <1>5, <1>13
  <2>2. QED
    BY <1>12, <2>1
<1>18. QED
  BY <1>2, <1>5, <1>8, <1>12, <1>13, <1>14, <1>15, <1>16, <1>17 DEF e, L, a

-----------------------------------------------------------------------------
(* Reading a frame from a buffer that holds it, or part of it.             *)

Agrees(x, e) == \A i \in 1..Len(x) : i <= Len(e) => x[i] = e[i]

\* The fields before the payload are read as they were written, however much has arrived.
LEMMA HeadRead ==
    ASSUME NEW op \in 0..Top - 1, NEW p \in Payloads, NEW key \in FrameKeys, NEW fin \in BOOLEAN,
           NEW x \in Seq(Byte), Len(x) >= 2, Agrees(x, Encode(op, p, key, fin))
    PROVE  /\ HeadLen(x) = Head1(p, key) /\ KeyLen(x) = Len(key)
           /\ Len(x) >= Head1(p, key) => PayloadLen(x) = Len(p)
<1> DEFINE e == Encode(op, p, key, fin)
           L == LengthBytes(Len(p), key # <<>>)
           h == Head1(p, key)
           n == Len(p)
<1>1. n \in Nat /\ Len(x) \in Nat
  BY DEF Payloads
<1>2. /\ LengthRead(n, key # <<>>, L) /\ Len(e) = h + n /\ \A i \in 1..Len(L) : e[1 + i] = L[i]
  BY EncodeForm
<1>3. Len(key) \in {0, 4} /\ (Len(key) = 4 <=> key # <<>>)
  BY KeyForm
<1>4. /\ h = 1 + Len(L) + Len(key) /\ h \in Nat /\ h >= 2
      /\ Len(L) \in Nat /\ Len(L) >= 1
  <2>1. Len(key) \in Nat
    BY <1>3
  <2>2. Len(L) \in Nat /\ Len(L) >= 1
    BY <1>2 DEF LengthRead
  <2>3. h = 1 + Len(L) + Len(key)
    BY DEF Head1
  <2> HIDE DEF h, L
  <2>4. QED
    BY <2>1, <2>2, <2>3
<1>5. \A i \in 1..Len(x) : i <= Len(e) => x[i] = e[i]
  BY DEF Agrees
<1> HIDE DEF e, L, h, n
<1>6. Len(L) \in {1, 3, 9}
  BY <1>2 DEF LengthRead
<1>7. x[2] = L[1]
  <2>1. 2 \in 1..Len(x) /\ 2 <= Len(e) /\ 1 \in 1..Len(L) /\ 1 + 1 = 2
    <3>1. Len(e) = h + n
      BY <1>2
    <3>2. h \in Nat /\ h >= 2
      BY <1>4
    <3>3. Len(L) \in Nat /\ Len(L) >= 1
      BY <1>4
    <3>4. QED
      BY <1>1, <3>1, <3>2, <3>3
  <2>2. QED
    BY <1>2, <1>5, <2>1
<1>8. Escape2 # Escape8
  BY ByteFacts
<1>9. KeyLen(x) = Len(key)
  BY <1>2, <1>3, <1>7 DEF KeyLen, LengthRead
<1>10. Extended(x) = Len(L) - 1
  BY <1>2, <1>6, <1>7, <1>8 DEF Extended, LengthRead
<1>11. HeadLen(x) = h
  BY <1>3, <1>4, <1>6, <1>9, <1>10 DEF HeadLen
<1>12. ASSUME Len(x) >= h PROVE PayloadLen(x) = n
  <2>1. CASE Len(L) = 1
    <3>1. Extended(x) = 0
      BY <1>10, <2>1
    <3>2. x[2] % Top = n
      BY <1>2, <1>7, <2>1 DEF LengthRead
    <3>3. QED
      BY <3>1, <3>2 DEF PayloadLen
  <2>2. CASE Len(L) # 1
    <3> DEFINE k == Len(L) - 1
               d == SubSeq(x, 3, 2 + k)
    <3>1. Extended(x) = k /\ k \in {2, 8} /\ Len(L) = k + 1
      BY <1>6, <1>10, <2>2
    <3>2. 2 + k <= Len(x) /\ 2 + k <= Len(e)
      BY <1>1, <1>2, <1>3, <1>4, <1>12, <3>1
    <3> HIDE DEF k
    <3>3. \A i \in 3..2 + k : x[i] \in Byte
      BY <1>1, <3>1, <3>2
    <3>4. d \in Seq(Byte) /\ Len(d) = k /\ \A i \in 1..k : d[i] = x[3 + i - 1]
      <4>1. 3 \in Int /\ 2 + k \in Int /\ 3 <= 2 + k /\ (2 + k) - 3 + 1 = k
        BY <3>1
      <4>2. QED
        BY <3>3, <4>1, SubSeqProperties
    <3> HIDE DEF d
    <3>5. ASSUME NEW i \in 1..k PROVE d[i] = L[i + 1]
      <4>1. /\ 3 + i - 1 \in 1..Len(x) /\ 3 + i - 1 <= Len(e)
            /\ 3 + i - 1 = 1 + (i + 1) /\ i + 1 \in 1..Len(L)
        BY <1>1, <3>1, <3>2
      <4>2. d[i] = e[1 + (i + 1)]
        BY <1>5, <3>4, <4>1
      <4>3. QED
        BY <1>2, <4>1, <4>2
    <3>6. FromBigEndian(d) = n
      BY <1>2, <2>2, <3>1, <3>4, <3>5 DEF LengthRead
    <3>7. PayloadLen(x) = FromBigEndian(d)
      BY <3>1 DEF PayloadLen, d
    <3>8. QED
      BY <3>6, <3>7
  <2>3. QED
    BY <2>1, <2>2
<1>13. QED
  BY <1>9, <1>11, <1>12 DEF h, n

\* A mask applied twice leaves the payload.
LEMMA Unmasked ==
    ASSUME NEW p \in Seq(Byte), NEW key \in MaskKeys, NEW k, NEW q,
           \A i \in 1..4 : k[i] = key[i],
           Len(q) = Len(p),
           \A i \in 1..Len(p) : q[i] = ByteXor(p[i], key[((i - 1) % 4) + 1])
    PROVE  Masked(q, k) = p
<1>1. Len(p) \in Nat /\ p = [i \in 1..Len(p) |-> p[i]]
  OBVIOUS
<1>2. key \in [1..4 -> Byte]
  BY WsFramesAssumption
<1>3. ASSUME NEW i \in 1..Len(p) PROVE ByteXor(q[i], k[((i - 1) % 4) + 1]) = p[i]
  <2> DEFINE j == ((i - 1) % 4) + 1
  <2>1. j \in 1..4
    BY <1>1
  <2>2. q[i] = ByteXor(p[i], key[j])
    OBVIOUS
  <2> HIDE DEF j
  <2>3. k[j] = key[j] /\ key[j] \in Byte /\ p[i] \in Byte
    BY <1>1, <1>2, <2>1
  <2>4. ByteXor(ByteXor(p[i], key[j]), key[j]) = p[i]
    BY <2>3, WsFramesAssumption
  <2>5. QED
    BY <2>2, <2>3, <2>4 DEF j
<1>4. Masked(q, k) = [i \in 1..Len(p) |-> ByteXor(q[i], k[((i - 1) % 4) + 1])]
  BY DEF Masked
<1>5. QED
  BY <1>1, <1>3, <1>4

\* A frame is there when its last byte is, and then it is read as it was sent.
LEMMA FrameRead ==
    ASSUME NEW op \in 0..Top - 1, NEW p \in Payloads, NEW key \in FrameKeys, NEW fin \in BOOLEAN,
           NEW x \in Seq(Byte), Agrees(x, Encode(op, p, key, fin))
    PROVE  /\ HasFrame(x) <=> Len(x) >= Len(Encode(op, p, key, fin))
           /\ HasFrame(x) => /\ FrameEnd(x) = Len(Encode(op, p, key, fin))
                             /\ FirstFrame(x) = [opcode |-> op, fin |-> fin, payload |-> p]
<1> DEFINE e == Encode(op, p, key, fin)
           L == LengthBytes(Len(p), key # <<>>)
           h == Head1(p, key)
<1>1. p \in Seq(Byte) /\ Len(p) \in Nat /\ Len(x) \in Nat
  BY DEF Payloads
<1>2. /\ LengthRead(Len(p), key # <<>>, L) /\ Len(e) = h + Len(p) /\ e[1] = Flag(fin) + op
      /\ \A i \in 1..Len(key) : e[1 + Len(L) + i] = key[i]
      /\ \A i \in 1..Len(p) :
            e[h + i] = IF key = <<>> THEN p[i] ELSE ByteXor(p[i], key[((i - 1) % 4) + 1])
  BY EncodeForm
<1>3. Len(key) \in {0, 4} /\ (Len(key) = 4 <=> key # <<>>)
  BY KeyForm
<1>4. h = 1 + Len(L) + Len(key) /\ Len(L) \in {1, 3, 9} /\ h \in Nat /\ h >= 2
  <2>1. Len(key) \in Nat
    BY <1>3
  <2>2. Len(L) \in {1, 3, 9} /\ Len(L) \in Nat /\ Len(L) >= 1
    BY <1>2 DEF LengthRead
  <2>3. h = 1 + Len(L) + Len(key)
    BY DEF Head1
  <2> HIDE DEF h, L
  <2>4. QED
    BY <2>1, <2>2, <2>3
<1>5. \A i \in 1..Len(x) : i <= Len(e) => x[i] = e[i]
  BY DEF Agrees
<1>6. Len(x) >= 2 => /\ HeadLen(x) = h /\ KeyLen(x) = Len(key)
                     /\ Len(x) >= h => PayloadLen(x) = Len(p)
  BY HeadRead
<1> HIDE DEF e, L, h
<1>7. HasFrame(x) <=> Len(x) >= Len(e)
  BY <1>1, <1>2, <1>3, <1>4, <1>6 DEF HasFrame
<1>8. ASSUME HasFrame(x)
      PROVE  FrameEnd(x) = Len(e) /\ FirstFrame(x) = [opcode |-> op, fin |-> fin, payload |-> p]
  <2>1. Len(x) >= Len(e) /\ Len(x) >= 2 /\ Len(x) >= h /\ h >= 2
    <3>1. Len(e) = h + Len(p)
      BY <1>2
    <3>2. QED
      BY <1>1, <1>4, <1>7, <1>8, <3>1
  <2>2. HeadLen(x) = h /\ KeyLen(x) = Len(key) /\ PayloadLen(x) = Len(p)
    BY <1>6, <2>1
  <2>3. FrameEnd(x) = Len(e)
    BY <1>2, <2>2 DEF FrameEnd
  <2>4. \A i \in 1..Len(e) : x[i] = e[i]
    BY <1>1, <1>2, <1>3, <1>4, <1>5, <2>1
  <2>5. (x[1] >= Top <=> fin) /\ x[1] % Top = op
    <3>1. Len(e) \in Nat /\ Len(e) >= 2
      BY <1>1, <1>2, <1>3, <1>4, <2>1
    <3>2. x[1] = Flag(fin) + op
      BY <1>2, <2>4, <3>1
    <3>3. QED
      BY <3>2, FlagForm
  <2> DEFINE body == SubSeq(x, h + 1, Len(e))
             k == SubSeq(x, h - 3, h)
  <2>6. /\ body \in Seq(Byte) /\ Len(body) = Len(p)
        /\ \A i \in 1..Len(p) : body[i] = e[h + i]
    <3>1. h + 1 \in Int /\ Len(e) \in Int /\ h \in Nat
      BY <1>1, <1>2, <1>3, <1>4
    <3>2. \A i \in h + 1..Len(e) : x[i] \in Byte
      BY <2>1, <3>1
    <3>3. /\ body \in Seq(Byte)
          /\ Len(body) = IF h + 1 <= Len(e) THEN Len(e) - (h + 1) + 1 ELSE 0
          /\ \A i \in 1..Len(e) - (h + 1) + 1 : body[i] = x[(h + 1) + i - 1]
      BY <3>1, <3>2, SubSeqProperties
    <3> HIDE DEF body
    <3>4. Len(body) = Len(p)
      BY <1>1, <1>2, <3>1, <3>3
    <3>5. ASSUME NEW i \in 1..Len(p) PROVE body[i] = e[h + i]
      <4>1. i \in 1..Len(e) - (h + 1) + 1 /\ (h + 1) + i - 1 = h + i /\ h + i \in 1..Len(e)
        BY <1>1, <1>2, <3>1
      <4>2. QED
        BY <2>4, <3>3, <4>1
    <3>6. QED
      BY <3>3, <3>4, <3>5
  <2>7. (IF KeyLen(x) = 0 THEN body ELSE Masked(body, k)) = p
    <3> HIDE DEF body
    <3>1. CASE key = <<>>
      <4>1. KeyLen(x) = 0
        BY <1>3, <2>2, <3>1
      <4>2. \A i \in 1..Len(p) : body[i] = p[i]
        BY <1>2, <2>6, <3>1
      <4>3. body = p
        BY <1>1, <2>6, <4>2, SeqEqual
      <4>4. QED
        BY <4>1, <4>3
    <3>2. CASE key # <<>>
      <4>1. key \in MaskKeys /\ Len(key) = 4 /\ KeyLen(x) = 4
        BY <1>3, <2>2, <3>2 DEF FrameKeys
      <4>2. h \in Nat /\ h - 3 = 1 + Len(L) + 1 /\ Len(L) \in Nat
        BY <1>4, <4>1
      <4>3. \A i \in h - 3..h : x[i] \in Byte
        BY <2>1, <4>2
      <4>4. \A i \in 1..h - (h - 3) + 1 : k[i] = x[(h - 3) + i - 1]
        <5>1. h - 3 \in Int /\ h \in Int
          BY <4>2
        <5>2. QED
          BY <4>3, <5>1, SubSeqProperties
      <4> HIDE DEF k
      <4>5. ASSUME NEW i \in 1..4 PROVE k[i] = key[i]
        <5>1. /\ i \in 1..h - (h - 3) + 1 /\ (h - 3) + i - 1 = 1 + Len(L) + i
              /\ 1 + Len(L) + i \in 1..Len(e) /\ i \in 1..Len(key)
          BY <1>1, <1>2, <1>4, <4>1, <4>2
        <5>2. QED
          BY <1>2, <2>4, <4>4, <5>1
      <4>6. \A i \in 1..Len(p) : body[i] = ByteXor(p[i], key[((i - 1) % 4) + 1])
        BY <1>2, <2>6, <3>2
      <4>7. Len(body) = Len(p)
        BY <2>6
      <4>8. Masked(body, k) = p
        BY <1>1, <4>1, <4>5, <4>6, <4>7, Unmasked
      <4>9. QED
        BY <4>1, <4>8
    <3>3. QED
      BY <3>1, <3>2
  <2>8. FrameEnd(x) = Len(e) /\ HeadLen(x) = h
    BY <2>2, <2>3
  <2>9. FirstFrame(x) =
           [opcode |-> x[1] % Top, fin |-> x[1] >= Top,
            payload |-> IF KeyLen(x) = 0 THEN body ELSE Masked(body, k)]
    BY <2>8 DEF FirstFrame
  <2> HIDE DEF body, k
  <2>10. QED
    BY <2>3, <2>5, <2>7, <2>9
<1>9. QED
  BY <1>7, <1>8 DEF e

-----------------------------------------------------------------------------
(* A stream of frames and the buffer that is decoded.                      *)

Frame == [opcode : 0..Top - 1, fin : BOOLEAN, payload : Payloads]

IsFrame(e, f) == \E key \in FrameKeys : e = Encode(f.opcode, f.payload, key, f.fin)

\* The bytes s are the frames fs, of which the i-th ends at c[i].
Cuts(s, c, fs) ==
    /\ s \in Seq(Byte) /\ fs \in Seq(Frame) /\ c \in [0..Len(fs) -> Nat]
    /\ c[0] = 0 /\ c[Len(fs)] = Len(s)
    /\ \A i, j \in 0..Len(fs) : i <= j => c[j] - c[i] >= j - i
    /\ \A i \in 1..Len(fs) : IsFrame(SubSeq(s, c[i - 1] + 1, c[i]), fs[i])

\* What j turns of the loop make of the first n bytes.
After(s, c, fs, n, j) ==
    [frames |-> SubSeq(fs, 1, j), left |-> SubSeq(s, c[j] + 1, n)]

\* The elements of a part of a sequence.
LEMMA PartOf ==
    ASSUME NEW S, NEW s \in Seq(S), NEW m \in 1..Len(s) + 1, NEW n \in m - 1..Len(s)
    PROVE  /\ SubSeq(s, m, n) \in Seq(S) /\ Len(SubSeq(s, m, n)) = n - m + 1
           /\ \A i \in 1..n - m + 1 : SubSeq(s, m, n)[i] = s[m + i - 1]
<1>1. Len(s) \in Nat /\ m \in Int /\ n \in Int /\ m - 1 <= n
  OBVIOUS
<1>2. \A i \in m..n : s[i] \in S
  OBVIOUS
<1>3. /\ SubSeq(s, m, n) \in Seq(S)
      /\ Len(SubSeq(s, m, n)) = IF m <= n THEN n - m + 1 ELSE 0
      /\ \A i \in 1..n - m + 1 : SubSeq(s, m, n)[i] = s[m + i - 1]
  BY <1>1, <1>2, SubSeqProperties
<1>4. QED
  BY <1>1, <1>3

\* The same, counted from the place before the part.
LEMMA PartFrom ==
    ASSUME NEW S, NEW s \in Seq(S), NEW m \in 0..Len(s), NEW n \in m..Len(s)
    PROVE  /\ SubSeq(s, m + 1, n) \in Seq(S) /\ Len(SubSeq(s, m + 1, n)) = n - m /\ n - m \in Nat
           /\ \A i \in 1..n - m : SubSeq(s, m + 1, n)[i] = s[m + i]
<1> DEFINE q == SubSeq(s, m + 1, n)
           k == m + 1
<1>1. k \in 1..Len(s) + 1 /\ n \in k - 1..Len(s) /\ n - k + 1 = n - m /\ n - m \in Nat
  OBVIOUS
<1>2. \A i \in Nat : k + i - 1 = m + i
  OBVIOUS
<1>3. q = SubSeq(s, k, n)
  OBVIOUS
<1> HIDE DEF k, q
<1>4. q \in Seq(S) /\ Len(q) = n - k + 1 /\ \A i \in 1..n - k + 1 : q[i] = s[k + i - 1]
  BY <1>1, <1>3, PartOf
<1>5. ASSUME NEW i \in 1..n - m PROVE q[i] = s[m + i]
  <2>1. i \in 1..n - k + 1 /\ k + i - 1 = m + i
    BY <1>1, <1>2
  <2>2. QED
    BY <1>4, <2>1
<1>6. QED
  BY <1>1, <1>4, <1>5 DEF q

\* After j frames of the first n bytes, one more turn takes the next if its end is among them.
LEMMA TurnCuts ==
    ASSUME NEW s, NEW c, NEW fs, Cuts(s, c, fs), NEW n \in 0..Len(s),
           NEW j \in 0..Len(fs), c[j] <= n
    PROVE  LET d == After(s, c, fs, n, j) IN
           /\ HasFrame(d.left) <=> j < Len(fs) /\ c[j + 1] <= n
           /\ HasFrame(d.left) => Turn(d) = After(s, c, fs, n, j + 1)
           /\ ~HasFrame(d.left) => Turn(d) = d
<1> DEFINE x == SubSeq(s, c[j] + 1, n)
           M == Len(fs)
           d == After(s, c, fs, n, j)
           a == c[j]
<1>1. /\ s \in Seq(Byte) /\ fs \in Seq(Frame) /\ c \in [0..M -> Nat] /\ c[M] = Len(s)
  BY DEF Cuts
<1>2. /\ Len(s) \in Nat /\ M \in Nat /\ a \in Nat /\ a <= n /\ n \in Nat /\ n <= Len(s)
      /\ j \in Nat /\ j <= M
  BY <1>1
<1>3. d.left = x /\ d.frames = SubSeq(fs, 1, j)
  BY DEF After
<1> HIDE DEF a
<1>4. /\ x \in Seq(Byte) /\ Len(x) = n - a /\ Len(x) \in Nat
      /\ \A i \in 1..Len(x) : x[i] = s[a + i]
  <2>1. a \in 0..Len(s) /\ n \in a..Len(s)
    BY <1>2
  <2>2. x = SubSeq(s, a + 1, n)
    BY DEF a
  <2> HIDE DEF x
  <2>3. x \in Seq(Byte) /\ Len(x) = n - a /\ n - a \in Nat /\ \A i \in 1..n - a : x[i] = s[a + i]
    BY <1>1, <2>1, <2>2, PartFrom
  <2>4. QED
    BY <2>3
<1>5. Turn(d) = IF HasFrame(x)
                THEN [frames |-> Append(SubSeq(fs, 1, j), FirstFrame(x)), left |-> Rest(x)]
                ELSE d
  BY <1>3 DEF Turn
<1>6. CASE j = M
  <2>1. Len(x) < 2
    <3>1. a = Len(s)
      BY <1>1, <1>6 DEF a
    <3>2. Len(x) = n - a
      BY <1>4
    <3> HIDE DEF x, M
    <3>3. QED
      BY <1>2, <3>1, <3>2
  <2>2. ~HasFrame(x)
    BY <2>1, <1>4 DEF HasFrame
  <2>3. QED
    BY <1>3, <1>5, <1>6, <2>2
<1>7. CASE j # M
  <2> DEFINE e == SubSeq(s, c[j] + 1, c[j + 1])
             f == fs[j + 1]
             b == c[j + 1]
  <2>1. j + 1 \in 1..M /\ j + 1 \in 0..M /\ (j + 1) - 1 = j /\ j < M
    BY <1>2, <1>7
  <2>2. b \in Nat /\ b - a >= 1 /\ b <= Len(s)
    <3>1. c[j + 1] - c[j] >= (j + 1) - j /\ c[M] - c[j + 1] >= M - (j + 1)
      <4>1. j <= j + 1 /\ j + 1 <= M /\ M \in 0..M
        BY <1>2, <2>1
      <4>2. QED
        BY <2>1, <4>1 DEF Cuts
    <3>2. b \in Nat
      BY <1>1, <2>1
    <3>3. b - a >= (j + 1) - j /\ Len(s) - b >= M - (j + 1)
      BY <1>1, <3>1 DEF a
    <3> HIDE DEF b
    <3>4. QED
      BY <1>2, <2>1, <3>2, <3>3
  <2> HIDE DEF b
  <2>3. /\ e \in Seq(Byte) /\ Len(e) = b - a /\ Len(e) \in Nat
        /\ \A i \in 1..Len(e) : e[i] = s[a + i]
    <3>1. a \in 0..Len(s) /\ b \in a..Len(s)
      BY <1>2, <2>2
    <3>2. e = SubSeq(s, a + 1, b)
      BY DEF a, b
    <3> HIDE DEF e
    <3>3. e \in Seq(Byte) /\ Len(e) = b - a /\ b - a \in Nat /\ \A i \in 1..b - a : e[i] = s[a + i]
      BY <1>1, <3>1, <3>2, PartFrom
    <3>4. QED
      BY <3>3
  <2>4. Agrees(x, e)
    <3> HIDE DEF x, e
    <3>1. QED
      BY <1>4, <2>3 DEF Agrees
  <2>5. PICK key \in FrameKeys : e = Encode(f.opcode, f.payload, key, f.fin)
    <3>1. IsFrame(SubSeq(s, c[(j + 1) - 1] + 1, c[j + 1]), fs[j + 1])
      BY <2>1 DEF Cuts
    <3>2. IsFrame(e, f)
      BY <2>1, <3>1 DEF a, b
    <3>3. QED
      BY <3>2 DEF IsFrame
  <2>6. f.opcode \in 0..Top - 1 /\ f.payload \in Payloads /\ f.fin \in BOOLEAN /\ f \in Frame
    <3>1. f \in Frame
      BY <1>1, <2>1, ElementOfSeq
    <3> HIDE DEF f
    <3>2. QED
      BY <3>1 DEF Frame
  <2>7. f = [opcode |-> f.opcode, fin |-> f.fin, payload |-> f.payload]
    BY <2>6 DEF Frame
  <2> HIDE DEF x, e, f, d
  <2>8. /\ HasFrame(x) <=> Len(x) >= Len(e)
        /\ HasFrame(x) => FrameEnd(x) = Len(e) /\ FirstFrame(x) = f
    <3>1. Agrees(x, Encode(f.opcode, f.payload, key, f.fin))
      BY <2>4, <2>5
    <3>2. /\ HasFrame(x) <=> Len(x) >= Len(Encode(f.opcode, f.payload, key, f.fin))
          /\ HasFrame(x) =>
                /\ FrameEnd(x) = Len(Encode(f.opcode, f.payload, key, f.fin))
                /\ FirstFrame(x) = [opcode |-> f.opcode, fin |-> f.fin, payload |-> f.payload]
      BY <1>4, <2>5, <2>6, <3>1, FrameRead
    <3>3. QED
      BY <2>5, <2>7, <3>2
  <2>9. HasFrame(x) <=> b <= n
    <3>1. Len(x) = n - a /\ Len(e) = b - a
      BY <1>4, <2>3
    <3>2. QED
      BY <1>2, <2>2, <2>8, <3>1
  <2>10. ASSUME HasFrame(x) PROVE Turn(d) = After(s, c, fs, n, j + 1)
    <3>1. Append(SubSeq(fs, 1, j), f) = SubSeq(fs, 1, j + 1)
      <4> DEFINE q == SubSeq(fs, 1, j)
                 r == SubSeq(fs, 1, j + 1)
      <4>1. /\ q \in Seq(Frame) /\ Len(q) = j - 1 + 1
            /\ \A i \in 1..j - 1 + 1 : q[i] = fs[1 + i - 1]
        <5>1. 1 \in 1..M + 1 /\ j \in 1 - 1..M
          BY <1>2, <2>1
        <5>2. QED
          BY <1>1, <5>1, PartOf
      <4>2. /\ r \in Seq(Frame) /\ Len(r) = (j + 1) - 1 + 1
            /\ \A i \in 1..(j + 1) - 1 + 1 : r[i] = fs[1 + i - 1]
        <5>1. 1 \in 1..M + 1 /\ j + 1 \in 1 - 1..M
          BY <1>2, <2>1
        <5>2. QED
          BY <1>1, <5>1, PartOf
      <4> HIDE DEF q, r
      <4>3. /\ Append(q, f) \in Seq(Frame) /\ Len(Append(q, f)) = j + 1
            /\ \A i \in 1..j : Append(q, f)[i] = q[i]
            /\ Append(q, f)[j + 1] = f
        BY <2>6, <4>1, AppendProperties
      <4>4. \A i \in 1..j + 1 : Append(q, f)[i] = r[i]
        BY <4>1, <4>2, <4>3 DEF f
      <4>5. Len(r) = j + 1
        BY <4>2
      <4>6. Append(q, f) = r
        BY <4>2, <4>3, <4>4, <4>5, SeqEqual
      <4>7. QED
        BY <4>6 DEF q, r
    <3>2. Rest(x) = SubSeq(s, b + 1, n)
      <4> DEFINE l == Len(e)
                 m == Len(x)
                 y == SubSeq(x, l + 1, m)
                 z == SubSeq(s, b + 1, n)
      <4>1. /\ l \in Nat /\ m \in Nat /\ l <= m /\ b <= n /\ m = n - a /\ l = b - a
        BY <1>4, <2>3, <2>8, <2>9, <2>10
      <4>2. Rest(x) = y
        BY <2>8, <2>10 DEF Rest
      <4>3. \A i \in 1..m : x[i] = s[a + i]
        BY <1>4
      <4> HIDE DEF l
      <4>4. y \in Seq(Byte) /\ Len(y) = m - l /\ \A i \in 1..m - l : y[i] = x[l + i]
        <5>1. l \in 0..Len(x) /\ Len(x) \in l..Len(x)
          BY <4>1
        <5>2. x \in Seq(Byte)
          BY <1>4
        <5>3. QED
          BY <5>1, <5>2, PartFrom
      <4>5. z \in Seq(Byte) /\ Len(z) = n - b /\ \A i \in 1..n - b : z[i] = s[b + i]
        <5>1. b \in 0..Len(s) /\ n \in b..Len(s)
          BY <1>2, <2>2, <4>1
        <5>2. QED
          BY <1>1, <5>1, PartFrom
      <4> HIDE DEF m, y, z
      <4>6. m - l = n - b
        BY <1>2, <2>2, <4>1
      <4>7. Len(y) = n - b /\ Len(z) = n - b
        BY <4>4, <4>5, <4>6
      <4>8. ASSUME NEW i \in 1..n - b PROVE y[i] = z[i]
        <5>1. l + i \in 1..m /\ a + (l + i) = b + i
          BY <1>2, <2>2, <4>1
        <5>2. y[i] = x[l + i] /\ z[i] = s[b + i]
          BY <4>4, <4>5, <4>6
        <5>3. x[l + i] = s[a + (l + i)]
          BY <4>3, <5>1
        <5>4. QED
          BY <5>1, <5>2, <5>3
      <4>9. y = z
        BY <4>4, <4>5, <4>7, <4>8, SeqEqual
      <4>10. QED
        BY <4>2, <4>9 DEF z
    <3>3. QED
      BY <1>5, <2>8, <2>10, <3>1, <3>2 DEF After, b
  <2>11. ~HasFrame(x) => Turn(d) = d
    BY <1>5
  <2>12. QED
    BY <1>3, <2>1, <2>9, <2>10, <2>11 DEF d, b
<1>8. QED
  BY <1>6, <1>7

\* The loop of Decode over b.
Turns(f, b) ==
    f = [n \in 0..Len(b) |->
            IF n = 0 THEN [frames |-> <<>>, left |-> b] ELSE Turn(f[n - 1])]

\* Decode is where the turns of its loop stop.
LEMMA DecodeTurns ==
    ASSUME NEW b, \E f : Turns(f, b)
    PROVE  \E f : /\ Turns(f, b)
                  /\ Decode(b) = f[CHOOSE n \in 0..Len(b) : ~HasFrame(f[n].left)]
BY DEF Decode, Turns

\* Of the first n bytes of a stream, Decode gives the frames that end there.
LEMMA DecodeCuts ==
    ASSUME NEW s, NEW c, NEW fs, Cuts(s, c, fs), NEW n \in 0..Len(s)
    PROVE  \E j \in 0..Len(fs) :
              /\ c[j] <= n /\ (j < Len(fs) => n < c[j + 1])
              /\ Decode(SubSeq(s, 1, n)) = After(s, c, fs, n, j)
<1> DEFINE M == Len(fs)
           b == SubSeq(s, 1, n)
           A(j) == After(s, c, fs, n, j)
           J == {j \in 0..M : c[j] <= n}
           X == {A(j) : j \in J}
           zero == [frames |-> <<>>, left |-> b]
<1>1. /\ s \in Seq(Byte) /\ fs \in Seq(Frame) /\ c \in [0..M -> Nat] /\ c[0] = 0
      /\ Len(s) \in Nat /\ M \in Nat /\ n \in Nat
  BY DEF Cuts
<1>2. Len(b) = n
  <2>1. 1 \in 1..Len(s) + 1 /\ n \in 1 - 1..Len(s) /\ n - 1 + 1 = n
    BY <1>1
  <2>2. QED
    BY <1>1, <2>1, PartOf
<1>3. zero = A(0) /\ 0 \in J /\ J \subseteq 0..M
  <2>1. SubSeq(fs, 1, 0) = <<>>
    BY SubSeqEmpty
  <2>2. 0 + 1 = 1
    OBVIOUS
  <2>3. zero = A(0)
    BY <1>1, <2>1, <2>2 DEF After
  <2>4. QED
    BY <1>1, <2>3
<1>4. ASSUME NEW j \in J
      PROVE  /\ HasFrame(A(j).left) <=> j < M /\ c[j + 1] <= n
             /\ HasFrame(A(j).left) => j + 1 \in J /\ Turn(A(j)) = A(j + 1)
             /\ ~HasFrame(A(j).left) => Turn(A(j)) = A(j)
  <2>1. j \in 0..M /\ c[j] <= n
    OBVIOUS
  <2>2. /\ HasFrame(A(j).left) <=> j < M /\ c[j + 1] <= n
        /\ HasFrame(A(j).left) => Turn(A(j)) = A(j + 1)
        /\ ~HasFrame(A(j).left) => Turn(A(j)) = A(j)
    BY <2>1, TurnCuts
  <2> HIDE DEF A
  <2>3. j < M => j + 1 \in 0..M
    BY <1>1, <2>1
  <2>4. QED
    BY <2>2, <2>3
<1>5. \A j \in J : j <= n
  <2> SUFFICES ASSUME NEW j \in J PROVE j <= n
    OBVIOUS
  <2>1. j \in 0..M /\ 0 \in 0..M /\ 0 <= j /\ c[j] <= n
    BY <1>1
  <2>2. c[j] - c[0] >= j - 0
    BY <2>1 DEF Cuts
  <2>3. c[j] \in Nat /\ c[0] = 0
    BY <1>1, <2>1
  <2>4. QED
    BY <1>1, <2>1, <2>2, <2>3
<1> HIDE DEF A, J, b, zero
<1>6. \E f : Turns(f, b)
  <2> DEFINE G == [i \in 1..n |-> [d \in X |-> Turn(d)]]
  <2>1. \A d \in X : Turn(d) \in X
    BY <1>4
  <2>2. G \in [1..n -> [X -> X]]
    BY <2>1
  <2>3. \A i \in 1..n : \A d \in X : G[i][d] = Turn(d)
    OBVIOUS
  <2>4. zero \in X
    BY <1>3
  <2> HIDE DEF G, X
  <2>5. PICK f \in [0..n -> X] : Steps(f, n, zero, G)
    BY <1>1, <2>2, <2>4, LoopSome
  <2>6. ASSUME NEW i \in 0..n PROVE f[i] = IF i = 0 THEN zero ELSE Turn(f[i - 1])
    <3>1. CASE i = 0
      BY <2>5, <3>1 DEF Steps
    <3>2. CASE i # 0
      <4>1. i \in 1..n /\ i - 1 \in 0..n
        BY <1>1, <3>2
      <4>2. f[i] = G[i][f[i - 1]] /\ f[i - 1] \in X
        BY <2>5, <3>2, <4>1 DEF Steps
      <4>3. QED
        BY <2>3, <3>2, <4>1, <4>2
    <3>3. QED
      BY <3>1, <3>2
  <2>7. f = [i \in 0..n |-> f[i]]
    OBVIOUS
  <2>8. Turns(f, b)
    BY <1>2, <2>6, <2>7 DEF Turns, zero
  <2>9. QED
    BY <2>8
<1>7. PICK f : /\ Turns(f, b)
               /\ Decode(b) = f[CHOOSE m \in 0..Len(b) : ~HasFrame(f[m].left)]
  BY <1>6, DecodeTurns
<1>8. \A i \in 0..n : f[i] = IF i = 0 THEN zero ELSE Turn(f[i - 1])
  BY <1>2, <1>7 DEF Turns, zero
\* After m turns either m frames have been decoded or no whole frame is left.
<1> DEFINE T == {m \in Nat : m <= n =>
                    \E j \in J : f[m] = A(j) /\ (HasFrame(A(j).left) => j = m)}
<1>9. 0 \in T
  <2>1. f[0] = A(0)
    BY <1>1, <1>3, <1>8
  <2>2. QED
    BY <1>3, <2>1
<1>10. ASSUME NEW m \in Nat, m \in T PROVE m + 1 \in T
  <2> SUFFICES ASSUME m + 1 <= n
               PROVE  \E j \in J : f[m + 1] = A(j) /\ (HasFrame(A(j).left) => j = m + 1)
    OBVIOUS
  <2>1. PICK j \in J : f[m] = A(j) /\ (HasFrame(A(j).left) => j = m)
    BY <1>1, <1>10
  <2>2. f[m + 1] = Turn(f[m])
    <3>1. m + 1 \in 0..n /\ m + 1 # 0 /\ (m + 1) - 1 = m
      BY <1>1
    <3>2. QED
      BY <1>8, <3>1
  <2>3. CASE HasFrame(A(j).left)
    <3>1. j = m /\ j + 1 \in J /\ f[m + 1] = A(j + 1)
      BY <1>4, <2>1, <2>2, <2>3
    <3>2. QED
      BY <3>1
  <2>4. CASE ~HasFrame(A(j).left)
    BY <1>4, <2>1, <2>2, <2>4
  <2>5. QED
    BY <2>3, <2>4
<1>11. Nat \subseteq T
  BY <1>9, <1>10, NatsBySteps
<1>12. ~HasFrame(f[n].left)
  <2>1. PICK j \in J : f[n] = A(j) /\ (HasFrame(A(j).left) => j = n)
    BY <1>1, <1>11
  <2>2. CASE HasFrame(A(j).left)
    <3>1. j = n /\ j + 1 \in J
      BY <1>4, <2>1, <2>2
    <3>2. QED
      BY <1>1, <1>5, <3>1
  <2>3. QED
    BY <2>1, <2>2
<1> DEFINE last == CHOOSE m \in 0..Len(b) : ~HasFrame(f[m].left)
<1>13. last \in 0..n /\ ~HasFrame(f[last].left)
  <2>1. n \in 0..Len(b)
    BY <1>1, <1>2
  <2>2. \E m \in 0..Len(b) : ~HasFrame(f[m].left)
    BY <1>12, <2>1
  <2>3. last \in 0..Len(b) /\ ~HasFrame(f[last].left)
    BY <2>2
  <2>4. QED
    BY <1>2, <2>3
<1>14. Decode(b) = f[last]
  BY <1>7
<1> HIDE DEF last
<1>15. PICK j \in J : f[last] = A(j)
  BY <1>1, <1>11, <1>13
<1>16. ~(j < M /\ c[j + 1] <= n)
  BY <1>4, <1>13, <1>15
<1>17. j \in 0..M /\ c[j] <= n
  BY DEF J
<1>18. j < M => n < c[j + 1]
  <2> SUFFICES ASSUME j < M PROVE n < c[j + 1]
    OBVIOUS
  <2>1. j + 1 \in 0..M
    BY <1>1, <1>17
  <2>2. c[j + 1] \in Nat
    BY <1>1, <2>1
  <2>3. QED
    BY <1>1, <1>16, <2>2
<1>19. Decode(b) = A(j)
  BY <1>14, <1>15
<1>20. QED
  BY <1>17, <1>18, <1>19 DEF A, b

-----------------------------------------------------------------------------
(* Parts of a stream.                                                      *)

\* A part of a part is a part of the whole.
LEMMA PartOfPart ==
    ASSUME NEW S, NEW s \in Seq(S), NEW m \in 1..Len(s) + 1, NEW n \in m - 1..Len(s),
           NEW i \in 1..n - m + 2, NEW j \in i - 1..n - m + 1
    PROVE  SubSeq(SubSeq(s, m, n), i, j) = SubSeq(s, m + i - 1, m + j - 1)
<1> DEFINE q == SubSeq(s, m, n)
           u == SubSeq(q, i, j)
           v == SubSeq(s, m + i - 1, m + j - 1)
<1>1. Len(s) \in Nat
  OBVIOUS
<1>2. q \in Seq(S) /\ Len(q) = n - m + 1 /\ \A k \in 1..n - m + 1 : q[k] = s[m + k - 1]
  BY PartOf
<1> HIDE DEF q
<1>3. u \in Seq(S) /\ Len(u) = j - i + 1 /\ \A k \in 1..j - i + 1 : u[k] = q[i + k - 1]
  <2>1. i \in 1..Len(q) + 1 /\ j \in i - 1..Len(q)
    BY <1>1, <1>2
  <2>2. QED
    BY <1>2, <2>1, PartOf
<1>4. /\ v \in Seq(S) /\ Len(v) = (m + j - 1) - (m + i - 1) + 1
      /\ \A k \in 1..(m + j - 1) - (m + i - 1) + 1 : v[k] = s[(m + i - 1) + k - 1]
  <2>1. m + i - 1 \in 1..Len(s) + 1 /\ m + j - 1 \in (m + i - 1) - 1..Len(s)
    BY <1>1
  <2> HIDE DEF v
  <2>2. QED
    BY <2>1, PartOf DEF v
<1> HIDE DEF u, v
<1>5. (m + j - 1) - (m + i - 1) + 1 = j - i + 1
  BY <1>1
<1>6. Len(u) = Len(v) /\ Len(u) = j - i + 1
  BY <1>3, <1>4, <1>5
<1>7. ASSUME NEW k \in 1..j - i + 1 PROVE u[k] = v[k]
  <2>1. i + k - 1 \in 1..n - m + 1 /\ m + (i + k - 1) - 1 = (m + i - 1) + k - 1
    BY <1>1
  <2>2. u[k] = s[m + (i + k - 1) - 1]
    BY <1>2, <1>3, <2>1
  <2>3. v[k] = s[(m + i - 1) + k - 1]
    BY <1>4, <1>5
  <2>4. QED
    BY <2>1, <2>2, <2>3
<1>8. u = v
  BY <1>3, <1>4, <1>6, <1>7, SeqEqual
<1>9. QED
  BY <1>8 DEF q, u, v

\* A part that begins in one sequence and ends in the next, cut at their border.
LEMMA ConcatParts ==
    ASSUME NEW S, NEW s \in Seq(S), NEW t \in Seq(S), NEW n \in 0..Len(t)
    PROVE  /\ SubSeq(s \o t, 1, Len(s) + n) = s \o SubSeq(t, 1, n)
           /\ SubSeq(s \o t, Len(s) + n + 1, Len(s) + Len(t)) = SubSeq(t, n + 1, Len(t))
<1> DEFINE r == s \o t
           l == Len(s)
           k == Len(t)
           p == SubSeq(t, 1, n)
           q == SubSeq(t, n + 1, k)
<1>1. l \in Nat /\ k \in Nat /\ n \in Nat /\ n <= k
  OBVIOUS
<1>2. /\ r \in Seq(S) /\ Len(r) = l + k
      /\ \A i \in 1..l + k : r[i] = IF i <= l THEN s[i] ELSE t[i - l]
  BY ConcatProperties
<1> HIDE DEF r, k
<1>3. p \in Seq(S) /\ Len(p) = n - 1 + 1 /\ \A i \in 1..n - 1 + 1 : p[i] = t[1 + i - 1]
  <2>1. 1 \in 1..Len(t) + 1 /\ n \in 1 - 1..Len(t)
    BY <1>1 DEF k
  <2>2. QED
    BY <2>1, PartOf
<1>4. /\ q \in Seq(S) /\ Len(q) = k - (n + 1) + 1
      /\ \A i \in 1..k - (n + 1) + 1 : q[i] = t[(n + 1) + i - 1]
  <2>1. n + 1 \in 1..Len(t) + 1 /\ k \in (n + 1) - 1..Len(t)
    BY <1>1 DEF k
  <2>2. QED
    BY <2>1, PartOf
<1> HIDE DEF l, p, q
<1>5. SubSeq(r, 1, l + n) = s \o p
  <2> DEFINE u == SubSeq(r, 1, l + n)
             v == s \o p
  <2>1. /\ u \in Seq(S) /\ Len(u) = (l + n) - 1 + 1
        /\ \A i \in 1..(l + n) - 1 + 1 : u[i] = r[1 + i - 1]
    <3>1. 1 \in 1..Len(r) + 1 /\ l + n \in 1 - 1..Len(r)
      BY <1>1, <1>2
    <3>2. QED
      BY <1>2, <3>1, PartOf
  <2>2. /\ v \in Seq(S) /\ Len(v) = l + Len(p)
        /\ \A i \in 1..l + Len(p) : v[i] = IF i <= l THEN s[i] ELSE p[i - l]
    BY <1>3, ConcatProperties DEF l
  <2> HIDE DEF u, v
  <2>3. Len(u) = l + n /\ Len(v) = l + n
    BY <1>1, <1>3, <2>1, <2>2
  <2>4. ASSUME NEW i \in 1..l + n PROVE u[i] = v[i]
    <3>1. u[i] = r[i] /\ i \in 1..l + k
      BY <1>1, <2>1
    <3>2. CASE i <= l
      BY <1>1, <1>2, <2>2, <2>3, <3>1, <3>2
    <3>3. CASE ~(i <= l)
      <4>1. i - l \in 1..n - 1 + 1 /\ 1 + (i - l) - 1 = i - l
        BY <1>1, <3>3
      <4>2. p[i - l] = t[i - l]
        BY <1>3, <4>1
      <4>3. v[i] = p[i - l]
        BY <2>2, <2>3, <3>3
      <4>4. r[i] = t[i - l]
        BY <1>2, <3>1, <3>3
      <4>5. QED
        BY <3>1, <4>2, <4>3, <4>4
    <3>4. QED
      BY <3>2, <3>3
  <2>5. u = v
    BY <2>1, <2>2, <2>3, <2>4, SeqEqual
  <2>6. QED
    BY <2>5 DEF u, v
<1>6. SubSeq(r, l + n + 1, l + k) = q
  <2> DEFINE u == SubSeq(r, l + n + 1, l + k)
  <2>1. /\ u \in Seq(S) /\ Len(u) = (l + k) - (l + n + 1) + 1
        /\ \A i \in 1..(l + k) - (l + n + 1) + 1 : u[i] = r[(l + n + 1) + i - 1]
    <3>1. l + n + 1 \in 1..Len(r) + 1 /\ l + k \in (l + n + 1) - 1..Len(r)
      BY <1>1, <1>2
    <3>2. QED
      BY <1>2, <3>1, PartOf
  <2> HIDE DEF u
  <2>2. (l + k) - (l + n + 1) + 1 = k - n /\ k - (n + 1) + 1 = k - n /\ k - n \in Nat
    BY <1>1
  <2>3. ASSUME NEW i \in 1..k - n PROVE u[i] = q[i]
    <3>1. /\ (l + n + 1) + i - 1 \in 1..l + k /\ ~((l + n + 1) + i - 1 <= l)
          /\ ((l + n + 1) + i - 1) - l = (n + 1) + i - 1
      BY <1>1
    <3>2. u[i] = t[(n + 1) + i - 1]
      BY <1>2, <2>1, <2>2, <3>1
    <3>3. q[i] = t[(n + 1) + i - 1]
      BY <1>4, <2>2
    <3>4. QED
      BY <3>2, <3>3
  <2>4. Len(u) = Len(q) /\ Len(u) = k - n
    BY <1>4, <2>1, <2>2
  <2>5. u = q
    BY <1>4, <2>1, <2>3, <2>4, SeqEqual
  <2>6. QED
    BY <2>5 DEF u
<1>7. QED
  BY <1>5, <1>6 DEF r, l, k, p, q

-----------------------------------------------------------------------------
(* The stream grows by a frame, and loses those that have been decoded.    *)

\* The bytes of a frame are not none.
LEMMA FrameSize ==
    ASSUME NEW e, NEW f \in Frame, IsFrame(e, f)
    PROVE  e \in Seq(Byte) /\ Len(e) \in Nat /\ Len(e) >= 1
<1>1. PICK key \in FrameKeys : e = Encode(f.opcode, f.payload, key, f.fin)
  BY DEF IsFrame
<1>2. f.opcode \in 0..Top - 1 /\ f.payload \in Payloads /\ f.fin \in BOOLEAN
  BY DEF Frame
<1> DEFINE p == f.payload
           L == LengthBytes(Len(p), key # <<>>)
<1>3. /\ LengthRead(Len(p), key # <<>>, L) /\ e \in Seq(Byte)
      /\ Len(e) = Head1(p, key) + Len(p)
  BY <1>1, <1>2, EncodeForm
<1>4. Len(p) \in Nat
  BY <1>2 DEF Payloads
<1>5. Len(L) \in Nat
  BY <1>3 DEF LengthRead
<1>6. Len(key) \in Nat
  BY KeyForm
<1>7. Head1(p, key) = 1 + Len(L) + Len(key)
  BY DEF Head1
<1> HIDE DEF p, L
<1>8. QED
  BY <1>3, <1>4, <1>5, <1>6, <1>7

\* A stream with a frame more is cut at its own end too.
LEMMA CutsAppend ==
    ASSUME NEW s, NEW c, NEW fs, Cuts(s, c, fs), NEW e, NEW f \in Frame, IsFrame(e, f)
    PROVE  Cuts(s \o e,
                [i \in 0..Len(fs) + 1 |-> IF i = Len(fs) + 1 THEN Len(s) + Len(e) ELSE c[i]],
                Append(fs, f))
<1> DEFINE M == Len(fs)
           l == Len(s)
           r == s \o e
           g == Append(fs, f)
           d == [i \in 0..M + 1 |-> IF i = M + 1 THEN l + Len(e) ELSE c[i]]
<1>1. /\ s \in Seq(Byte) /\ fs \in Seq(Frame) /\ c \in [0..M -> Nat] /\ c[0] = 0
      /\ c[M] = l /\ l \in Nat /\ M \in Nat
  BY DEF Cuts
<1>2. e \in Seq(Byte) /\ Len(e) \in Nat /\ Len(e) >= 1
  BY FrameSize
<1>3. /\ r \in Seq(Byte) /\ Len(r) = l + Len(e)
  BY <1>1, <1>2, ConcatProperties
<1>4. /\ g \in Seq(Frame) /\ Len(g) = M + 1 /\ g[M + 1] = f
      /\ \A i \in 1..M : g[i] = fs[i]
  BY <1>1, AppendProperties
<1>5. d \in [0..M + 1 -> Nat] /\ d[M + 1] = l + Len(e) /\ \A i \in 0..M : d[i] = c[i]
  BY <1>1, <1>2
<1>6. \A i, j \in 0..M : i <= j => c[j] - c[i] >= j - i
  BY DEF Cuts
<1>7. \A i \in 1..M : IsFrame(SubSeq(s, c[i - 1] + 1, c[i]), fs[i])
  BY DEF Cuts
<1>8. \A i \in 0..M : c[i] \in Nat /\ c[i] <= l
  <2> SUFFICES ASSUME NEW i \in 0..M PROVE c[i] \in Nat /\ c[i] <= l
    OBVIOUS
  <2>1. M \in 0..M /\ i <= M
    BY <1>1
  <2>2. c[M] - c[i] >= M - i
    BY <1>6, <2>1
  <2>3. c[i] \in Nat
    BY <1>1
  <2>4. QED
    BY <1>1, <2>1, <2>2, <2>3
<1> HIDE DEF r, g, d, M, l
<1>9. ASSUME NEW i \in 0..M + 1, NEW j \in 0..M + 1, i <= j PROVE d[j] - d[i] >= j - i
  <2>1. CASE j \in 0..M
    <3>1. i \in 0..M
      BY <1>1, <1>9, <2>1
    <3>2. QED
      BY <1>5, <1>6, <1>9, <2>1, <3>1
  <2>2. CASE j = M + 1 /\ i = M + 1
    BY <1>1, <1>2, <1>5, <2>2
  <2>3. CASE j = M + 1 /\ i \in 0..M
    <3>1. c[M] - c[i] >= M - i
      <4>1. M \in 0..M /\ i <= M
        BY <1>1, <2>3
      <4>2. QED
        BY <1>6, <2>3, <4>1
    <3>2. d[j] = l + Len(e) /\ d[i] = c[i] /\ c[i] \in Nat
      BY <1>5, <1>8, <2>3
    <3>3. l - d[i] >= M - i /\ d[i] \in Nat /\ i \in Nat /\ j = M + 1
      BY <1>1, <2>3, <3>1, <3>2
    <3>4. d[j] = l + Len(e) /\ l \in Nat /\ M \in Nat
      BY <1>1, <3>2
    <3> DEFINE x == d[i]
               k == Len(e)
    <3>5. l - x >= M - i /\ x \in Nat /\ i \in Nat /\ k \in Nat /\ k >= 1
      BY <1>2, <3>3
    <3>6. l \in Nat /\ M \in Nat
      BY <3>4
    <3> HIDE DEF x, k
    <3>7. (l + k) - x >= (M + 1) - i
      BY <3>5, <3>6
    <3>8. QED
      BY <3>3, <3>4, <3>7 DEF x, k
  <2>4. QED
    BY <1>1, <2>1, <2>2, <2>3
<1>10. ASSUME NEW i \in 1..M + 1 PROVE IsFrame(SubSeq(r, d[i - 1] + 1, d[i]), g[i])
  <2>1. CASE i = M + 1
    <3>1. d[i - 1] = l /\ d[i] = l + Len(e) /\ g[i] = f
      <4>1. i - 1 = M /\ M \in 0..M
        BY <1>1, <2>1
      <4>2. QED
        BY <1>1, <1>4, <1>5, <2>1, <4>1
    <3>2. SubSeq(r, l + 0 + 1, l + Len(e)) = SubSeq(e, 0 + 1, Len(e))
      <4>1. 0 \in 0..Len(e)
        BY <1>2
      <4>2. QED
        BY <1>1, <1>2, <4>1, ConcatParts DEF r, l
    <3>3. SubSeq(e, 1, Len(e)) = e
      BY <1>2, SubSeqFull
    <3>4. l + 0 + 1 = l + 1 /\ 0 + 1 = 1
      BY <1>1
    <3>5. QED
      BY <3>1, <3>2, <3>3, <3>4
  <2>2. CASE i \in 1..M
    <3>1. i - 1 \in 0..M /\ i \in 0..M
      BY <1>1, <2>2
    <3> DEFINE x == c[i - 1]
               y == c[i]
    <3>2. x \in Nat /\ y \in Nat /\ y <= l /\ x < y
      <4>1. c[i] - c[i - 1] >= i - (i - 1)
        BY <1>6, <3>1
      <4>2. x \in Nat /\ y \in Nat /\ y <= l
        BY <1>8, <3>1
      <4>3. y - x >= i - (i - 1)
        BY <4>1
      <4> HIDE DEF x, y
      <4>4. QED
        BY <4>2, <4>3
    <3>3. d[i - 1] = x /\ d[i] = y /\ g[i] = fs[i]
      BY <1>4, <1>5, <2>2, <3>1
    <3>4. IsFrame(SubSeq(s, x + 1, y), fs[i])
      BY <1>7, <2>2
    <3> HIDE DEF x, y
    <3>5. SubSeq(r, x + 1, y) = SubSeq(s, x + 1, y)
      <4>1. x + 1 \in 1..Len(s) /\ y \in 1..Len(s)
        BY <1>1, <3>2 DEF l
      <4>2. QED
        BY <1>1, <1>2, <4>1, SubSeqOfConcat1 DEF r
    <3>6. QED
      BY <3>3, <3>4, <3>5
  <2>3. QED
    BY <1>1, <2>1, <2>2
<1>11. d[0] = 0
  <2>1. 0 \in 0..M
    BY <1>1
  <2>2. QED
    BY <1>1, <1>5, <2>1
<1>12. Cuts(r, d, g)
  BY <1>3, <1>4, <1>5, <1>9, <1>10, <1>11 DEF Cuts
<1>13. QED
  BY <1>12 DEF r, d, g, M, l

\* A stream without its first j frames is cut at the rest of the places.
LEMMA CutsDrop ==
    ASSUME NEW s, NEW c, NEW fs, Cuts(s, c, fs), NEW j \in 0..Len(fs)
    PROVE  /\ c[j] \in Nat /\ c[j] <= Len(s)
           /\ Cuts(SubSeq(s, c[j] + 1, Len(s)),
                   [i \in 0..Len(fs) - j |-> c[j + i] - c[j]],
                   SubSeq(fs, j + 1, Len(fs)))
<1> DEFINE M == Len(fs)
           l == Len(s)
           a == c[j]
           r == SubSeq(s, a + 1, l)
           g == SubSeq(fs, j + 1, M)
           d == [i \in 0..M - j |-> c[j + i] - a]
<1>1. /\ s \in Seq(Byte) /\ fs \in Seq(Frame) /\ c \in [0..M -> Nat] /\ c[0] = 0
      /\ c[M] = l /\ l \in Nat /\ M \in Nat
  BY DEF Cuts
<1>2. \A i, k \in 0..M : i <= k => c[k] - c[i] >= k - i
  BY DEF Cuts
<1>3. \A i \in 1..M : IsFrame(SubSeq(s, c[i - 1] + 1, c[i]), fs[i])
  BY DEF Cuts
<1>4. \A i \in 0..M : c[i] \in Nat /\ c[i] <= l
  <2> SUFFICES ASSUME NEW i \in 0..M PROVE c[i] \in Nat /\ c[i] <= l
    OBVIOUS
  <2>1. M \in 0..M /\ i <= M
    BY <1>1
  <2>2. c[M] - c[i] >= M - i
    BY <1>2, <2>1
  <2>3. c[i] \in Nat
    BY <1>1
  <2>4. QED
    BY <1>1, <2>1, <2>2, <2>3
<1>5. a \in Nat /\ a <= l
  BY <1>4
<1>6. \A i \in 0..M - j : j + i \in 0..M /\ j <= j + i
  BY <1>1
<1>7. \A i \in 0..M - j : d[i] = c[j + i] - a
  OBVIOUS
<1>8. ASSUME NEW i \in 0..M - j PROVE c[j + i] \in Nat /\ c[j + i] >= a /\ c[j + i] <= l
  <2>1. c[j + i] - c[j] >= (j + i) - j
    BY <1>2, <1>6
  <2>2. c[j + i] \in Nat /\ c[j + i] <= l
    BY <1>4, <1>6
  <2>3. (j + i) - j \in Nat
    BY <1>1
  <2>4. c[j + i] - a >= (j + i) - j
    BY <2>1
  <2> HIDE DEF a
  <2>5. QED
    BY <1>5, <2>2, <2>3, <2>4
<1>9. d \in [0..M - j -> Nat]
  <2>1. ASSUME NEW i \in 0..M - j PROVE c[j + i] - a \in Nat
    <3>1. c[j + i] \in Nat /\ c[j + i] >= a
      BY <1>8
    <3> HIDE DEF a
    <3>2. QED
      BY <1>5, <3>1
  <2>2. QED
    BY <2>1
<1> HIDE DEF l, r, M
<1>10. r \in Seq(Byte) /\ Len(r) = l - a
  <2>1. a + 1 \in 1..Len(s) + 1 /\ l \in (a + 1) - 1..Len(s)
    <3> HIDE DEF a
    <3>1. QED
      BY <1>1, <1>5 DEF l
  <2> HIDE DEF a
  <2>2. Len(r) = l - (a + 1) + 1 /\ r \in Seq(Byte)
    BY <1>1, <2>1, PartOf DEF r
  <2>3. QED
    BY <1>1, <1>5, <2>2
<1>11. g \in Seq(Frame) /\ Len(g) = M - j /\ \A i \in 1..M - j : g[i] = fs[j + i]
  <2>1. j + 1 \in 1..Len(fs) + 1 /\ M \in (j + 1) - 1..Len(fs)
    BY <1>1 DEF M
  <2>2. /\ g \in Seq(Frame) /\ Len(g) = M - (j + 1) + 1
        /\ \A i \in 1..M - (j + 1) + 1 : g[i] = fs[(j + 1) + i - 1]
    BY <1>1, <2>1, PartOf
  <2> HIDE DEF g
  <2>3. M - (j + 1) + 1 = M - j /\ j \in Nat
    BY <1>1 DEF M
  <2>4. ASSUME NEW i \in 1..M - j PROVE g[i] = fs[j + i]
    <3>1. (j + 1) + i - 1 = j + i
      BY <2>3
    <3>2. QED
      BY <2>2, <2>3, <3>1
  <2>5. QED
    BY <2>2, <2>3, <2>4
<1>12. d[0] = 0
  <2>1. 0 \in 0..M - j /\ j + 0 = j
    BY <1>1 DEF M
  <2>2. QED
    BY <1>5, <1>7, <2>1
<1>13. d[M - j] = l - a
  <2>1. M - j \in 0..M - j /\ j + (M - j) = M
    BY <1>1 DEF M
  <2>2. QED
    BY <1>1, <1>7, <2>1
<1> HIDE DEF g, d
<1>14. ASSUME NEW i \in 0..M - j, NEW k \in 0..M - j, i <= k PROVE d[k] - d[i] >= k - i
  <2>1. c[j + k] - c[j + i] >= (j + k) - (j + i)
    <3>1. j + i <= j + k
      BY <1>1, <1>14 DEF M
    <3>2. QED
      BY <1>2, <1>6, <3>1
  <2>2. d[k] = c[j + k] - a /\ d[i] = c[j + i] - a /\ c[j + k] \in Nat /\ c[j + i] \in Nat
    BY <1>7, <1>8
  <2>3. (j + k) - (j + i) = k - i /\ i \in Nat /\ k \in Nat
    BY <1>1 DEF M
  <2> DEFINE x == c[j + k]
             y == c[j + i]
  <2>4. x - y >= k - i /\ d[k] = x - a /\ d[i] = y - a /\ x \in Nat /\ y \in Nat
    BY <2>1, <2>2, <2>3
  <2> HIDE DEF a, x, y
  <2>5. (x - a) - (y - a) >= k - i
    BY <1>5, <2>3, <2>4
  <2>6. QED
    BY <2>4, <2>5
<1>15. ASSUME NEW i \in 1..M - j PROVE IsFrame(SubSeq(r, d[i - 1] + 1, d[i]), g[i])
  <2>1. /\ i - 1 \in 0..M - j /\ i \in 0..M - j /\ j + i \in 1..M
        /\ (j + i) - 1 = j + (i - 1)
    BY <1>1 DEF M
  <2> DEFINE x == c[j + (i - 1)]
             y == c[j + i]
  <2>2. IsFrame(SubSeq(s, x + 1, y), fs[j + i])
    <3>1. IsFrame(SubSeq(s, c[(j + i) - 1] + 1, c[j + i]), fs[j + i])
      BY <1>3, <2>1
    <3>2. QED
      BY <2>1, <3>1
  <2>3. d[i - 1] = x - a /\ d[i] = y - a /\ g[i] = fs[j + i]
    BY <1>7, <1>11, <2>1
  <2>4. x \in Nat /\ y \in Nat /\ a <= x /\ y <= l /\ x < y
    <3>1. x \in Nat /\ y \in Nat /\ a <= x /\ y <= l
      BY <1>8, <2>1
    <3>2. d[i] - d[i - 1] >= i - (i - 1)
      <4>1. i - 1 <= i
        BY <2>1
      <4>2. QED
        BY <1>14, <2>1, <4>1
    <3>3. i - (i - 1) = 1
      BY <2>1
    <3>4. (y - a) - (x - a) >= 1
      BY <2>3, <3>2, <3>3
    <3> HIDE DEF x, y, a
    <3>5. QED
      BY <1>5, <3>1, <3>4
  <2> HIDE DEF x, y, a
  <2>5. SubSeq(r, (x - a) + 1, y - a) = SubSeq(s, x + 1, y)
    <3> DEFINE m == a + 1
               u == (x - a) + 1
               v == y - a
    <3>1. /\ m \in 1..Len(s) + 1 /\ l \in m - 1..Len(s)
          /\ u \in 1..l - m + 2 /\ v \in u - 1..l - m + 1
          /\ m + u - 1 = x + 1 /\ m + v - 1 = y
      BY <1>1, <1>5, <2>4 DEF l
    <3>2. r = SubSeq(s, m, l)
      BY DEF r
    <3> HIDE DEF m, u, v
    <3>3. SubSeq(SubSeq(s, m, l), u, v) = SubSeq(s, m + u - 1, m + v - 1)
      BY <1>1, <3>1, PartOfPart
    <3>4. SubSeq(r, u, v) = SubSeq(s, x + 1, y)
      BY <3>1, <3>2, <3>3
    <3>5. QED
      BY <3>4 DEF u, v
  <2>6. QED
    BY <2>2, <2>3, <2>5
<1>16. Cuts(r, d, g)
  <2>1. \A i, k \in 0..Len(g) : i <= k => d[k] - d[i] >= k - i
    BY <1>11, <1>14
  <2>2. \A i \in 1..Len(g) : IsFrame(SubSeq(r, d[i - 1] + 1, d[i]), g[i])
    BY <1>11, <1>15
  <2>3. d \in [0..Len(g) -> Nat] /\ d[Len(g)] = Len(r)
    BY <1>9, <1>10, <1>11, <1>13
  <2>4. QED
    BY <1>10, <1>11, <1>12, <2>1, <2>2, <2>3 DEF Cuts
<1>17. QED
  BY <1>5, <1>16 DEF l, r, M, a, g, d

-----------------------------------------------------------------------------
(* The receiver.                                                           *)

EndOf(es, i) == IF i = 0 THEN 0 ELSE es[i]

\* What has not been decoded is the frames after the received ones, of which the
\* receiver's buffer does not hold one.
StreamInv(k) ==
    \E c : /\ Cuts(buf \o stream, c, SubSeq(sent, k + 1, Len(sent)))
           /\ \A i \in 0..Len(sent) - k : EndOf(ends, k + i) = EndOf(ends, k) + c[i]
           /\ arrived = EndOf(ends, k) + Len(buf)
           /\ k < Len(sent) => Len(buf) < c[1]

FramesInv ==
    /\ sent \in Seq(Frame) /\ Len(sent) <= MaxFrames
    /\ ends \in Seq(Nat) /\ Len(ends) = Len(sent)
    /\ \A i, j \in 1..Len(ends) : i < j => ends[i] < ends[j]
    /\ stream \in Seq(Byte) /\ buf \in Seq(Byte) /\ arrived \in Nat
    /\ received \in Seq(Frame) /\ Len(received) <= Len(sent)
    /\ received = SubSeq(sent, 1, Len(received))
    /\ StreamInv(Len(received))

\* Nothing has been sent.
LEMMA FramesInitInv == FramesInit => FramesInv
<1> SUFFICES ASSUME FramesInit PROVE FramesInv
  OBVIOUS
<1>1. /\ sent = <<>> /\ ends = <<>> /\ stream = <<>> /\ arrived = 0 /\ buf = <<>> /\ received = <<>>
  BY DEF FramesInit
<1> DEFINE c == [i \in 0..0 |-> 0]
<1>2. /\ <<>> \in Seq(Byte) /\ <<>> \in Seq(Frame) /\ <<>> \in Seq(Nat)
      /\ Len(<<>>) = 0 /\ <<>> \o <<>> = <<>>
  OBVIOUS
<1>3. SubSeq(<<>>, 0 + 1, 0) = <<>> /\ SubSeq(<<>>, 1, 0) = <<>>
  BY SubSeqEmpty
<1>4. Cuts(<<>>, c, <<>>)
  BY <1>2 DEF Cuts
<1>5. StreamInv(0)
  <2>1. /\ Cuts(buf \o stream, c, SubSeq(sent, 0 + 1, Len(sent)))
        /\ \A i \in 0..Len(sent) - 0 : EndOf(ends, 0 + i) = EndOf(ends, 0) + c[i]
        /\ arrived = EndOf(ends, 0) + Len(buf)
        /\ 0 < Len(sent) => Len(buf) < c[1]
    BY <1>1, <1>2, <1>3, <1>4 DEF EndOf
  <2>2. QED
    BY <2>1 DEF StreamInv
<1>6. MaxFrames \in Nat
  BY WsFramesAssumption
<1>7. QED
  BY <1>1, <1>2, <1>3, <1>5, <1>6 DEF FramesInv

\* A payload that is sent is one of bytes, of a length that is used.
LEMMA PayloadForm ==
    ASSUME sent \in Seq(Frame), NEW n \in Lengths
    PROVE  Payload(n) \in Payloads /\ Len(Payload(n)) = n
<1>1. n \in Nat /\ Shifted(n, 8) = 0
  BY WsFramesAssumption
<1>2. Len(sent) \in Nat
  OBVIOUS
<1>3. ASSUME NEW i \in 1..n PROVE (i + 2 * Len(sent)) % Base \in Byte
  <2>1. i + 2 * Len(sent) \in Nat
    BY <1>2
  <2>2. QED
    BY <2>1, DivMod
<1>4. Payload(n) \in [1..n -> Byte]
  BY <1>3 DEF Payload
<1>5. Payload(n) \in Seq(Byte) /\ Len(Payload(n)) = n
  BY <1>1, <1>4
<1>6. QED
  BY <1>1, <1>5 DEF Payloads

\* A frame that is sent is cut off at the end of the stream; what is decoded is unchanged.
LEMMA FramesSendInv == FramesInv /\ Send => FramesInv'
<1> SUFFICES ASSUME FramesInv, Send PROVE FramesInv'
  OBVIOUS
<1>1. PICK N \in Nat, K \in Nat : N = Len(sent) /\ K = Len(received)
  <2>1. Len(sent) \in Nat /\ Len(received) \in Nat
    BY DEF FramesInv
  <2>2. QED
    BY <2>1
<1>2. PICK opcode \in Opcodes, fin \in BOOLEAN, n \in Lengths, key \in MaskKeys \cup {<<>>} :
         LET bytes == Encode(opcode, Payload(n), key, fin) IN
            /\ sent' = Append(sent, [opcode |-> opcode, fin |-> fin, payload |-> Payload(n)])
            /\ stream' = stream \o bytes
            /\ ends' = Append(ends, arrived + Len(stream) + Len(bytes))
  BY DEF Send
<1> DEFINE f == [opcode |-> opcode, fin |-> fin, payload |-> Payload(n)]
           e == Encode(opcode, Payload(n), key, fin)
           fs == SubSeq(sent, K + 1, N)
           s == buf \o stream
           z == arrived + Len(stream) + Len(e)
<1>3. /\ sent \in Seq(Frame) /\ Len(sent) = N /\ Len(received) = K /\ K <= N /\ N < MaxFrames
      /\ ends \in Seq(Nat) /\ Len(ends) = N
      /\ stream \in Seq(Byte) /\ buf \in Seq(Byte) /\ arrived \in Nat
      /\ received \in Seq(Frame) /\ received = SubSeq(sent, 1, K) /\ StreamInv(K)
  <2>1. Len(sent) < MaxFrames
    BY DEF Send
  <2>2. QED
    BY <1>1, <2>1 DEF FramesInv
<1>4. \A i, j \in 1..N : i < j => ends[i] < ends[j]
  BY <1>3 DEF FramesInv
<1>5. ends \in [1..N -> Nat]
  BY <1>3
<1>6. Len(stream) \in Nat /\ Len(buf) \in Nat
  BY <1>3
<1>7. UNCHANGED <<arrived, buf, received>>
  BY DEF Send
<1>8. f \in Frame
  <2>1. opcode \in 0..Top - 1
    BY WsFramesAssumption
  <2>2. Payload(n) \in Payloads
    BY <1>3, PayloadForm
  <2>3. QED
    BY <2>1, <2>2 DEF Frame
<1>9. IsFrame(e, f)
  BY DEF IsFrame, FrameKeys
<1>10. e \in Seq(Byte) /\ Len(e) \in Nat /\ Len(e) >= 1
  BY <1>8, <1>9, FrameSize
<1>11. sent' = Append(sent, f) /\ stream' = stream \o e /\ ends' = Append(ends, z)
  BY <1>2
<1>12. PICK c : /\ Cuts(s, c, fs)
                /\ \A i \in 0..N - K : EndOf(ends, K + i) = EndOf(ends, K) + c[i]
                /\ arrived = EndOf(ends, K) + Len(buf)
                /\ K < N => Len(buf) < c[1]
  BY <1>3 DEF StreamInv
<1>13. fs \in Seq(Frame) /\ Len(fs) = N - K
  <2>1. K + 1 \in 1..Len(sent) + 1 /\ N \in (K + 1) - 1..Len(sent) /\ N - (K + 1) + 1 = N - K
    BY <1>3
  <2>2. fs \in Seq(Frame) /\ Len(fs) = N - (K + 1) + 1
    BY <1>3, <2>1, PartOf
  <2>3. QED
    BY <2>1, <2>2
<1> HIDE DEF f, e, fs, s, z
<1>14. Len(s) = Len(buf) + Len(stream) /\ s \in Seq(Byte)
  BY <1>3, ConcatProperties DEF s
<1>15. c \in [0..N - K -> Nat] /\ c[N - K] = Len(s)
  BY <1>12, <1>13 DEF Cuts
<1>16. EndOf(ends, N) = EndOf(ends, K) + Len(s) /\ EndOf(ends, N) \in Nat /\ EndOf(ends, K) \in Nat
  <2>1. N - K \in 0..N - K /\ K + (N - K) = N
    BY <1>3
  <2>2. EndOf(ends, N) = EndOf(ends, K) + c[N - K]
    BY <1>12, <2>1
  <2>3. EndOf(ends, N) \in Nat /\ EndOf(ends, K) \in Nat
    BY <1>3, <1>5 DEF EndOf
  <2>4. QED
    BY <1>15, <2>2, <2>3
<1>17. z = EndOf(ends, N) + Len(e) /\ z \in Nat
  <2> DEFINE a == EndOf(ends, K)
             x == Len(buf)
             y == Len(stream)
             k == Len(e)
  <2>1. z = arrived + y + k /\ arrived = a + x /\ EndOf(ends, N) = a + (x + y)
    BY <1>12, <1>14, <1>16 DEF z
  <2>2. a \in Nat /\ x \in Nat /\ y \in Nat /\ k \in Nat
    BY <1>6, <1>10, <1>16
  <2> HIDE DEF a, x, y, k
  <2>3. z = (a + (x + y)) + k /\ z \in Nat
    BY <2>1, <2>2
  <2>4. QED
    BY <2>1, <2>3 DEF k
<1>18. /\ sent' \in Seq(Frame) /\ Len(sent') = N + 1
       /\ \A i \in 1..N : sent'[i] = sent[i]
  <2> DEFINE p == Append(sent, f)
  <2>1. p \in Seq(Frame) /\ Len(p) = Len(sent) + 1 /\ \A i \in 1..Len(sent) : p[i] = sent[i]
    <3>1. sent \in Seq(Frame)
      BY <1>3
    <3>2. QED
      BY <1>8, <3>1, AppendProperties
  <2> HIDE DEF p
  <2>2. sent' = p /\ Len(sent) = N
    BY <1>3, <1>11 DEF p
  <2>3. QED
    BY <2>1, <2>2
<1>19. /\ ends' \in Seq(Nat) /\ Len(ends') = N + 1 /\ ends'[N + 1] = z
       /\ \A i \in 1..N : ends'[i] = ends[i]
  <2> DEFINE p == Append(ends, z)
  <2>1. /\ p \in Seq(Nat) /\ Len(p) = Len(ends) + 1 /\ p[Len(ends) + 1] = z
        /\ \A i \in 1..Len(ends) : p[i] = ends[i]
    <3>1. ends \in Seq(Nat) /\ z \in Nat
      BY <1>3, <1>17
    <3>2. QED
      BY <3>1, AppendProperties
  <2> HIDE DEF p
  <2>2. ends' = p /\ Len(ends) = N
    BY <1>3, <1>11 DEF p
  <2>3. QED
    BY <2>1, <2>2
<1>20. stream' \in Seq(Byte)
  BY <1>3, <1>10, <1>11, ConcatProperties
<1>21. \A i \in 0..N : EndOf(ends', i) = EndOf(ends, i)
  <2> SUFFICES ASSUME NEW i \in 0..N PROVE EndOf(ends', i) = EndOf(ends, i)
    OBVIOUS
  <2>1. CASE i = 0
    BY <2>1 DEF EndOf
  <2>2. CASE i \in 1..N
    <3>1. i # 0
      BY <2>2
    <3>2. QED
      BY <1>19, <2>2, <3>1 DEF EndOf
  <2>3. QED
    BY <2>1, <2>2
<1>22. EndOf(ends', N + 1) = z
  <2>1. N + 1 # 0
    OBVIOUS
  <2>2. QED
    BY <1>19, <2>1 DEF EndOf
<1>23. ASSUME NEW i \in 1..N + 1, NEW j \in 1..N + 1, i < j PROVE ends'[i] < ends'[j]
  <2>1. CASE j \in 1..N
    <3>1. i \in 1..N
      BY <1>3, <1>23, <2>1
    <3>2. QED
      BY <1>4, <1>19, <1>23, <2>1, <3>1
  <2>2. CASE j = N + 1
    <3>1. i \in 1..N /\ i <= N /\ N # 0 /\ N \in 1..N
      BY <1>23, <2>2
    <3>2. ends[i] \in Nat /\ ends[N] \in Nat /\ ends[i] <= ends[N]
      <4>1. ends[i] \in Nat /\ ends[N] \in Nat
        BY <1>5, <3>1
      <4>2. CASE i = N
        BY <4>1, <4>2
      <4>3. CASE i < N
        BY <1>4, <3>1, <4>1, <4>3
      <4>4. QED
        BY <3>1, <4>2, <4>3
    <3>3. EndOf(ends, N) = ends[N]
      BY <3>1 DEF EndOf
    <3>4. ends'[i] = ends[i] /\ ends'[j] = z
      BY <1>19, <2>2, <3>1
    <3>5. QED
      BY <1>10, <1>17, <3>2, <3>3, <3>4
  <2>3. QED
    BY <1>3, <2>1, <2>2
<1>24. SubSeq(sent', K + 1, N + 1) = Append(fs, f)
  <2> DEFINE q == SubSeq(sent', K + 1, N + 1)
             p == Append(fs, f)
  <2>1. /\ q \in Seq(Frame) /\ Len(q) = (N + 1) - (K + 1) + 1
        /\ \A i \in 1..(N + 1) - (K + 1) + 1 : q[i] = sent'[(K + 1) + i - 1]
    <3>1. K + 1 \in 1..Len(sent') + 1 /\ N + 1 \in (K + 1) - 1..Len(sent')
      BY <1>3, <1>18
    <3>2. QED
      BY <1>18, <3>1, PartOf
  <2>2. /\ p \in Seq(Frame) /\ Len(p) = (N - K) + 1 /\ p[(N - K) + 1] = f
        /\ \A i \in 1..N - K : p[i] = fs[i]
    BY <1>8, <1>13, AppendProperties
  <2>3. \A i \in 1..N - K : fs[i] = sent[K + i]
    <3>1. K + 1 \in 1..Len(sent) + 1 /\ N \in (K + 1) - 1..Len(sent)
      BY <1>3
    <3>2. \A i \in 1..N - (K + 1) + 1 : fs[i] = sent[(K + 1) + i - 1]
      BY <1>3, <3>1, PartOf DEF fs
    <3>3. N - (K + 1) + 1 = N - K /\ \A i \in Nat : (K + 1) + i - 1 = K + i
      BY <1>3
    <3>4. QED
      BY <3>2, <3>3
  <2> HIDE DEF p, q
  <2>4. (N + 1) - (K + 1) + 1 = (N - K) + 1 /\ N - K \in Nat
    BY <1>3
  <2>5. ASSUME NEW i \in 1..(N - K) + 1 PROVE q[i] = p[i]
    <3>1. (K + 1) + i - 1 = K + i
      BY <1>3
    <3>2. q[i] = sent'[K + i]
      BY <2>1, <2>4, <3>1
    <3>3. CASE i \in 1..N - K
      <4>1. K + i \in 1..N
        BY <1>3, <3>3
      <4>2. QED
        BY <1>18, <2>2, <2>3, <3>2, <3>3, <4>1
    <3>4. CASE i = (N - K) + 1
      <4>1. K + i = N + 1
        BY <1>3, <3>4
      <4>2. sent'[N + 1] = f
        BY <1>3, <1>8, <1>11, AppendProperties
      <4>3. QED
        BY <2>2, <3>2, <3>4, <4>1, <4>2
    <3>5. QED
      BY <2>4, <3>3, <3>4
  <2>6. Len(q) = Len(p) /\ Len(q) = (N - K) + 1
    BY <2>1, <2>2, <2>4
  <2>7. q = p
    BY <2>1, <2>2, <2>5, <2>6, SeqEqual
  <2>8. QED
    BY <2>7 DEF p, q
<1>25. buf \o stream' = s \o e
  <2>1. buf \in Seq(Byte) /\ stream \in Seq(Byte) /\ e \in Seq(Byte)
    BY <1>3, <1>10
  <2>2. (buf \o stream) \o e = buf \o (stream \o e)
    BY <2>1, ConcatAssociative
  <2>3. QED
    BY <1>11, <2>2 DEF s
<1> DEFINE d == [i \in 0..Len(fs) + 1 |-> IF i = Len(fs) + 1 THEN Len(s) + Len(e) ELSE c[i]]
<1>26. Cuts(s \o e, d, Append(fs, f))
  BY <1>8, <1>9, <1>12, CutsAppend
<1>27. d[(N - K) + 1] = Len(s) + Len(e) /\ \A i \in 0..N - K : d[i] = c[i]
  <2>1. Len(fs) = N - K /\ N - K \in Nat
    BY <1>3, <1>13
  <2>2. (N - K) + 1 \in 0..Len(fs) + 1 /\ (N - K) + 1 = Len(fs) + 1
    BY <2>1
  <2>3. ASSUME NEW i \in 0..N - K PROVE i \in 0..Len(fs) + 1 /\ i # Len(fs) + 1
    BY <2>1
  <2>4. QED
    BY <2>2, <2>3
<1> HIDE DEF d
<1>28. ASSUME NEW i \in 0..(N + 1) - K PROVE EndOf(ends', K + i) = EndOf(ends', K) + d[i]
  <2>1. EndOf(ends', K) = EndOf(ends, K)
    BY <1>3, <1>21
  <2>2. CASE i \in 0..N - K
    <3>1. K + i \in 0..N
      BY <1>3, <2>2
    <3>2. QED
      BY <1>12, <1>21, <1>27, <2>1, <2>2, <3>1
  <2>3. CASE i = (N - K) + 1
    <3>1. K + i = N + 1
      BY <1>3, <2>3
    <3>2. EndOf(ends', K + i) = z
      BY <1>22, <3>1
    <3>3. Len(s) \in Nat
      BY <1>14
    <3> DEFINE a == EndOf(ends, K)
               x == Len(s)
               k == Len(e)
    <3>4. z = (a + x) + k /\ a \in Nat /\ x \in Nat /\ k \in Nat
      BY <1>10, <1>16, <1>17, <3>3
    <3>5. d[i] = x + k /\ EndOf(ends', K) = a
      BY <1>27, <2>1, <2>3
    <3> HIDE DEF a, x, k
    <3>6. z = a + (x + k)
      BY <3>4
    <3>7. QED
      BY <3>2, <3>5, <3>6
  <2>4. QED
    BY <1>3, <2>2, <2>3
<1>29. Len(buf) < d[1]
  <2>1. CASE K < N
    <3>1. 1 \in 0..N - K
      BY <1>3, <2>1
    <3>2. QED
      BY <1>12, <1>27, <2>1, <3>1
  <2>2. CASE ~(K < N)
    <3>1. (N - K) + 1 = 1
      BY <1>3, <2>2
    <3>2. d[1] = Len(s) + Len(e)
      BY <1>27, <3>1
    <3>3. Len(stream) \in Nat /\ Len(buf) \in Nat
      BY <1>3
    <3>4. QED
      BY <1>10, <1>14, <3>2, <3>3
  <2>3. QED
    BY <2>1, <2>2
<1>30. StreamInv(K)'
  <2>1. /\ Cuts((buf \o stream)', d, SubSeq(sent', K + 1, Len(sent')))
        /\ \A i \in 0..Len(sent') - K : EndOf(ends', K + i) = EndOf(ends', K) + d[i]
        /\ arrived' = EndOf(ends', K) + Len(buf')
        /\ K < Len(sent') => Len(buf') < d[1]
    <3>1. (buf \o stream)' = s \o e /\ SubSeq(sent', K + 1, Len(sent')) = Append(fs, f)
      BY <1>7, <1>18, <1>24, <1>25
    <3>2. EndOf(ends', K) = EndOf(ends, K)
      BY <1>3, <1>21
    <3>3. QED
      BY <1>7, <1>12, <1>18, <1>26, <1>28, <1>29, <3>1, <3>2
  <2>2. QED
    BY <2>1 DEF StreamInv
<1>31. received = SubSeq(sent', 1, K)
  <2>1. /\ 1 \in 1..Len(sent) + 1 /\ K \in 1 - 1..Len(sent)
        /\ 1 \in 1..Len(sent') + 1 /\ K \in 1 - 1..Len(sent')
    BY <1>3, <1>18
  <2> DEFINE p == SubSeq(sent, 1, K)
             q == SubSeq(sent', 1, K)
  <2>2. /\ p \in Seq(Frame) /\ Len(p) = K - 1 + 1
        /\ \A i \in 1..K - 1 + 1 : p[i] = sent[1 + i - 1]
    BY <1>3, <2>1, PartOf
  <2>3. /\ q \in Seq(Frame) /\ Len(q) = K - 1 + 1
        /\ \A i \in 1..K - 1 + 1 : q[i] = sent'[1 + i - 1]
    BY <1>18, <2>1, PartOf
  <2> HIDE DEF p, q
  <2>4. K - 1 + 1 = K
    BY <1>3
  <2>5. ASSUME NEW i \in 1..K PROVE p[i] = q[i]
    <3>1. 1 + i - 1 = i /\ i \in 1..N
      BY <1>3
    <3>2. QED
      BY <1>18, <2>2, <2>3, <2>4, <3>1
  <2>6. p = q
    BY <2>2, <2>3, <2>4, <2>5, SeqEqual
  <2>7. QED
    BY <1>3, <2>6 DEF p, q
<1>32. Len(sent') <= MaxFrames /\ K <= Len(sent')
  <2>1. MaxFrames \in Nat
    BY WsFramesAssumption
  <2>2. QED
    BY <1>3, <1>18, <2>1
<1>33. \A i, j \in 1..Len(ends') : i < j => ends'[i] < ends'[j]
  BY <1>19, <1>23
<1>34. Len(received') = K /\ StreamInv(Len(received))'
  <2>1. Len(received') = K
    BY <1>3, <1>7
  <2>2. QED
    BY <1>30, <2>1
<1>35. Len(ends') = Len(sent') /\ received' = SubSeq(sent', 1, Len(received'))
  BY <1>7, <1>18, <1>19, <1>31
<1>36. QED
  BY <1>3, <1>7, <1>18, <1>19, <1>20, <1>32, <1>33, <1>34, <1>35 DEF FramesInv

\* What arrives is decoded up to the last place that is cut before the end of it.
LEMMA FramesArriveInv == FramesInv /\ Arrive => FramesInv'
<1> SUFFICES ASSUME FramesInv, Arrive PROVE FramesInv'
  OBVIOUS
<1>1. PICK N \in Nat, K \in Nat, L \in Nat, lb \in Nat, ls \in Nat :
         /\ N = Len(sent) /\ K = Len(received) /\ lb = Len(buf) /\ ls = Len(stream)
         /\ L = lb + ls
  <2>1. Len(sent) \in Nat /\ Len(received) \in Nat /\ Len(buf) \in Nat /\ Len(stream) \in Nat
    BY DEF FramesInv
  <2>2. Len(buf) + Len(stream) \in Nat
    BY <2>1
  <2>3. QED
    BY <2>1, <2>2
<1>2. PICK n \in Chunks :
         /\ n <= Len(stream)
         /\ LET decoded == Decode(buf \o SubSeq(stream, 1, n)) IN
               /\ buf' = decoded.left
               /\ received' = received \o decoded.frames
         /\ stream' = SubSeq(stream, n + 1, Len(stream))
         /\ arrived' = arrived + n
  BY DEF Arrive
<1> DEFINE fs == SubSeq(sent, K + 1, N)
           s == buf \o stream
           m == lb + n
<1>3. n \in Nat /\ n \in 0..Len(stream) /\ n <= ls /\ m \in Nat /\ m \in 0..L
  <2>1. n \in Nat /\ n <= ls
    BY <1>1, <1>2, WsFramesAssumption
  <2>2. QED
    BY <1>1, <2>1
<1>4. sent' = sent /\ ends' = ends
  BY DEF Arrive
<1>5. /\ sent \in Seq(Frame) /\ Len(sent) = N /\ K <= N
      /\ ends \in Seq(Nat) /\ Len(ends) = N /\ arrived \in Nat
      /\ stream \in Seq(Byte) /\ buf \in Seq(Byte) /\ received \in Seq(Frame)
      /\ received = SubSeq(sent, 1, K) /\ StreamInv(K)
  BY <1>1 DEF FramesInv
<1>6. PICK c : /\ Cuts(s, c, fs)
               /\ \A i \in 0..N - K : EndOf(ends, K + i) = EndOf(ends, K) + c[i]
               /\ arrived = EndOf(ends, K) + Len(buf)
               /\ K < N => Len(buf) < c[1]
  BY <1>5 DEF StreamInv
<1>7. fs \in Seq(Frame) /\ Len(fs) = N - K
  <2>1. K + 1 \in 1..Len(sent) + 1 /\ N \in (K + 1) - 1..Len(sent) /\ N - (K + 1) + 1 = N - K
    BY <1>5
  <2>2. fs \in Seq(Frame) /\ Len(fs) = N - (K + 1) + 1
    BY <1>5, <2>1, PartOf
  <2>3. QED
    BY <2>1, <2>2
<1>8. s \in Seq(Byte) /\ Len(s) = L
  BY <1>1, <1>5, ConcatProperties
<1>9. buf \o SubSeq(stream, 1, n) = SubSeq(s, 1, m)
  <2>1. SubSeq(buf \o stream, 1, Len(buf) + n) = buf \o SubSeq(stream, 1, n)
    BY <1>3, <1>5, ConcatParts
  <2>2. QED
    BY <1>1, <2>1
<1>10. stream' = SubSeq(s, m + 1, L)
  <2>1. SubSeq(buf \o stream, Len(buf) + n + 1, Len(buf) + Len(stream))
           = SubSeq(stream, n + 1, Len(stream))
    BY <1>3, <1>5, ConcatParts
  <2>2. QED
    BY <1>1, <1>2, <2>1
<1> HIDE DEF fs, s, m
<1>11. PICK j \in 0..N - K :
          /\ c[j] <= m /\ (j < N - K => m < c[j + 1])
          /\ Decode(SubSeq(s, 1, m)) = After(s, c, fs, m, j)
  <2>1. m \in 0..Len(s)
    BY <1>3, <1>8
  <2>2. QED
    BY <1>6, <1>7, <2>1, DecodeCuts
<1>12. buf' = SubSeq(s, c[j] + 1, m) /\ received' = received \o SubSeq(fs, 1, j)
  <2>1. Decode(buf \o SubSeq(stream, 1, n))
           = [frames |-> SubSeq(fs, 1, j), left |-> SubSeq(s, c[j] + 1, m)]
    BY <1>9, <1>11 DEF After
  <2> DEFINE x == Decode(buf \o SubSeq(stream, 1, n))
  <2>2. buf' = x.left /\ received' = received \o x.frames
    BY <1>2
  <2>3. x.frames = SubSeq(fs, 1, j) /\ x.left = SubSeq(s, c[j] + 1, m)
    BY <2>1
  <2> HIDE DEF x
  <2>4. QED
    BY <2>2, <2>3
<1>13. PICK p \in Nat : p = K + j /\ p <= N /\ N - p = (N - K) - j
  <2>1. K + j \in Nat /\ K + j <= N /\ N - (K + j) = (N - K) - j
    BY <1>5
  <2>2. QED
    BY <2>1
\* The frames that are received, and those that remain.
<1>14. /\ SubSeq(fs, 1, j) = SubSeq(sent, K + 1, p)
       /\ SubSeq(fs, j + 1, N - K) = SubSeq(sent, p + 1, N)
  <2> DEFINE u == K + 1
  <2>1. /\ u \in 1..Len(sent) + 1 /\ N \in u - 1..Len(sent)
        /\ 1 \in 1..N - u + 2 /\ j \in 1 - 1..N - u + 1
        /\ j + 1 \in 1..N - u + 2 /\ N - K \in (j + 1) - 1..N - u + 1
        /\ u + 1 - 1 = u /\ u + j - 1 = p /\ u + (j + 1) - 1 = p + 1 /\ u + (N - K) - 1 = N
    BY <1>5, <1>13
  <2>2. fs = SubSeq(sent, u, N)
    BY DEF fs
  <2> HIDE DEF u
  <2>3. SubSeq(SubSeq(sent, u, N), 1, j) = SubSeq(sent, u + 1 - 1, u + j - 1)
    BY <1>5, <2>1, PartOfPart
  <2>4. SubSeq(SubSeq(sent, u, N), j + 1, N - K) = SubSeq(sent, u + (j + 1) - 1, u + (N - K) - 1)
    BY <1>5, <2>1, PartOfPart
  <2>5. QED
    BY <2>1, <2>2, <2>3, <2>4 DEF u
<1>15. received' = SubSeq(sent, 1, p)
  <2>1. 1 \in 1..Len(sent) + 1 /\ K \in 1 - 1..Len(sent) /\ p \in K..Len(sent)
    BY <1>5, <1>13
  <2>2. SubSeq(sent, 1, K) \o SubSeq(sent, K + 1, p) = SubSeq(sent, 1, p)
    BY <1>5, <2>1, ConcatAdjacentSubSeq
  <2>3. QED
    BY <1>5, <1>12, <1>14, <2>2
<1>16. received' \in Seq(Frame) /\ Len(received') = p
  <2>1. 1 \in 1..Len(sent) + 1 /\ p \in 1 - 1..Len(sent) /\ p - 1 + 1 = p
    BY <1>5, <1>13
  <2>2. SubSeq(sent, 1, p) \in Seq(Frame) /\ Len(SubSeq(sent, 1, p)) = p - 1 + 1
    BY <1>5, <2>1, PartOf
  <2>3. QED
    BY <1>15, <2>1, <2>2
\* The bytes that remain.
<1> DEFINE a == c[j]
           d == [i \in 0..Len(fs) - j |-> c[j + i] - c[j]]
<1>17. /\ a \in Nat /\ a <= m /\ a <= L
       /\ Cuts(SubSeq(s, a + 1, Len(s)), d, SubSeq(fs, j + 1, Len(fs)))
  <2>1. j \in 0..Len(fs)
    BY <1>7
  <2>2. /\ c[j] \in Nat /\ c[j] <= Len(s)
        /\ Cuts(SubSeq(s, c[j] + 1, Len(s)), d, SubSeq(fs, j + 1, Len(fs)))
    BY <1>6, <2>1, CutsDrop
  <2>3. QED
    BY <1>8, <1>11, <2>2
<1>18. \A i \in 0..N - p : d[i] = c[j + i] - a
  BY <1>7, <1>13
<1>19. j \in 0..N - K /\ \A i \in 0..N - p : j + i \in 0..N - K
  BY <1>5, <1>13
<1>20. c \in [0..N - K -> Nat]
  BY <1>6, <1>7 DEF Cuts
<1>21. buf' = SubSeq(s, a + 1, m)
  BY <1>12
<1>22. c[j + 1] \in Nat \/ ~(p < N)
  <2>1. CASE p < N
    <3>1. j + 1 \in 0..N - K
      BY <1>5, <1>13, <2>1
    <3>2. QED
      BY <1>20, <3>1
  <2>2. QED
    BY <2>1
<1>23. p < N => m < c[j + 1] /\ d[1] = c[j + 1] - a
  <2> SUFFICES ASSUME p < N PROVE m < c[j + 1] /\ d[1] = c[j + 1] - a
    OBVIOUS
  <2>1. j < N - K /\ 1 \in 0..N - p
    BY <1>5, <1>13
  <2>2. QED
    BY <1>11, <1>18, <2>1
<1>24. EndOf(ends, p) = EndOf(ends, K) + a
  BY <1>6, <1>13
<1>25. EndOf(ends, K) \in Nat
  <2>1. CASE K = 0
    BY <2>1 DEF EndOf
  <2>2. CASE K # 0
    <3>1. K \in 1..N
      BY <1>5, <2>2
    <3>2. QED
      BY <1>5, <2>2, <3>1 DEF EndOf
  <2>3. QED
    BY <2>1, <2>2
<1>26. ASSUME NEW i \in 0..N - p PROVE EndOf(ends, p + i) = EndOf(ends, p) + d[i]
  <2>1. p + i = K + (j + i)
    BY <1>13
  <2>2. EndOf(ends, p + i) = EndOf(ends, K) + c[j + i]
    BY <1>6, <1>19, <2>1
  <2>3. c[j + i] \in Nat
    BY <1>19, <1>20
  <2> DEFINE x == c[j + i]
             y == EndOf(ends, K)
  <2>4. /\ x \in Nat /\ y \in Nat /\ EndOf(ends, p + i) = y + x
        /\ EndOf(ends, p) = y + a /\ d[i] = x - a
    BY <1>18, <1>24, <1>25, <2>2, <2>3
  <2>5. a \in Nat
    BY <1>17
  <2> HIDE DEF x, y, a, d
  <2>6. y + x = (y + a) + (x - a)
    BY <2>4, <2>5
  <2>7. QED
    BY <2>4, <2>6
<1> HIDE DEF a, d
<1>27. buf' \in Seq(Byte) /\ Len(buf') = m - a
  <2>1. a + 1 \in 1..Len(s) + 1 /\ m \in (a + 1) - 1..Len(s) /\ m - (a + 1) + 1 = m - a
    BY <1>3, <1>8, <1>17
  <2>2. buf' \in Seq(Byte) /\ Len(buf') = m - (a + 1) + 1
    BY <1>8, <1>21, <2>1, PartOf
  <2>3. QED
    BY <2>1, <2>2
<1>28. stream' \in Seq(Byte)
  <2>1. m + 1 \in 1..Len(s) + 1 /\ L \in (m + 1) - 1..Len(s)
    BY <1>3, <1>8
  <2>2. QED
    BY <1>8, <1>10, <2>1, PartOf
<1>29. (buf \o stream)' = SubSeq(s, a + 1, L)
  <2>1. a + 1 \in 1..Len(s) + 1 /\ m \in (a + 1) - 1..Len(s) /\ L \in m..Len(s)
    BY <1>3, <1>8, <1>17
  <2>2. SubSeq(s, a + 1, m) \o SubSeq(s, m + 1, L) = SubSeq(s, a + 1, L)
    BY <1>8, <2>1, ConcatAdjacentSubSeq
  <2>3. QED
    BY <1>10, <1>21, <2>2
<1>30. Cuts((buf \o stream)', d, SubSeq(sent, p + 1, N))
  BY <1>7, <1>8, <1>14, <1>17, <1>29
<1>31. arrived' \in Nat /\ arrived' = EndOf(ends, p) + Len(buf')
  <2> DEFINE y == EndOf(ends, K)
  <2>1. arrived' = (y + lb) + n /\ EndOf(ends, p) = y + a /\ Len(buf') = (lb + n) - a
    BY <1>1, <1>2, <1>6, <1>24, <1>27 DEF m
  <2>2. y \in Nat /\ a \in Nat
    BY <1>17, <1>25
  <2> HIDE DEF y
  <2>3. (y + lb) + n = (y + a) + ((lb + n) - a) /\ (y + lb) + n \in Nat
    BY <1>3, <2>2
  <2>4. QED
    BY <2>1, <2>3
<1>32. p < N => Len(buf') < d[1]
  <2> SUFFICES ASSUME p < N PROVE Len(buf') < d[1]
    OBVIOUS
  <2> DEFINE x == c[j + 1]
  <2>1. x \in Nat /\ m < x /\ d[1] = x - a /\ a \in Nat /\ m \in Nat /\ Len(buf') = m - a
    BY <1>3, <1>17, <1>22, <1>23, <1>27
  <2> HIDE DEF x
  <2>2. m - a < x - a
    BY <2>1
  <2>3. QED
    BY <2>1, <2>2
<1>33. StreamInv(p)'
  <2>1. /\ Cuts((buf \o stream)', d, SubSeq(sent', p + 1, Len(sent')))
        /\ \A i \in 0..Len(sent') - p : EndOf(ends', p + i) = EndOf(ends', p) + d[i]
        /\ arrived' = EndOf(ends', p) + Len(buf')
        /\ p < Len(sent') => Len(buf') < d[1]
    BY <1>4, <1>5, <1>26, <1>30, <1>31, <1>32
  <2>2. QED
    BY <2>1 DEF StreamInv
<1>34. StreamInv(Len(received))'
  <2>1. Len(received') = p
    BY <1>16
  <2>2. QED
    BY <1>33, <2>1
<1>35. /\ sent' \in Seq(Frame) /\ Len(sent') <= MaxFrames
       /\ ends' \in Seq(Nat) /\ Len(ends') = Len(sent')
       /\ \A i, k \in 1..Len(ends') : i < k => ends'[i] < ends'[k]
  BY <1>4 DEF FramesInv
<1>36. Len(received') <= Len(sent') /\ received' = SubSeq(sent', 1, Len(received'))
  BY <1>4, <1>5, <1>13, <1>15, <1>16
<1>37. QED
  BY <1>16, <1>27, <1>28, <1>31, <1>34, <1>35, <1>36 DEF FramesInv

\* Every step keeps the invariant.
LEMMA FramesStepInv == FramesInv /\ [FramesNext]_frameVars => FramesInv'
<1> SUFFICES ASSUME FramesInv, [FramesNext]_frameVars PROVE FramesInv'
  OBVIOUS
<1>1. CASE Send
  BY <1>1, FramesSendInv
<1>2. CASE Arrive
  BY <1>2, FramesArriveInv
<1>3. CASE UNCHANGED frameVars
  BY <1>3 DEF FramesInv, StreamInv, frameVars
<1>4. QED
  BY <1>1, <1>2, <1>3 DEF FramesNext

\* The frames that have been decoded are those whose end has arrived.
LEMMA FramesDecoded == FramesInv => DecodesWhatArrived /\ FramesTypeOK
<1> SUFFICES ASSUME FramesInv PROVE DecodesWhatArrived /\ FramesTypeOK
  OBVIOUS
<1> DEFINE N == Len(sent)
           K == Len(received)
           Ended == {i \in 1..Len(ends) : ends[i] <= arrived}
<1>1. /\ N \in Nat /\ K \in Nat /\ K <= N /\ ends \in [1..N -> Nat] /\ Len(ends) = N
      /\ arrived \in Nat /\ sent \in Seq(Frame) /\ Len(buf) \in Nat
  BY DEF FramesInv
<1>2. \A i, j \in 1..N : i < j => ends[i] < ends[j]
  BY <1>1 DEF FramesInv
<1>3. PICK c : /\ Cuts(buf \o stream, c, SubSeq(sent, K + 1, N))
               /\ \A i \in 0..N - K : EndOf(ends, K + i) = EndOf(ends, K) + c[i]
               /\ arrived = EndOf(ends, K) + Len(buf)
               /\ K < N => Len(buf) < c[1]
  BY DEF FramesInv, StreamInv
<1>4. received = SubSeq(sent, 1, K)
  BY DEF FramesInv
<1> HIDE DEF N, K
<1>5. Len(SubSeq(sent, K + 1, N)) = N - K
  <2>1. K + 1 \in 1..Len(sent) + 1 /\ N \in (K + 1) - 1..Len(sent) /\ N - (K + 1) + 1 = N - K
    BY <1>1 DEF N
  <2>2. Len(SubSeq(sent, K + 1, N)) = N - (K + 1) + 1
    BY <1>1, <2>1, PartOf
  <2>3. QED
    BY <2>1, <2>2
<1>6. c \in [0..N - K -> Nat]
  BY <1>3, <1>5 DEF Cuts
<1>7. EndOf(ends, K) \in Nat
  <2>1. CASE K = 0
    BY <2>1 DEF EndOf
  <2>2. CASE K # 0
    <3>1. K \in 1..N
      BY <1>1, <2>2
    <3>2. QED
      BY <1>1, <2>2, <3>1 DEF EndOf
  <2>3. QED
    BY <2>1, <2>2
<1>8. ASSUME NEW i \in 1..K PROVE i \in 1..N /\ ends[i] <= arrived
  <2>1. i \in 1..N /\ K \in 1..N /\ K # 0 /\ i <= K
    BY <1>1
  <2>2. EndOf(ends, K) = ends[K]
    BY <2>1 DEF EndOf
  <2>3. ends[i] \in Nat /\ ends[K] \in Nat
    BY <1>1, <2>1
  <2>4. ends[i] <= ends[K]
    <3>1. CASE i = K
      BY <2>3, <3>1
    <3>2. CASE i < K
      BY <1>2, <2>1, <2>3, <3>2
    <3>3. QED
      BY <2>1, <3>1, <3>2
  <2>5. arrived = ends[K] + Len(buf)
    BY <1>3, <2>2
  <2> DEFINE x == ends[K]
             y == Len(buf)
             o == ends[i]
  <2>6. x \in Nat /\ y \in Nat /\ o \in Nat /\ o <= x /\ arrived = x + y
    BY <1>1, <2>3, <2>4, <2>5
  <2> HIDE DEF x, y, o
  <2>7. o <= arrived
    BY <2>6
  <2>8. QED
    BY <2>1, <2>7 DEF o
<1>9. ASSUME NEW i \in K + 1..N PROVE i \in 1..N /\ ~(ends[i] <= arrived)
  <2>1. /\ i \in 1..N /\ K + 1 \in 1..N /\ K + 1 # 0 /\ K + 1 <= i /\ K < N /\ 1 \in 0..N - K
    BY <1>1
  <2>2. EndOf(ends, K + 1) = EndOf(ends, K) + c[1] /\ Len(buf) < c[1] /\ c[1] \in Nat
    BY <1>3, <1>6, <2>1
  <2>3. EndOf(ends, K + 1) = ends[K + 1]
    BY <2>1 DEF EndOf
  <2>4. ends[i] \in Nat /\ ends[K + 1] \in Nat
    BY <1>1, <2>1
  <2>5. ends[K + 1] <= ends[i]
    <3>1. CASE i = K + 1
      BY <2>4, <3>1
    <3>2. CASE K + 1 < i
      BY <1>2, <2>1, <2>4, <3>2
    <3>3. QED
      BY <1>1, <2>1, <3>1, <3>2
  <2>6. ends[K + 1] = EndOf(ends, K) + c[1] /\ arrived = EndOf(ends, K) + Len(buf)
    BY <1>3, <2>2, <2>3
  <2> DEFINE x == ends[K + 1]
             y == EndOf(ends, K)
             w == Len(buf)
             v == c[1]
             o == ends[i]
  <2>7. /\ x = y + v /\ arrived = y + w /\ x <= o /\ w < v
        /\ y \in Nat /\ w \in Nat /\ v \in Nat /\ o \in Nat /\ x \in Nat
    BY <1>1, <1>7, <2>2, <2>4, <2>5, <2>6
  <2> HIDE DEF x, y, w, v, o
  <2>8. ~(o <= arrived)
    BY <2>7
  <2>9. QED
    BY <2>1, <2>8 DEF o
<1>10. Ended = 1..K
  <2>1. \A i \in 1..N : i \in 1..K \/ i \in K + 1..N
    BY <1>1
  <2>2. QED
    BY <1>1, <1>8, <1>9, <2>1
<1>11. Cardinality(Ended) = K
  <2>1. Cardinality(1..K) = IF 1 > K THEN 0 ELSE K - 1 + 1
    BY <1>1, FS_Interval
  <2>2. (IF 1 > K THEN 0 ELSE K - 1 + 1) = K
    BY <1>1
  <2> HIDE DEF Ended
  <2>3. QED
    BY <1>10, <2>1, <2>2
<1>12. DecodesWhatArrived
  BY <1>4, <1>11 DEF DecodesWhatArrived
<1>13. FramesTypeOK
  <2>1. \A i \in 1..Len(stream) : stream[i] \in Byte
    BY DEF FramesInv
  <2>2. \A i \in 1..Len(buf) : buf[i] \in Byte
    BY DEF FramesInv
  <2>3. QED
    BY <2>1, <2>2 DEF FramesInv, FramesTypeOK
<1>14. QED
  BY <1>12, <1>13

\* Whatever the chunks, lengths, masks and fragments, the receiver has the frames whose last
\* byte has arrived, as they were sent.
THEOREM FramesArriveWhole == FramesSpec => []DecodesWhatArrived
<1>1. FramesSpec => []FramesInv
  BY FramesInitInv, FramesStepInv, PTL DEF FramesSpec
<1>2. QED
  BY <1>1, FramesDecoded, PTL

\* What is in the stream and in the buffer is bytes, and no more frames come out than went in.
THEOREM FramesTypes == FramesSpec => []FramesTypeOK
<1>1. FramesSpec => []FramesInv
  BY FramesInitInv, FramesStepInv, PTL DEF FramesSpec
<1>2. QED
  BY <1>1, FramesDecoded, PTL
=============================================================================
