--------------------------- MODULE ReportingProofs ---------------------------
(***************************************************************************)
(* Proofs about incident reporting, for any calendar, events, reports,     *)
(* times, deadlines and bounds, in the order in which they rest on each    *)
(* other:                                                                  *)
(*                                                                         *)
(*   Calendar           the statutory month;                               *)
(*   Incidents          evidence only grows, so that what a review was     *)
(*                      made on is always part of it (IncidentsInv);       *)
(*   IncidentReporting  where every decision and package comes from        *)
(*                      (ReportingInv);                                    *)
(*   ReportingWorkflow  what the states of assess_reporting_workflow are   *)
(*                      worth in any state of the registry (WorkflowInv);  *)
(*   ReportingDossier   what is embedded in a dossier is what the          *)
(*                      registries held (DossierInv), so that the verifier *)
(*                      recomputes what the builder computed.              *)
(***************************************************************************)
EXTENDS ReportingDossier, SequenceTheorems, WellFoundedInduction, TLAPS

-----------------------------------------------------------------------------
(***************************************************************************)
(* Calendar                                                                *)
(***************************************************************************)

\* The library states induction for operators; LeastNumber is the same principle
\* about sets of numbers, and carries what recursion over the months and the last
\* intermediate report need.
Before == {p \in Nat \X Nat : p[1] < p[2]}

LEMMA BeforeIsWellFounded == IsWellFoundedOn(Before, Nat)
<1>1. Before = OpToRel(<, Nat)
  BY DEF Before, OpToRel
<1> QED
  BY <1>1, NatLessThanWellFounded

\* Induction over the numbers, as a fact about sets of them.
LEMMA LeastNumber ==
  ASSUME NEW T \in SUBSET Nat, T # {}
  PROVE  \E m \in T : \A n \in T : m <= n
<1>1. PICK m \in T : \A n \in T : ~ (<<n, m>> \in Before)
  BY BeforeIsWellFounded, WFMin
<1>2. ASSUME NEW n \in T PROVE m <= n
  <2>1. ~ (n < m)
    BY <1>1 DEF Before
  <2> QED
    BY <2>1
<1> QED
  BY <1>2

-----------------------------------------------------------------------------
(* The days before each month. *)

Months == 0..Len(MonthDays)

\* f counts the days of the first n months.
Counts(f, n) ==
  /\ f \in [Months -> Nat]
  /\ f[0] = 0
  /\ \A m \in 1..n : f[m] = f[m - 1] + MonthDays[m]

LEMMA MonthsHaveDays ==
  /\ Len(MonthDays) \in Nat \ {0}
  /\ \A m \in 1..Len(MonthDays) : MonthDays[m] \in Nat \ {0}
BY CalendarAssumption

LEMMA MonthsCanBeCounted == \E f : Counts(f, Len(MonthDays))
<1> DEFINE Last == Len(MonthDays)
           Bad == {n \in Nat : n <= Last /\ ~ \E f : Counts(f, n)}
<1>1. SUFFICES ASSUME Bad # {} PROVE FALSE
  BY MonthsHaveDays
<1>2. PICK n \in Bad : \A m \in Bad : n <= m
  BY <1>1, LeastNumber
<1>3. CASE n = 0
  <2>1. Counts([m \in Months |-> 0], 0)
    BY MonthsHaveDays DEF Counts, Months
  <2> QED
    BY <1>2, <1>3, <2>1
<1>4. CASE n # 0
  <2>1. n \in 1..Last /\ n - 1 \in Nat /\ n - 1 <= Last /\ n - 1 \notin Bad
    BY <1>2, <1>4, MonthsHaveDays
  <2>2. PICK f : Counts(f, n - 1)
    BY <2>1
  <2> DEFINE g == [f EXCEPT ![n] = f[n - 1] + MonthDays[n]]
  <2>3. f \in [Months -> Nat] /\ n \in Months /\ n - 1 \in Months
    BY <2>1, <2>2 DEF Counts, Months
  <2>4. g \in [Months -> Nat] /\ g[n] = f[n - 1] + MonthDays[n]
        /\ \A m \in Months : m # n => g[m] = f[m]
    BY <2>1, <2>3, MonthsHaveDays
  <2>5. ASSUME NEW m \in 1..n PROVE g[m] = g[m - 1] + MonthDays[m]
    <3> HIDE DEF g
    <3>1. m \in Months /\ m - 1 \in Months /\ m - 1 # n
      BY <2>1 DEF Months
    <3>2. CASE m = n
      BY <2>4, <3>1, <3>2
    <3>3. CASE m # n
      BY <2>2, <2>4, <3>1, <3>3, <2>1 DEF Counts
    <3> QED
      BY <3>2, <3>3
  <2>6. g[0] = 0
    BY <2>1, <2>2, <2>4 DEF Counts, Months
  <2>7. Counts(g, n)
    BY <2>4, <2>5, <2>6 DEF Counts
  <2> QED
    BY <1>2, <2>7
<1> QED
  BY <1>3, <1>4

\* The recursive function of the module is that count.
LEMMA DaysThroughCounts == Counts(DaysThrough, Len(MonthDays))
<1> DEFINE Body(f) ==
      [m \in 0..Len(MonthDays) |-> IF m = 0 THEN 0 ELSE f[m - 1] + MonthDays[m]]
<1>1. PICK f : Counts(f, Len(MonthDays))
  BY MonthsCanBeCounted
<1>2. f = Body(f)
  BY <1>1, MonthsHaveDays DEF Counts, Months
<1>3. DaysThrough = Body(DaysThrough)
  BY <1>2 DEF DaysThrough
<1> DEFINE Differ == {m \in Nat : m \in Months /\ DaysThrough[m] # f[m]}
<1>4. ASSUME Differ # {} PROVE FALSE
  <2>1. PICK m \in Differ : \A n \in Differ : m <= n
    BY <1>4, LeastNumber
  <2>2. m \in Months /\ DaysThrough[m] # f[m]
    OBVIOUS
  <2>3. CASE m = 0
    <3>1. Body(DaysThrough)[m] = 0 /\ f[m] = 0
      BY <1>1, <2>2, <2>3 DEF Counts, Months
    <3> QED
      BY <1>3, <2>2, <3>1
  <2>4. CASE m # 0
    <3>1. m - 1 \in Months /\ m - 1 \notin Differ
      BY <2>1, <2>2, <2>4, MonthsHaveDays DEF Months
    <3>2. DaysThrough[m - 1] = f[m - 1]
      BY <3>1 DEF Months
    <3>3. /\ Body(DaysThrough)[m] = DaysThrough[m - 1] + MonthDays[m]
          /\ Body(f)[m] = f[m - 1] + MonthDays[m]
      BY <2>2, <2>4 DEF Months
    <3> QED
      BY <1>2, <1>3, <2>2, <3>2, <3>3
  <2> QED
    BY <2>3, <2>4
<1>5. \A m \in Months : DaysThrough[m] = f[m]
  BY <1>4, MonthsHaveDays DEF Months
<1>6. DaysThrough = f
  <2>1. DaysThrough = [m \in Months |-> DaysThrough[m]]
    BY <1>3 DEF Months
  <2>2. f = [m \in Months |-> f[m]]
    BY <1>1 DEF Counts
  <2> QED
    BY <1>5, <2>1, <2>2
<1> QED
  BY <1>1, <1>6

LEMMA DaysAreNumbers ==
  ASSUME NEW m \in Months
  PROVE  DaysThrough[m] \in Nat
BY DaysThroughCounts DEF Counts

LEMMA MonthAddsItsDays ==
  ASSUME NEW m \in 1..Len(MonthDays)
  PROVE  /\ m \in Months /\ m - 1 \in Months
         /\ DaysThrough[m] = DaysThrough[m - 1] + MonthDays[m]
         /\ MonthDays[m] \in Nat \ {0}
BY DaysThroughCounts, MonthsHaveDays DEF Counts, Months

\* Later months start later.
LEMMA DaysIncrease ==
  ASSUME NEW m \in Months, NEW n \in Months, m < n
  PROVE  DaysThrough[m] < DaysThrough[n]
<1> DEFINE Bad == {k \in Nat : k \in Months /\ m < k /\ DaysThrough[m] >= DaysThrough[k]}
<1>1. ASSUME Bad # {} PROVE FALSE
  <2>1. PICK k \in Bad : \A j \in Bad : k <= j
    BY <1>1, LeastNumber
  <2>2. k \in 1..Len(MonthDays) /\ k - 1 \in Nat /\ m <= k - 1
    BY <2>1, MonthsHaveDays DEF Months
  <2>3. /\ k - 1 \in Months /\ DaysThrough[k] = DaysThrough[k - 1] + MonthDays[k]
        /\ MonthDays[k] \in Nat \ {0}
    BY <2>2, MonthAddsItsDays
  <2>4. DaysThrough[m] \in Nat /\ DaysThrough[k - 1] \in Nat
    BY <2>3, DaysAreNumbers
  <2>5. DaysThrough[m] <= DaysThrough[k - 1]
    BY <2>1, <2>2, <2>3, <2>4 DEF Months
  <2> QED
    BY <2>1, <2>3, <2>4, <2>5
<1>2. n \notin Bad /\ n \in Nat
  BY <1>1 DEF Months
<1> QED
  BY <1>2, DaysAreNumbers

-----------------------------------------------------------------------------
(* Days and months of a moment. *)

LEMMA DayAndTime ==
  ASSUME NEW t \in Nat
  PROVE  /\ DayOf(t) \in Nat /\ TimeOfDay(t) \in 0..DayLength-1
         /\ t = DayLength * DayOf(t) + TimeOfDay(t)
BY CalendarAssumption DEF DayOf, TimeOfDay

LEMMA MomentOfDayAndTime ==
  ASSUME NEW day \in Nat, NEW time \in 0..DayLength-1
  PROVE  /\ DayOf(day * DayLength + time) = day
         /\ TimeOfDay(day * DayLength + time) = time
BY CalendarAssumption DEF DayOf, TimeOfDay

LEMMA MomentIsANumber ==
  ASSUME NEW day \in Nat, NEW time \in 0..DayLength-1
  PROVE  /\ day * DayLength + time \in Nat /\ DayLength * day \in Nat
         /\ day * DayLength + time = DayLength * day + time
BY CalendarAssumption

\* A moment of a day is before the end of the day, and before the days after it.
LEMMA LaterDayIsLater ==
  ASSUME NEW a \in Nat, NEW b \in Nat, NEW time \in 0..DayLength-1, a < b
  PROVE  DayLength * a + time < DayLength * b
<1>1. PICK c \in Nat : b = a + 1 + c
  <2>1. b - a - 1 \in Nat /\ b = a + 1 + (b - a - 1)
    OBVIOUS
  <2> QED
    BY <2>1
<1>2. DayLength \in Nat /\ DayLength * c \in Nat /\ DayLength * a \in Nat
  BY CalendarAssumption
<1>3. DayLength * b = DayLength * a + DayLength + DayLength * c
  BY <1>1, CalendarAssumption
<1> QED
  BY <1>2, <1>3

IsMonthOf(m, t) == DaysThrough[m - 1] <= DayOf(t) /\ DayOf(t) < DaysThrough[m]

\* The month of a moment is the one month that has its day.
LEMMA MonthIsUnique ==
  ASSUME NEW t \in Nat, NEW m \in 1..Len(MonthDays), IsMonthOf(m, t)
  PROVE  MonthOf(t) = m
<1>1. ASSUME NEW n \in 1..Len(MonthDays), IsMonthOf(n, t)
      PROVE  n = m
  <2>1. /\ m \in Nat /\ n \in Nat
        /\ m \in Months /\ m - 1 \in Months /\ n \in Months /\ n - 1 \in Months
    BY MonthAddsItsDays
  <2>2. /\ DaysThrough[m] \in Nat /\ DaysThrough[m - 1] \in Nat
        /\ DaysThrough[n] \in Nat /\ DaysThrough[n - 1] \in Nat /\ DayOf(t) \in Nat
    BY <2>1, DaysAreNumbers, DayAndTime
  <2>3. ASSUME NEW j \in Months, NEW k \in Months, j <= k
        PROVE  DaysThrough[j] <= DaysThrough[k]
    BY <2>3, DaysIncrease, DaysAreNumbers, MonthsHaveDays DEF Months
  <2>4. CASE m < n
    BY <1>1, <2>1, <2>2, <2>3, <2>4 DEF IsMonthOf
  <2>5. CASE n < m
    BY <1>1, <2>1, <2>2, <2>3, <2>5 DEF IsMonthOf
  <2> QED
    BY <2>1, <2>4, <2>5
<1>2. DOMAIN MonthDays = 1..Len(MonthDays)
  BY CalendarAssumption
<1>3. MonthOf(t) = CHOOSE n \in 1..Len(MonthDays) : IsMonthOf(n, t)
  BY <1>2 DEF MonthOf, IsMonthOf
<1> QED
  BY <1>1, <1>3

LEMMA MonthIsAMonth ==
  ASSUME NEW t \in Nat, InCalendar(t)
  PROVE  MonthOf(t) \in 1..Len(MonthDays)-1 /\ IsMonthOf(MonthOf(t), t)
<1> DEFINE Last == Len(MonthDays) - 1
           Later == {m \in Nat : m <= Last /\ DayOf(t) < DaysThrough[m]}
<1>1. Last \in Nat /\ Last \in Later
  BY MonthsHaveDays DEF InCalendar
<1>2. PICK m \in Later : \A n \in Later : m <= n
  BY <1>1, LeastNumber
<1>3. m \in Nat /\ m <= Last /\ DayOf(t) < DaysThrough[m] /\ DayOf(t) \in Nat
  BY DayAndTime
<1>4. m # 0
  BY <1>3, DaysThroughCounts DEF Counts
<1>5. m - 1 \in Nat /\ m - 1 <= Last /\ m - 1 \notin Later /\ m - 1 \in Months
  BY <1>1, <1>2, <1>3, <1>4, MonthsHaveDays DEF Months
<1>6. DaysThrough[m - 1] <= DayOf(t)
  BY <1>3, <1>5, DaysAreNumbers
<1>7. m \in 1..Last /\ m \in 1..Len(MonthDays) /\ IsMonthOf(m, t)
  BY <1>1, <1>3, <1>4, <1>6, MonthsHaveDays DEF IsMonthOf
<1> QED
  BY <1>7, MonthIsUnique

\* What AddCalendarMonth is made of.
LEMMA MonthAdded ==
  ASSUME NEW t \in Nat, InCalendar(t)
  PROVE  LET u == AddCalendarMonth(t)
             next == MonthOf(t) + 1
         IN  /\ u \in Nat /\ t <= u
             /\ next \in 1..Len(MonthDays)
             /\ MonthOf(u) = next
             /\ TimeOfDay(u) = TimeOfDay(t)
             /\ DayOfMonth(u) = IF DayOfMonth(t) < MonthDays[next] THEN DayOfMonth(t)
                                ELSE MonthDays[next] - 1
             /\ u < DayLength * DaysThrough[next]
<1> DEFINE u == AddCalendarMonth(t)
           next == MonthOf(t) + 1
           day == IF DayOfMonth(t) <= MonthDays[next] - 1 THEN DayOfMonth(t)
                  ELSE MonthDays[next] - 1
           start == DaysThrough[next - 1]
<1>1. /\ MonthOf(t) \in 1..Len(MonthDays) /\ MonthOf(t) \in Nat
      /\ IsMonthOf(MonthOf(t), t) /\ next \in 1..Len(MonthDays)
      /\ next - 1 = MonthOf(t)
  BY MonthIsAMonth, MonthsHaveDays
<1>2. /\ start \in Nat /\ MonthDays[next] \in Nat \ {0}
      /\ DaysThrough[next] = start + MonthDays[next]
  BY <1>1, MonthAddsItsDays, DaysAreNumbers
<1>3. /\ DayOf(t) \in Nat /\ DaysThrough[MonthOf(t) - 1] \in Nat
      /\ DayOf(t) < start /\ DayOfMonth(t) \in Nat
  <2>1. DaysThrough[MonthOf(t) - 1] \in Nat /\ DayOf(t) \in Nat
    BY <1>1, MonthAddsItsDays, DaysAreNumbers, DayAndTime
  <2> QED
    BY <1>1, <1>2, <2>1 DEF IsMonthOf, DayOfMonth
<1>4. day \in Nat /\ day <= MonthDays[next] - 1
  BY <1>2, <1>3
<1>5. u = (start + day) * DayLength + TimeOfDay(t)
  BY DEF AddCalendarMonth
<1>6. start + day \in Nat /\ TimeOfDay(t) \in 0..DayLength-1
  BY <1>2, <1>4, DayAndTime
<1>7. DayOf(u) = start + day /\ TimeOfDay(u) = TimeOfDay(t)
  BY <1>5, <1>6, MomentOfDayAndTime
<1>8. u \in Nat /\ u = DayLength * (start + day) + TimeOfDay(t)
  <2> HIDE DEF start, day, u
  <2> QED
    BY <1>5, <1>6, MomentIsANumber
<1>9. MonthOf(u) = next
  <2>1. IsMonthOf(next, u)
    BY <1>2, <1>4, <1>7 DEF IsMonthOf
  <2> QED
    BY <1>1, <1>8, <2>1, MonthIsUnique
<1>10. DayOfMonth(u) = day
  BY <1>2, <1>4, <1>7, <1>9 DEF DayOfMonth
<1>11. t <= u
  <2>1. t = DayLength * DayOf(t) + TimeOfDay(t)
    BY DayAndTime
  <2>2. DayOf(t) < start + day
    BY <1>2, <1>3, <1>4
  <2> HIDE DEF start, day, u
  <2>3. t < DayLength * (start + day) /\ DayLength * (start + day) \in Nat
    BY <1>3, <1>6, <2>1, <2>2, LaterDayIsLater, MomentIsANumber
  <2> QED
    BY <1>6, <1>8, <2>3
<1>12. u < DayLength * DaysThrough[next]
  <2>1. start + day < DaysThrough[next] /\ DaysThrough[next] \in Nat
    BY <1>2, <1>4
  <2> HIDE DEF start, day, u, next
  <2> QED
    BY <1>6, <1>8, <2>1, LaterDayIsLater
<1>13. day = IF DayOfMonth(t) < MonthDays[next] THEN DayOfMonth(t)
             ELSE MonthDays[next] - 1
  BY <1>2, <1>3
<1> QED
  BY <1>1, <1>7, <1>8, <1>9, <1>10, <1>11, <1>12, <1>13

\* _add_calendar_month computes the statutory month, whatever the lengths of the
\* months: the day is clamped to the end of a shorter month, and nothing later in
\* the next month would do.
THEOREM MonthIsStatutory ==
  ASSUME NEW t \in Nat, InCalendar(t)
  PROVE  AddCalendarMonth(t) = OneMonthAfter(t)
<1> DEFINE u == AddCalendarMonth(t)
           next == MonthOf(t) + 1
           moments == {v \in t..(DayLength * DaysThrough[next] - 1) :
                         /\ MonthOf(v) = next
                         /\ TimeOfDay(v) = TimeOfDay(t)
                         /\ DayOfMonth(v) <= DayOfMonth(t)}
<1>1. /\ u \in Nat /\ t <= u /\ next \in 1..Len(MonthDays) /\ MonthOf(u) = next
      /\ TimeOfDay(u) = TimeOfDay(t)
      /\ DayOfMonth(u) = IF DayOfMonth(t) < MonthDays[next] THEN DayOfMonth(t)
                         ELSE MonthDays[next] - 1
      /\ u < DayLength * DaysThrough[next]
  BY MonthAdded
<1>2. /\ next \in Months /\ next - 1 \in Months /\ MonthDays[next] \in Nat \ {0}
      /\ DaysThrough[next] = DaysThrough[next - 1] + MonthDays[next]
  BY <1>1, MonthAddsItsDays
<1>3. DaysThrough[next] \in Nat /\ DaysThrough[next - 1] \in Nat
  BY <1>2, DaysAreNumbers
<1> HIDE DEF u, next
<1>4. DayOf(u) = DaysThrough[next - 1] + DayOfMonth(u) /\ DayOf(u) \in Nat
  <2>1. DayOf(u) \in Nat
    BY <1>1, DayAndTime
  <2>2. DayOfMonth(u) = DayOf(u) - DaysThrough[next - 1]
    BY <1>1 DEF DayOfMonth
  <2> QED
    BY <1>3, <2>1, <2>2
<1>5. u \in moments
  <2>1. MonthOf(t) - 1 \in Months /\ DayOf(t) \in Nat
    BY MonthIsAMonth, MonthAddsItsDays, MonthsHaveDays, DayAndTime
  <2>2. DayOfMonth(t) \in Int
    BY <2>1, DaysAreNumbers DEF DayOfMonth
  <2>3. DayOfMonth(u) <= DayOfMonth(t)
    BY <1>1, <1>2, <2>2
  <2>4. DayLength * DaysThrough[next] \in Nat
    BY <1>3, CalendarAssumption
  <2> QED
    BY <1>1, <2>3, <2>4
<1>6. ASSUME NEW v \in moments
      PROVE  v \in Nat /\ v <= u
  <2>1. v \in Nat /\ v < DayLength * DaysThrough[next]
    BY <1>3, CalendarAssumption
  <2>2. /\ MonthOf(v) = next /\ TimeOfDay(v) = TimeOfDay(t)
        /\ DayOfMonth(v) <= DayOfMonth(t)
    OBVIOUS
  <2>3. /\ DayOf(v) \in Nat /\ TimeOfDay(t) \in 0..DayLength-1
        /\ v = DayLength * DayOf(v) + TimeOfDay(t)
        /\ u = DayLength * DayOf(u) + TimeOfDay(t)
    BY <1>1, <2>1, <2>2, DayAndTime
  <2>4. DayOf(v) = DaysThrough[next - 1] + DayOfMonth(v) /\ DayOfMonth(v) \in Int
    BY <1>3, <2>2, <2>3 DEF DayOfMonth
  <2>5. DayOf(v) < DaysThrough[next]
    <3>1. ASSUME DaysThrough[next] <= DayOf(v) PROVE FALSE
      <4>1. CASE DaysThrough[next] = DayOf(v)
        BY <1>3, <2>1, <2>3, <4>1, CalendarAssumption
      <4>2. CASE DaysThrough[next] < DayOf(v)
        <5>1. DayLength * DaysThrough[next] + TimeOfDay(t) < DayLength * DayOf(v)
          BY <1>3, <2>3, <4>2, LaterDayIsLater
        <5>2. DayLength * DaysThrough[next] \in Nat /\ DayLength * DayOf(v) \in Nat
          BY <1>3, <2>3, CalendarAssumption
        <5> QED
          BY <2>1, <2>3, <5>1, <5>2
      <4> QED
        BY <1>3, <2>3, <3>1, <4>1, <4>2
    <3> QED
      BY <1>3, <2>3, <3>1
  <2>6. DayOfMonth(v) <= DayOfMonth(u)
    BY <1>1, <1>2, <1>3, <2>2, <2>4, <2>5
  <2>7. DayOf(v) <= DayOf(u)
    <3>1. DayOfMonth(u) \in Int
      BY <1>1, <1>3, <1>4 DEF DayOfMonth
    <3> QED
      BY <1>3, <1>4, <2>4, <2>6, <3>1
  <2>8. CASE DayOf(v) = DayOf(u)
    BY <1>1, <2>1, <2>3, <2>8
  <2>9. CASE DayOf(v) < DayOf(u)
    <3>1. DayLength * DayOf(v) + TimeOfDay(t) < DayLength * DayOf(u)
      BY <1>4, <2>3, <2>9, LaterDayIsLater
    <3>2. DayLength * DayOf(u) \in Nat
      BY <1>4, CalendarAssumption
    <3> QED
      BY <2>1, <2>3, <3>1, <3>2
  <2> QED
    BY <1>4, <2>1, <2>3, <2>7, <2>8, <2>9
<1>7. \A w \in moments : (\A v \in moments : v <= w) => w = u
  BY <1>1, <1>5, <1>6
<1>8. OneMonthAfter(t) = CHOOSE w \in moments : \A v \in moments : v <= w
  BY DEF OneMonthAfter, next
<1> QED
  BY <1>5, <1>6, <1>7, <1>8 DEF u

-----------------------------------------------------------------------------
(***************************************************************************)
(* Incidents and IncidentReporting                                         *)
(***************************************************************************)

(* The evidence of an incident. *)

\* A readiness assessment says what its own snapshot misses.
ReadinessIsExact ==
  readiness # None => readiness.missing = Missing(readiness.snapshot)

IncidentsInv ==
  IncidentsTypeOK /\ ReadinessIsExact /\ ReviewsStandOnCompleteEvidence

\* Nothing that comes after a review changes it.
ReviewsKept ==
  \A i \in DOMAIN reviews : i \in DOMAIN reviews' /\ reviews'[i] = reviews[i]

LEMMA SnapshotHasType ==
  ASSUME IncidentsTypeOK, incident # None
  PROVE  Snapshot \in SnapshotType
BY DEF IncidentsTypeOK, Snapshot, SnapshotType

LEMMA ReviewedIsRegistered ==
  ASSUME IncidentsInv, NEW i \in DOMAIN reviews
  PROVE  /\ incident # None
         /\ reviews[i] \in Review
         /\ Extends(Snapshot, reviews[i].snapshot)
<1>1. reviews[i] \in Review
  BY DEF IncidentsInv, IncidentsTypeOK
<1>2. Extends(Snapshot, reviews[i].snapshot)
  BY DEF IncidentsInv, ReviewsStandOnCompleteEvidence
<1>3. incident \in 0..MaxInventory
  BY <1>1, <1>2 DEF Extends, Snapshot, Review, SnapshotType
<1> QED
  BY <1>1, <1>2, <1>3, IncidentsAssumption

LEMMA ExtendsIsReflexive ==
  ASSUME IncidentsTypeOK
  PROVE  Extends(Snapshot, Snapshot)
BY DEF IncidentsTypeOK, Extends, Snapshot

LEMMA ExtendsIsTransitive ==
  ASSUME NEW a, NEW b \in SnapshotType, NEW c \in SnapshotType,
         a.events \in Seq(Event), Extends(a, b), Extends(b, c)
  PROVE  Extends(a, c)
<1>1. a.incident = c.incident
  BY DEF Extends
<1>2. /\ Len(c.events) <= Len(a.events)
      /\ \A i \in 1..Len(c.events) : a.events[i] = c.events[i]
  BY DEF Extends, SnapshotType
<1>3. \A i \in ImpactId : c.impacts[i] # None => a.impacts[i] = c.impacts[i]
  BY DEF Extends
<1> QED
  BY <1>1, <1>2, <1>3 DEF Extends

LEMMA ExtendsIsAntisymmetric ==
  ASSUME NEW a \in SnapshotType, NEW b \in SnapshotType,
         Extends(a, b), Extends(b, a)
  PROVE  a = b
<1>1. a.incident = b.incident
  BY DEF Extends
<1>2. a.events = b.events
  <2>1. /\ a.events \in Seq(Event) /\ b.events \in Seq(Event)
        /\ Len(a.events) = Len(b.events)
        /\ \A i \in 1..Len(a.events) : a.events[i] = b.events[i]
    BY DEF Extends, SnapshotType
  <2> QED
    BY <2>1, SeqEqual
<1>3. a.impacts = b.impacts
  BY DEF Extends, SnapshotType
<1> QED
  BY <1>1, <1>2, <1>3 DEF SnapshotType

\* The evidence of a registered incident only grows, and reviews are kept.
LEMMA EvidenceOnlyGrows ==
  ASSUME IncidentsTypeOK, [IncidentsNext]_incidentVars
  PROVE  /\ ReviewsKept
         /\ incident # None => incident' = incident /\ Extends(Snapshot', Snapshot)
<1> USE DEF IncidentsTypeOK, ReviewsKept, Extends, Snapshot
<1>1. CASE GrowInventory
  BY <1>1 DEF GrowInventory
<1>2. ASSUME NEW pin \in 0..MaxInventory, RegisterIncident(pin)
      PROVE  /\ ReviewsKept
             /\ incident # None => incident' = incident /\ Extends(Snapshot', Snapshot)
  BY <1>2 DEF RegisterIncident
<1>3. ASSUME NEW event \in Event, AppendEvent(event)
      PROVE  /\ ReviewsKept
             /\ incident # None => incident' = incident /\ Extends(Snapshot', Snapshot)
  BY <1>3 DEF AppendEvent
<1>4. ASSUME NEW id \in ImpactId, NEW dimension \in Dimension,
             RegisterImpact(id, dimension)
      PROVE  /\ ReviewsKept
             /\ incident # None => incident' = incident /\ Extends(Snapshot', Snapshot)
  BY <1>4 DEF RegisterImpact
<1>5. CASE AssessReadiness
  BY <1>5 DEF AssessReadiness
<1>6. ASSUME NEW verdict \in Verdict, NEW at \in ReviewTime,
             ReviewClassification(verdict, at)
      PROVE  /\ ReviewsKept
             /\ incident # None => incident' = incident /\ Extends(Snapshot', Snapshot)
  BY <1>6 DEF ReviewClassification
<1>7. CASE UNCHANGED incidentVars
  BY <1>7 DEF incidentVars
<1> QED
  BY <1>1, <1>2, <1>3, <1>4, <1>5, <1>6, <1>7 DEF IncidentsNext

LEMMA IncidentsTypePreserved ==
  ASSUME IncidentsTypeOK, [IncidentsNext]_incidentVars
  PROVE  IncidentsTypeOK'
<1> USE DEF IncidentsTypeOK
<1>1. CASE GrowInventory
  BY <1>1, IncidentsAssumption DEF GrowInventory
<1>2. ASSUME NEW pin \in 0..MaxInventory, RegisterIncident(pin)
      PROVE  IncidentsTypeOK'
  BY <1>2 DEF RegisterIncident
<1>3. ASSUME NEW event \in Event, AppendEvent(event)
      PROVE  IncidentsTypeOK'
  BY <1>3 DEF AppendEvent
<1>4. ASSUME NEW id \in ImpactId, NEW dimension \in Dimension,
             RegisterImpact(id, dimension)
      PROVE  IncidentsTypeOK'
  BY <1>4 DEF RegisterImpact
<1>5. CASE AssessReadiness
  <2>1. Snapshot \in SnapshotType
    BY <1>5, SnapshotHasType DEF AssessReadiness
  <2>2. Missing(Snapshot) \in SUBSET (RequiredKinds \cup RequiredDimensions)
    BY DEF Missing
  <2> QED
    BY <1>5, <2>1, <2>2 DEF AssessReadiness
<1>6. ASSUME NEW verdict \in Verdict, NEW at \in ReviewTime,
             ReviewClassification(verdict, at)
      PROVE  IncidentsTypeOK'
  <2>1. Snapshot \in SnapshotType
    BY <1>6 DEF ReviewClassification
  <2>2. [snapshot |-> Snapshot, verdict |-> verdict, at |-> at] \in Review
    BY <2>1 DEF Review
  <2> QED
    BY <1>6, <2>2 DEF ReviewClassification
<1>7. CASE UNCHANGED incidentVars
  BY <1>7 DEF incidentVars
<1> QED
  BY <1>1, <1>2, <1>3, <1>4, <1>5, <1>6, <1>7 DEF IncidentsNext

LEMMA ReadinessPreserved ==
  ASSUME IncidentsTypeOK, ReadinessIsExact, [IncidentsNext]_incidentVars
  PROVE  ReadinessIsExact'
<1>1. CASE AssessReadiness
  <2>1. readiness' = [snapshot |-> Snapshot, missing |-> Missing(Snapshot)]
    BY <1>1 DEF AssessReadiness
  <2> QED
    BY <2>1 DEF ReadinessIsExact, Missing
<1>2. CASE UNCHANGED readiness
  BY <1>2 DEF ReadinessIsExact, Missing
<1> QED
  BY <1>1, <1>2 DEF IncidentsNext, GrowInventory, RegisterIncident, AppendEvent,
     RegisterImpact, ReviewClassification, incidentVars

LEMMA ReviewsStandPreserved ==
  ASSUME IncidentsInv, IncidentsTypeOK', [IncidentsNext]_incidentVars
  PROVE  ReviewsStandOnCompleteEvidence'
<1>1. ASSUME NEW i \in DOMAIN reviews
      PROVE  /\ reviews'[i] = reviews[i]
             /\ Missing(reviews[i].snapshot) = {}
             /\ Extends(Snapshot', reviews[i].snapshot)
  <2>1. IncidentsTypeOK
    BY DEF IncidentsInv
  <2>2. incident # None /\ reviews[i].snapshot \in SnapshotType
    BY ReviewedIsRegistered DEF Review
  <2>3. reviews'[i] = reviews[i] /\ Extends(Snapshot', Snapshot)
    BY <2>1, <2>2, EvidenceOnlyGrows DEF ReviewsKept
  <2>4. Extends(Snapshot, reviews[i].snapshot) /\ Missing(reviews[i].snapshot) = {}
    BY DEF IncidentsInv, ReviewsStandOnCompleteEvidence
  <2>5. Snapshot \in SnapshotType /\ (Snapshot').events \in Seq(Event)
    BY <2>1, <2>2, SnapshotHasType DEF IncidentsTypeOK, Snapshot
  <2> QED
    BY <2>2, <2>3, <2>4, <2>5, ExtendsIsTransitive
<1>2. ASSUME DOMAIN reviews' = DOMAIN reviews
      PROVE  ReviewsStandOnCompleteEvidence'
  BY <1>1, <1>2 DEF ReviewsStandOnCompleteEvidence, Extends, Missing
<1>3. ASSUME NEW verdict \in Verdict, NEW at \in ReviewTime,
             ReviewClassification(verdict, at)
      PROVE  ReviewsStandOnCompleteEvidence'
  <2> DEFINE new == Len(reviews) + 1
  <2>1. /\ reviews \in Seq(Review)
        /\ reviews' = Append(reviews, [snapshot |-> Snapshot, verdict |-> verdict,
                                       at |-> at])
        /\ Snapshot' = Snapshot
    BY <1>3 DEF ReviewClassification, IncidentsInv, IncidentsTypeOK, Snapshot
  <2>2. /\ DOMAIN reviews' = DOMAIN reviews \cup {new}
        /\ reviews'[new].snapshot = Snapshot
    BY <2>1
  <2>3. Missing(Snapshot) = {}
    BY <1>3 DEF ReviewClassification, IncidentsInv, ReadinessIsExact
  <2>4. Extends(Snapshot, Snapshot)
    BY ExtendsIsReflexive DEF IncidentsInv
  <2>5. \A i \in DOMAIN reviews' :
          Missing(reviews'[i].snapshot) = {} /\ Extends(Snapshot', reviews'[i].snapshot)
    BY <1>1, <2>1, <2>2, <2>3, <2>4, Zenon
  <2> QED
    BY <2>5 DEF ReviewsStandOnCompleteEvidence, Extends, Missing
<1> QED
  <2>1. CASE UNCHANGED reviews
    BY <1>2, <2>1
  <2> QED
    BY <1>3, <2>1 DEF IncidentsNext, GrowInventory, RegisterIncident, AppendEvent,
       RegisterImpact, AssessReadiness, incidentVars

LEMMA IncidentsInvInitially ==
  ASSUME IncidentsInit
  PROVE  IncidentsInv
BY IncidentsAssumption DEF IncidentsInit, IncidentsInv, IncidentsTypeOK,
   ReadinessIsExact, ReviewsStandOnCompleteEvidence

LEMMA IncidentsInvPreserved ==
  ASSUME IncidentsInv, [IncidentsNext]_incidentVars
  PROVE  IncidentsInv'
<1>1. IncidentsTypeOK' /\ ReadinessIsExact'
  BY IncidentsTypePreserved, ReadinessPreserved DEF IncidentsInv
<1> QED
  BY <1>1, ReviewsStandPreserved DEF IncidentsInv

LEMMA StaleReviewStep ==
  ASSUME IncidentsInv, [IncidentsNext]_incidentVars,
         NEW i \in DOMAIN reviews, reviews[i].snapshot # Snapshot
  PROVE  reviews'[i] = reviews[i] /\ reviews'[i].snapshot # Snapshot'
<1>1. IncidentsTypeOK
  BY DEF IncidentsInv
<1>2. /\ incident # None /\ reviews[i].snapshot \in SnapshotType
      /\ Extends(Snapshot, reviews[i].snapshot)
  BY ReviewedIsRegistered DEF Review
<1>3. /\ reviews'[i] = reviews[i]
      /\ Extends(Snapshot', Snapshot) /\ Snapshot \in SnapshotType
  BY <1>1, <1>2, EvidenceOnlyGrows, SnapshotHasType DEF ReviewsKept
<1>4. ASSUME reviews[i].snapshot = Snapshot'
      PROVE  FALSE
  <2>1. Extends(reviews[i].snapshot, Snapshot)
    BY <1>3, <1>4
  <2> QED
    BY <1>2, <1>3, <2>1, ExtendsIsAntisymmetric
<1> QED
  BY <1>3, <1>4

\* Whatever is registered between the assessment of readiness and the review, a
\* human classification is only ever taken on complete evidence that is still part
\* of the record.
THEOREM ReviewsAlwaysStand == IncidentsSpec => []ReviewsStandOnCompleteEvidence
<1>1. IncidentsInv => ReviewsStandOnCompleteEvidence
  BY DEF IncidentsInv
<1> QED
  BY <1>1, IncidentsInvInitially, IncidentsInvPreserved, PTL DEF IncidentsSpec

\* A review that evidence has overtaken never becomes current again: the snapshot
\* does not return to what the reviewer saw.
THEOREM StaleReviewAlwaysStaysStale == IncidentsSpec => StaleReviewStaysStale
<1>1. IncidentsInv /\ [IncidentsNext]_incidentVars
        => [\A i \in DOMAIN reviews :
              reviews[i].snapshot # Snapshot =>
                reviews'[i] = reviews[i] /\ reviews'[i].snapshot # Snapshot']_incidentVars
  BY StaleReviewStep
<1> QED
  BY <1>1, IncidentsInvInitially, IncidentsInvPreserved, PTL
     DEF IncidentsSpec, StaleReviewStaysStale

-----------------------------------------------------------------------------
(* The reporting registry. *)

Bounded == Len(decisions) <= MaxDecisions /\ Len(routes) <= MaxRoutes

\* A decision is about a review that somebody made, and is not older than it.
DecisionsStandOnReviews ==
  \A d \in DOMAIN decisions :
    /\ \E i \in DOMAIN reviews : decisions[d].review = reviews[i]
    /\ decisions[d].review.at <= decisions[d].at

ReportingInv ==
  /\ IncidentsInv
  /\ TypeOK
  /\ Bounded
  /\ DecisionsStandOnReviews
  /\ HistoryAdvances
  /\ PackagesAreJustified
  /\ ReportsFollowSubmissions

LEMMA IncidentsTakeTheirSteps ==
  ASSUME [Next]_vars
  PROVE  [IncidentsNext]_incidentVars
BY DEF Next, vars, RegisterApplicability, RegisterRoute, RegisterPackage,
   RefusePackage, RegisterReceipt, RegisterAcknowledgement, RegisterAdjustment,
   RegisterDelay

LEMMA TimesAreNumbers == GovernanceTime \subseteq Nat /\ Time \subseteq Nat
BY ReportingAssumption

\* What register_package has checked when it stores a package.
LEMMA RegisteredIsGoverned ==
  ASSUME NEW k, NEW d, NEW r, NEW at,
         PackageOutcome(k, d, r, at) = "registered"
  PROVE  /\ Governed(k, d, r, at)
         /\ Contiguous(k, at)
         /\ NeedsPrior(k) => PriorReceipts(k) # {}
BY DEF PackageOutcome

LEMMA TypePreserved ==
  ASSUME TypeOK, Bounded, [Next]_vars
  PROVE  TypeOK' /\ Bounded'
<1>0. IncidentsTypeOK'
  BY IncidentsTakeTheirSteps, IncidentsTypePreserved DEF TypeOK
<1> USE <1>0, ReportingAssumption DEF TypeOK, Bounded
<1>1. CASE IncidentsNext /\ UNCHANGED reportingVars
  BY <1>1 DEF reportingVars
<1>2. ASSUME NEW i \in DOMAIN reviews, NEW a \in Applicability,
             NEW at \in GovernanceTime, RegisterApplicability(reviews[i], a, at)
      PROVE  TypeOK' /\ Bounded'
  <2>1. reviews[i] \in Review
    BY DEF IncidentsTypeOK
  <2>2. [review |-> reviews[i], applicability |-> a, at |-> at] \in Decision
    BY <2>1 DEF Decision
  <2> QED
    BY <1>2, <2>2 DEF RegisterApplicability
<1>3. ASSUME NEW at \in GovernanceTime, RegisterRoute(at)
      PROVE  TypeOK' /\ Bounded'
  BY <1>3 DEF RegisterRoute
<1>4. ASSUME NEW k \in Key, NEW d \in 0..Len(decisions), NEW r \in 0..Len(routes),
             NEW at \in GovernanceTime, RegisterPackage(k, d, r, at)
      PROVE  TypeOK' /\ Bounded'
  <2>1. d \in 1..MaxDecisions /\ r \in 1..MaxRoutes
    BY <1>4, RegisteredIsGoverned
       DEF RegisterPackage, Governed, DecisionCurrent, RouteCurrent
  <2>2. [decision |-> d, route |-> r, at |-> at] \in Package
    BY <2>1 DEF Package
  <2>3. packages[k] \in Seq(Package)
    OBVIOUS
  <2>4. Append(packages[k], [decision |-> d, route |-> r, at |-> at]) \in Seq(Package)
    BY <2>2, <2>3
  <2> QED
    BY <1>4, <2>4 DEF RegisterPackage
<1>5. ASSUME NEW k \in Key, NEW d, NEW r, NEW at, RefusePackage(k, d, r, at)
      PROVE  TypeOK' /\ Bounded'
  BY <1>5 DEF RefusePackage
<1>6. ASSUME NEW k \in Key, NEW revision \in 1..MaxRevisions, NEW at \in Time,
             RegisterReceipt(k, revision, at)
      PROVE  TypeOK' /\ Bounded'
  BY <1>6 DEF RegisterReceipt, Receipt
<1>7. ASSUME NEW receipt \in receipts, NEW status \in AckStatus,
             RegisterAcknowledgement(receipt, status)
      PROVE  TypeOK' /\ Bounded'
  BY <1>7 DEF RegisterAcknowledgement, Ack, Receipt
<1>8. ASSUME NEW k \in AdjustableKey, NEW original \in Time, NEW adjusted \in Time,
             RegisterAdjustment(k, original, adjusted)
      PROVE  TypeOK' /\ Bounded'
  <2>1. [original |-> original, adjusted |-> adjusted] \in Adjustment
    BY DEF Adjustment
  <2> QED
    BY <1>8, <2>1 DEF RegisterAdjustment
<1>9. ASSUME NEW k \in AdjustableKey, NEW due \in Time, RegisterDelay(k, due)
      PROVE  TypeOK' /\ Bounded'
  BY <1>9 DEF RegisterDelay
<1>10. CASE UNCHANGED vars
  BY <1>10 DEF vars, reportingVars
<1> QED
  BY <1>1, <1>2, <1>3, <1>4, <1>5, <1>6, <1>7, <1>8, <1>9, <1>10 DEF Next

\* Three registrations append to the histories; every other step at most adds a
\* receipt, as far as they are concerned.
LEMMA HistoriesChangeByAppending ==
  ASSUME [Next]_vars
  PROVE  \/ \E i \in DOMAIN reviews, a \in Applicability, at \in GovernanceTime :
              RegisterApplicability(reviews[i], a, at)
         \/ \E at \in GovernanceTime : RegisterRoute(at)
         \/ \E k \in Key, d \in 0..Len(decisions), r \in 0..Len(routes),
               at \in GovernanceTime : RegisterPackage(k, d, r, at)
         \/ UNCHANGED <<decisions, routes, packages>> /\ receipts \subseteq receipts'
<1>1. CASE IncidentsNext /\ UNCHANGED reportingVars
  BY <1>1 DEF reportingVars
<1>2. CASE UNCHANGED vars
  BY <1>2 DEF vars, reportingVars
<1> QED
  BY <1>1, <1>2 DEF Next, RefusePackage, RegisterReceipt, RegisterAcknowledgement,
     RegisterAdjustment, RegisterDelay

\* Nothing registered is lost, and a review keeps its number.
LEMMA NothingIsLost ==
  ASSUME TypeOK, [Next]_vars
  PROVE  /\ ReviewsKept
         /\ \A d \in DOMAIN decisions :
              d \in DOMAIN decisions' /\ decisions'[d] = decisions[d]
         /\ \A r \in DOMAIN routes : r \in DOMAIN routes' /\ routes'[r] = routes[r]
         /\ receipts \subseteq receipts'
<1>1. ReviewsKept
  BY IncidentsTakeTheirSteps, EvidenceOnlyGrows DEF TypeOK
<1>2. \A d \in DOMAIN decisions :
        d \in DOMAIN decisions' /\ decisions'[d] = decisions[d]
  <2>1. decisions \in Seq(Decision)
    BY DEF TypeOK
  <2>2. decisions' = decisions \/ \E new : decisions' = Append(decisions, new)
    BY HistoriesChangeByAppending
       DEF RegisterApplicability, RegisterRoute, RegisterPackage
  <2> QED
    BY <2>1, <2>2
<1>3. \A r \in DOMAIN routes : r \in DOMAIN routes' /\ routes'[r] = routes[r]
  <2>1. routes \in Seq(GovernanceTime)
    BY DEF TypeOK
  <2>2. routes' = routes \/ \E new : routes' = Append(routes, new)
    BY HistoriesChangeByAppending
       DEF RegisterApplicability, RegisterRoute, RegisterPackage
  <2> QED
    BY <2>1, <2>2
<1>4. receipts \subseteq receipts'
  BY HistoriesChangeByAppending
     DEF RegisterApplicability, RegisterRoute, RegisterPackage
<1> QED
  BY <1>1, <1>2, <1>3, <1>4

LEMMA DecisionsStandPreserved ==
  ASSUME ReportingInv, [Next]_vars
  PROVE  DecisionsStandOnReviews'
<1>1. TypeOK /\ DecisionsStandOnReviews
  BY DEF ReportingInv
<1>2. CASE UNCHANGED decisions
  BY <1>1, <1>2, NothingIsLost, Zenon DEF DecisionsStandOnReviews, ReviewsKept
<1>3. ASSUME NEW i \in DOMAIN reviews, NEW a \in Applicability,
             NEW at \in GovernanceTime, RegisterApplicability(reviews[i], a, at)
      PROVE  DecisionsStandOnReviews'
  <2> DEFINE new == Len(decisions) + 1
  <2>1. /\ DOMAIN decisions' = DOMAIN decisions \cup {new}
        /\ decisions'[new].review = reviews[i]
        /\ decisions'[new].at = at /\ reviews[i].at <= at
        /\ \A d \in DOMAIN decisions : decisions'[d] = decisions[d]
        /\ reviews' = reviews
    BY <1>1, <1>3 DEF RegisterApplicability, TypeOK, incidentVars
  <2> QED
    BY <1>1, <2>1, Zenon DEF DecisionsStandOnReviews
<1> QED
  BY <1>2, <1>3, HistoriesChangeByAppending DEF RegisterRoute, RegisterPackage

\* What a decision was taken on is part of the incident's record.
LEMMA DecidedIsOnRecord ==
  ASSUME ReportingInv, NEW d \in DOMAIN decisions
  PROVE  /\ Extends(Snapshot, decisions[d].review.snapshot)
         /\ Missing(decisions[d].review.snapshot) = {}
         /\ decisions[d].review.at <= decisions[d].at
BY DEF ReportingInv, IncidentsInv, DecisionsStandOnReviews,
   ReviewsStandOnCompleteEvidence

LEMMA HistoryStillAdvances ==
  ASSUME ReportingInv, [Next]_vars
  PROVE  HistoryAdvances'
<1>1. TypeOK /\ HistoryAdvances /\ PackagesAreJustified
  BY DEF ReportingInv
<1>2. CASE UNCHANGED <<decisions, packages>>
  BY <1>1, <1>2 DEF HistoryAdvances, Extends
<1>3. ASSUME NEW i \in DOMAIN reviews, NEW a \in Applicability,
             NEW at \in GovernanceTime, RegisterApplicability(reviews[i], a, at)
      PROVE  HistoryAdvances'
  <2> DEFINE new == Len(decisions) + 1
  <2>1. /\ DOMAIN decisions' = DOMAIN decisions \cup {new} /\ DOMAIN decisions = 1..new-1
        /\ decisions'[new].review.snapshot = Snapshot /\ decisions'[new].at = at
        /\ \A d \in DOMAIN decisions : decisions'[d] = decisions[d]
        /\ packages' = packages /\ new \in Nat
    BY <1>1, <1>3 DEF RegisterApplicability, TypeOK
  <2>2. \A d \in DOMAIN decisions : decisions[d].at < at
    <3>1. \A d \in DOMAIN decisions : decisions[d].at \in Nat
      <4>1. \A d \in DOMAIN decisions : decisions[d] \in Decision
        BY <1>1 DEF TypeOK
      <4> QED
        BY <4>1, TimesAreNumbers DEF Decision
    <3>2. \A d \in DOMAIN decisions :
            d = Len(decisions) \/ decisions[d].at < decisions[Len(decisions)].at
      BY <1>1, <2>1 DEF HistoryAdvances, TypeOK
    <3>3. decisions # <<>> => at > decisions[Len(decisions)].at
      BY <1>3 DEF RegisterApplicability
    <3>4. DOMAIN decisions # {} => decisions # <<>> /\ Len(decisions) \in DOMAIN decisions
      BY <1>1 DEF TypeOK
    <3> QED
      BY <3>1, <3>2, <3>3, <3>4, TimesAreNumbers
  <2>3. \A d \in DOMAIN decisions : Extends(Snapshot, decisions[d].review.snapshot)
    BY DecidedIsOnRecord
  <2>4. \A m, n \in DOMAIN decisions' : m < n =>
          /\ decisions'[m].at < decisions'[n].at
          /\ Extends(decisions'[n].review.snapshot, decisions'[m].review.snapshot)
    <3> SUFFICES ASSUME NEW m \in DOMAIN decisions', NEW n \in DOMAIN decisions', m < n
                 PROVE  /\ decisions'[m].at < decisions'[n].at
                        /\ Extends(decisions'[n].review.snapshot,
                                   decisions'[m].review.snapshot)
      OBVIOUS
    <3>1. m \in DOMAIN decisions
      BY <2>1
    <3>2. CASE n \in DOMAIN decisions
      BY <1>1, <2>1, <3>1, <3>2 DEF HistoryAdvances
    <3>3. CASE n = new
      BY <2>1, <2>2, <2>3, <3>1, <3>3
    <3> QED
      BY <2>1, <3>2, <3>3
  <2> QED
    BY <1>1, <2>1, <2>4 DEF HistoryAdvances, Extends
<1>4. ASSUME NEW k \in Key, NEW d \in 0..Len(decisions), NEW r \in 0..Len(routes),
             NEW at \in GovernanceTime, RegisterPackage(k, d, r, at)
      PROVE  HistoryAdvances'
  <2> DEFINE new == Len(packages[k]) + 1
  <2>0. packages[k] \in Seq(Package)
    BY <1>1 DEF TypeOK
  <2>1. /\ d = Len(decisions) /\ r = Len(routes) /\ decisions' = decisions
        /\ packages[k] # <<>> => at > packages[k][Len(packages[k])].at
    BY <1>4, RegisteredIsGoverned
       DEF RegisterPackage, Governed, DecisionCurrent, RouteCurrent, Contiguous
  <2>2. /\ DOMAIN packages'[k] = DOMAIN packages[k] \cup {new}
        /\ DOMAIN packages[k] = 1..new-1 /\ new \in Nat
        /\ packages'[k][new] = [decision |-> d, route |-> r, at |-> at]
        /\ \A i \in DOMAIN packages[k] : packages'[k][i] = packages[k][i]
        /\ \A j \in Key : j # k => packages'[j] = packages[j]
    BY <1>1, <1>4, <2>0 DEF RegisterPackage, TypeOK
  <2>3. \A i \in DOMAIN packages[k] : packages[k][i].at < at
    <3> HIDE DEF new
    <3>1. \A i \in DOMAIN packages[k] : packages[k][i].at \in Nat
      <4>1. \A i \in DOMAIN packages[k] : packages[k][i] \in Package
        BY <2>0
      <4> QED
        BY <4>1, TimesAreNumbers DEF Package
    <3>2. \A i \in DOMAIN packages[k] :
            i = Len(packages[k]) \/ packages[k][i].at < packages[k][Len(packages[k])].at
      BY <1>1, <2>0 DEF HistoryAdvances
    <3>3. DOMAIN packages[k] # {} =>
            packages[k] # <<>> /\ Len(packages[k]) \in DOMAIN packages[k]
      BY <2>0
    <3> QED
      BY <2>1, <3>1, <3>2, <3>3, TimesAreNumbers
  <2>4. \A i \in DOMAIN packages[k] :
          packages[k][i].decision <= d /\ packages[k][i].route <= r
    BY <1>1, <2>1 DEF PackagesAreJustified, TypeOK
  <2> DEFINE Ordered(p, q) ==
               p.at < q.at /\ p.decision <= q.decision /\ p.route <= q.route
  <2>5. \A i \in DOMAIN packages[k] : Ordered(packages[k][i], packages'[k][new])
    BY <2>2, <2>3, <2>4
  <2>6. \A j \in Key : \A m, n \in DOMAIN packages[j] :
          m < n => Ordered(packages[j][m], packages[j][n])
    BY <1>1 DEF HistoryAdvances
  <2>7. \A j \in Key : \A m, n \in DOMAIN packages'[j] :
          m < n => Ordered(packages'[j][m], packages'[j][n])
    <3> HIDE DEF Ordered
    <3> SUFFICES ASSUME NEW m \in DOMAIN packages'[k], NEW n \in DOMAIN packages'[k],
                        m < n
                 PROVE  Ordered(packages'[k][m], packages'[k][n])
      BY <2>2, <2>6
    <3>1. m \in DOMAIN packages[k]
      BY <2>2
    <3> QED
      BY <2>2, <2>5, <2>6, <3>1
  <2> QED
    BY <1>1, <2>1, <2>7 DEF HistoryAdvances, Extends
<1> QED
  BY <1>2, <1>3, <1>4, HistoriesChangeByAppending DEF RegisterRoute

\* What PackagesAreJustified says of one package.
Justified(k, p) ==
  /\ p.decision \in DOMAIN decisions /\ p.route \in DOMAIN routes
  /\ decisions[p.decision].applicability = "APPLICABLE"
  /\ decisions[p.decision].review.verdict = RequiredVerdict(k)
  /\ Missing(decisions[p.decision].review.snapshot) = {}
  /\ decisions[p.decision].review.at <= decisions[p.decision].at
  /\ decisions[p.decision].at <= p.at /\ routes[p.route] <= p.at

LEMMA JustifiedStays ==
  ASSUME TypeOK, [Next]_vars, NEW k, NEW p, Justified(k, p)
  PROVE  Justified(k, p)'
BY NothingIsLost DEF Justified, RequiredVerdict, Missing

\* A package of the next state is one of this state, or the one just registered.
LEMMA PackagesComeFromRegistration ==
  ASSUME TypeOK, [Next]_vars, NEW k \in Key, NEW i \in DOMAIN packages'[k]
  PROVE  \/ i \in DOMAIN packages[k] /\ packages'[k][i] = packages[k][i]
         \/ \E d \in 0..Len(decisions), r \in 0..Len(routes), at \in GovernanceTime :
              /\ RegisterPackage(k, d, r, at)
              /\ packages'[k][i] = [decision |-> d, route |-> r, at |-> at]
<1>1. CASE packages' = packages
  BY <1>1
<1>2. ASSUME NEW j \in Key, NEW d \in 0..Len(decisions), NEW r \in 0..Len(routes),
             NEW at \in GovernanceTime, RegisterPackage(j, d, r, at)
      PROVE  \/ i \in DOMAIN packages[k] /\ packages'[k][i] = packages[k][i]
             \/ /\ RegisterPackage(k, d, r, at)
                /\ packages'[k][i] = [decision |-> d, route |-> r, at |-> at]
  <2>1. packages \in [Key -> Seq(Package)]
    BY DEF TypeOK
  <2>2. packages' = [packages EXCEPT ![j] =
                       Append(@, [decision |-> d, route |-> r, at |-> at])]
    BY <1>2 DEF RegisterPackage
  <2>3. CASE k # j
    <3>1. packages'[k] = packages[k]
      BY <2>1, <2>2, <2>3
    <3> QED
      BY <3>1
  <2>4. CASE k = j
    <3>1. packages'[k] = Append(packages[k], [decision |-> d, route |-> r, at |-> at])
      BY <2>1, <2>2, <2>4
    <3>2. \/ i \in DOMAIN packages[k] /\ packages'[k][i] = packages[k][i]
          \/ packages'[k][i] = [decision |-> d, route |-> r, at |-> at]
      BY <2>1, <3>1
    <3> QED
      BY <1>2, <2>4, <3>2
  <2> QED
    BY <2>3, <2>4
<1>3. \/ packages' = packages
      \/ \E j \in Key, d \in 0..Len(decisions), r \in 0..Len(routes),
            at \in GovernanceTime : RegisterPackage(j, d, r, at)
  BY HistoriesChangeByAppending DEF RegisterApplicability, RegisterRoute
<1> QED
  BY <1>1, <1>2, <1>3, Zenon

LEMMA RegisteredIsJustified ==
  ASSUME ReportingInv, NEW k, NEW d, NEW r, NEW at, RegisterPackage(k, d, r, at)
  PROVE  Justified(k, [decision |-> d, route |-> r, at |-> at])
<1>1. Governed(k, d, r, at)
  BY RegisteredIsGoverned DEF RegisterPackage
<1>2. d \in DOMAIN decisions
  BY <1>1 DEF Governed, DecisionCurrent, ReportingInv, TypeOK
<1>3. r \in DOMAIN routes
  <2>1. routes \in Seq(GovernanceTime)
    BY DEF ReportingInv, TypeOK
  <2> QED
    BY <1>1, <2>1 DEF Governed, RouteCurrent
<1>4. decisions[d].at \in Nat /\ routes[r] \in Nat
  <2>1. decisions[d] \in Decision /\ routes[r] \in GovernanceTime
    BY <1>2, <1>3 DEF ReportingInv, TypeOK
  <2> QED
    BY <2>1, TimesAreNumbers DEF Decision
<1>5. decisions[d].at <= at /\ routes[r] <= at
  BY <1>1, <1>4 DEF Governed
<1> QED
  BY <1>1, <1>2, <1>3, <1>5, DecidedIsOnRecord DEF Justified, Governed

LEMMA PackagesStillJustified ==
  ASSUME ReportingInv, [Next]_vars
  PROVE  PackagesAreJustified'
<1>1. TypeOK /\ PackagesAreJustified
  BY DEF ReportingInv
<1>2. ASSUME NEW k \in Key, NEW i \in DOMAIN packages'[k],
             NEW p, p = packages'[k][i]
      PROVE  Justified(k, p)'
  <2>1. CASE i \in DOMAIN packages[k] /\ p = packages[k][i]
    <3>1. Justified(k, p)
      BY <1>1, <2>1 DEF PackagesAreJustified, Justified
    <3> QED
      BY <1>1, <3>1, JustifiedStays
  <2>2. ASSUME NEW d, NEW r, NEW at, RegisterPackage(k, d, r, at),
               p = [decision |-> d, route |-> r, at |-> at]
        PROVE  Justified(k, p)'
    BY <1>1, <2>2, RegisteredIsJustified, JustifiedStays
  <2> QED
    BY <1>1, <1>2, <2>1, <2>2, PackagesComeFromRegistration
<1> QED
  BY <1>2 DEF PackagesAreJustified, Justified

LEMMA ReportsStillFollow ==
  ASSUME ReportingInv, [Next]_vars
  PROVE  ReportsFollowSubmissions'
<1> DEFINE Follows(k) == \E r \in receipts : r.key[1] = PriorType(k)
           Later(k) == k[1] \in {"FINAL", "RECLASSIFICATION"}
<1>1. TypeOK /\ receipts \subseteq receipts'
  BY NothingIsLost DEF ReportingInv
<1>2. \A k \in Key : Later(k) /\ packages[k] # <<>> => Follows(k)
  BY DEF ReportingInv, ReportsFollowSubmissions, PriorType
<1>3. ASSUME NEW k \in Key, Later(k), packages'[k] # <<>>
      PROVE  Follows(k)
  <2>1. CASE packages[k] # <<>>
    BY <1>2, <1>3, <2>1
  <2>2. CASE packages[k] = <<>>
    <3>1. packages'[k] \in Seq(Package)
      BY <1>1, TypePreserved DEF ReportingInv, TypeOK
    <3>2. 1 \in DOMAIN packages'[k]
      BY <1>3, <3>1
    <3>3. 1 \notin DOMAIN packages[k]
      BY <2>2
    <3>4. PICK d \in 0..Len(decisions), r \in 0..Len(routes), at \in GovernanceTime :
            RegisterPackage(k, d, r, at)
      BY <1>1, <3>2, <3>3, PackagesComeFromRegistration, Zenon
    <3>5. NeedsPrior(k) => PriorReceipts(k) # {}
      BY <3>4, RegisteredIsGoverned DEF RegisterPackage
    <3>6. PriorReceipts(k) # {}
      BY <1>3, <3>5 DEF NeedsPrior
    <3> QED
      BY <3>6 DEF PriorReceipts, LatestReceipts
  <2> QED
    BY <2>1, <2>2
<1>4. \A k \in Key : Later(k) /\ packages'[k] # <<>> =>
        \E r \in receipts' : r.key[1] = PriorType(k)
  BY <1>1, <1>3
<1> QED
  BY <1>4 DEF ReportsFollowSubmissions, PriorType

LEMMA ReportingInvInitially ==
  ASSUME Init
  PROVE  ReportingInv
<1>1. IncidentsInv
  BY IncidentsInvInitially DEF Init
<1>2. TypeOK
  BY <1>1 DEF Init, TypeOK, IncidentsInv
<1>3. Bounded
  BY ReportingAssumption DEF Init, Bounded
<1> QED
  BY <1>1, <1>2, <1>3 DEF Init, ReportingInv, DecisionsStandOnReviews,
     HistoryAdvances, PackagesAreJustified, ReportsFollowSubmissions

LEMMA ReportingInvPreserved ==
  ASSUME ReportingInv, [Next]_vars
  PROVE  ReportingInv'
<1>1. IncidentsInv'
  BY IncidentsTakeTheirSteps, IncidentsInvPreserved DEF ReportingInv
<1>2. TypeOK' /\ Bounded'
  BY TypePreserved DEF ReportingInv
<1> QED
  BY <1>1, <1>2, DecisionsStandPreserved, HistoryStillAdvances,
     PackagesStillJustified, ReportsStillFollow DEF ReportingInv

\* The registers of the incident and of its reporting keep their types, for any
\* bounds on the histories.
THEOREM ReportingTypeCorrect == Spec => []TypeOK
<1>1. ReportingInv => TypeOK
  BY DEF ReportingInv
<1> QED
  BY <1>1, ReportingInvInitially, ReportingInvPreserved, PTL DEF Spec

\* Later decisions stand on evidence that extends what earlier ones saw, and the
\* revisions of a report move forward in time, decision and route.
THEOREM HistoryAlwaysAdvances == Spec => []HistoryAdvances
<1>1. ReportingInv => HistoryAdvances
  BY DEF ReportingInv
<1> QED
  BY <1>1, ReportingInvInitially, ReportingInvPreserved, PTL DEF Spec

\* Every package that register_package has stored rests on an applicable decision
\* about a review of the right verdict, taken on complete evidence.
THEOREM PackagesAreAlwaysJustified == Spec => []PackagesAreJustified
<1>1. ReportingInv => PackagesAreJustified
  BY DEF ReportingInv
<1> QED
  BY <1>1, ReportingInvInitially, ReportingInvPreserved, PTL DEF Spec

\* A final report or a reclassification notice is only ever registered after the
\* submission that it follows.
THEOREM ReportsAlwaysFollowSubmissions == Spec => []ReportsFollowSubmissions
<1>1. ReportingInv => ReportsFollowSubmissions
  BY DEF ReportingInv
<1> QED
  BY <1>1, ReportingInvInitially, ReportingInvPreserved, PTL DEF Spec

-----------------------------------------------------------------------------
(***************************************************************************)
(* ReportingWorkflow                                                       *)
(***************************************************************************)

\* The statements are about one state: WorkflowInv supplies the types, and that
\* there is a last intermediate report, without which the final one would have no
\* deadline.
ReceiptsAreBounded == \E n \in Nat : \A r \in receipts : r.key[2] <= n

WorkflowInv == ReportingInv /\ ReceiptsAreBounded

LEMMA KeyHasASequence ==
  ASSUME NEW k \in Key
  PROVE  k[2] \in Nat
BY ReportingAssumption

LEMMA ReceiptHasType ==
  ASSUME TypeOK, NEW r \in receipts
  PROVE  r.key \in Key /\ r.key[2] \in Nat /\ r.at \in Time /\ r.at \in Nat
<1>1. r \in Receipt
  BY DEF TypeOK
<1> QED
  BY <1>1, KeyHasASequence, TimesAreNumbers DEF Receipt

LEMMA BoundPreserved ==
  ASSUME TypeOK, ReceiptsAreBounded, [Next]_vars
  PROVE  ReceiptsAreBounded'
<1>1. CASE receipts' = receipts
  BY <1>1 DEF ReceiptsAreBounded
<1>2. ASSUME NEW k \in Key, NEW revision, NEW at, RegisterReceipt(k, revision, at)
      PROVE  ReceiptsAreBounded'
  <2>1. PICK n \in Nat : \A r \in receipts : r.key[2] <= n
    BY DEF ReceiptsAreBounded
  <2>2. k[2] \in Nat /\ n + k[2] \in Nat
    BY KeyHasASequence
  <2>3. \A r \in receipts' : r \in receipts \/ r.key = k
    BY <1>2 DEF RegisterReceipt
  <2>4. \A r \in receipts' : r.key[2] <= n + k[2]
    <3>1. \A r \in receipts : r.key[2] <= n + k[2]
      BY <2>1, <2>2, ReceiptHasType
    <3> QED
      BY <2>2, <2>3, <3>1
  <2> QED
    BY <2>2, <2>4 DEF ReceiptsAreBounded
<1>3. receipts' = receipts
      \/ \E k \in Key, revision \in 1..MaxRevisions, at \in Time :
           RegisterReceipt(k, revision, at)
  BY DEF Next, vars, reportingVars, RegisterApplicability, RegisterRoute,
     RegisterPackage, RefusePackage, RegisterAcknowledgement, RegisterAdjustment,
     RegisterDelay
<1> QED
  BY <1>1, <1>2, <1>3

-----------------------------------------------------------------------------
(* Obligations. *)

LEMMA LastIntermediateIsOne ==
  ASSUME TypeOK, ReceiptsAreBounded, LatestReceipts("INTERMEDIATE") # {}
  PROVE  LastIntermediate \in LatestReceipts("INTERMEDIATE")
<1> DEFINE Latest == LatestReceipts("INTERMEDIATE")
<1>1. PICK n \in Nat : \A r \in receipts : r.key[2] <= n
  BY DEF ReceiptsAreBounded
<1>2. \A r \in Latest : r \in receipts /\ r.key[2] \in Nat /\ n - r.key[2] \in Nat
  BY <1>1, ReceiptHasType DEF LatestReceipts
<1> HIDE DEF Latest
<1> DEFINE Gaps == {n - r.key[2] : r \in Latest}
<1>3. Gaps \in SUBSET Nat /\ Gaps # {}
  BY <1>2 DEF Latest
<1>4. PICK g \in Gaps : \A h \in Gaps : g <= h
  BY <1>3, LeastNumber
<1>5. PICK r \in Latest : g = n - r.key[2]
  OBVIOUS
<1>6. \A q \in Latest : q.key[2] <= r.key[2]
  <2>1. \A q \in Latest : n - r.key[2] <= n - q.key[2]
    BY <1>4, <1>5
  <2> QED
    BY <1>2, <2>1
<1>7. LastIntermediate = CHOOSE m \in Latest : \A q \in Latest : q.key[2] <= m.key[2]
  BY DEF LastIntermediate, Latest
<1> QED
  BY <1>5, <1>6, <1>7 DEF Latest

LEMMA MonthIsANumber ==
  ASSUME NEW t \in Time
  PROVE  CalendarMonth[t] = OneMonthAfter(t) /\ CalendarMonth[t] \in Nat
<1>1. t \in Nat /\ InCalendar(t)
  BY ReportingAssumption
<1> QED
  BY <1>1, MonthIsStatutory, MonthAdded DEF CalendarMonth

LEMMA SubmittedAt ==
  ASSUME TypeOK, NEW k, NEW at \in SubmissionTimes(k)
  PROVE  /\ at \in Nat
         /\ \E r \in LatestReceipts(k[1]) : r \in receipts /\ r.key = k /\ r.at = at
BY ReceiptHasType DEF SubmissionTimes, LatestReceipts

\* Every obligation is about one of the three reports and has a number for its
\* deadline.
LEMMA ObligationHasType ==
  ASSUME TypeOK, NEW d \in 1..Len(decisions), NEW o \in Obligations(d)
  PROVE  o.key \in {Initial, Intermediate, Final} /\ o.due \in Nat
<1>1. InitialDue(d) \in Nat
  <2>1. decisions[d] \in Decision
    BY DEF TypeOK
  <2>2. decisions[d].review.at \in Nat
    BY <2>1, IncidentsAssumption DEF Decision, Review
  <2>3. /\ Detected \in Nat /\ AwarenessSpan \in Nat /\ ClassificationSpan \in Nat
    BY ReportingAssumption
  <2> QED
    BY <2>2, <2>3 DEF InitialDue
<1>2. \A at \in SubmissionTimes(Initial) : at + IntermediateSpan \in Nat
  BY SubmittedAt, ReportingAssumption
<1>3. \A r \in LatestReceipts("INTERMEDIATE") : CalendarMonth[r.at] \in Nat
  BY ReceiptHasType, MonthIsANumber DEF LatestReceipts
<1> QED
  BY <1>1, <1>2, <1>3 DEF Obligations

LEMMA EffectiveDueIsANumber ==
  ASSUME TypeOK, NEW d \in 1..Len(decisions), NEW o \in Obligations(d)
  PROVE  EffectiveDue(o) \in Nat
<1>1. o.key \in Key /\ o.due \in Nat
  BY ObligationHasType, ReportingAssumption
<1>2. adjustments[o.key] \in Adjustment \cup {None}
  BY <1>1 DEF TypeOK
<1> QED
  BY <1>1, <1>2 DEF EffectiveDue, Adjusted, Adjustment

-----------------------------------------------------------------------------
(* Time. *)

LEMMA LateStaysLate ==
  ASSUME TypeOK, NEW d \in 1..Len(decisions), NEW o \in Obligations(d),
         NEW t \in Time, NEW u \in Time, t < u, Late(o, t)
  PROVE  Late(o, u)
<1>1. t \in Nat /\ u \in Nat /\ EffectiveDue(o) \in Nat
  BY TimesAreNumbers, EffectiveDueIsANumber
<1> QED
  BY <1>1 DEF Late

\* What time does to the state of a major incident.
Worsens(before, after) ==
  /\ before = "PENDING" => after \in {"PENDING", "BREACHED", "GovernanceError"}
  /\ before = "BREACHED" => after \in {"BREACHED", "GovernanceError"}
  /\ before \notin {"PENDING", "BREACHED"} => after = before

LEMMA MajorStateWorsens ==
  ASSUME TypeOK, NEW d \in 1..Len(decisions),
         NEW t \in Time, NEW u \in Time, t < u
  PROVE  Worsens(MajorState(d, t), MajorState(d, u))
<1> DEFINE due == Obligations(d)
           Error(x) == \E o \in due : StaleAdjustment(o) \/ StaleDelay(o, x)
           Breach(x) == RefusedByAuthority \/ \E o \in due : Late(o, x)
           Open == RecoveryPending \/ \E o \in due : ~Submitted(o)
           Done == LatestReceipts("FINAL") # {}
           State(x) == IF Error(x) THEN "GovernanceError"
                       ELSE IF Breach(x) THEN "BREACHED"
                       ELSE IF Open THEN "PENDING"
                       ELSE IF Done THEN "COMPLETE" ELSE "INCOMPLETE"
<1>1. MajorState(d, t) = State(t) /\ MajorState(d, u) = State(u)
  BY DEF MajorState
<1>2. ASSUME NEW o \in due, Late(o, t) PROVE Late(o, u)
  BY <1>2, LateStaysLate
<1>3. Error(t) => Error(u)
  BY <1>2 DEF StaleDelay
<1>4. Breach(t) => Breach(u)
  BY <1>2
<1>5. ~Open => \A o \in due : Late(o, u) <=> Late(o, t)
  BY DEF Late
<1>6. ~Open => (Error(u) <=> Error(t)) /\ (Breach(u) <=> Breach(t))
  BY <1>5 DEF StaleDelay
<1> HIDE DEF Error, Breach, Open, Done
<1> QED
  BY <1>1, <1>3, <1>4, <1>6 DEF Worsens

LEMMA TimeOnlyWorsensHere ==
  ASSUME TypeOK
  PROVE  TimeOnlyWorsens
<1> SUFFICES ASSUME NEW dr \in Assessed, NEW t \in Time, NEW u \in Time, t < u
             PROVE  Worsens(Assess(dr[1], dr[2], t), Assess(dr[1], dr[2], u))
  BY DEF TimeOnlyWorsens, Worsens
<1>1. dr[1] \in 1..Len(decisions)
  BY DEF Assessed
<1>2. Worsens(MajorState(dr[1], t), MajorState(dr[1], u))
  BY <1>1, MajorStateWorsens
<1>3. \A state : state # "BREACHED" /\ state # "PENDING" => Worsens(state, state)
  BY DEF Worsens
<1>4. Worsens("PENDING", "PENDING")
  BY DEF Worsens
<1>5. CASE Assess(dr[1], dr[2], t) = Assess(dr[1], dr[2], u)
           /\ Assess(dr[1], dr[2], t) # "BREACHED"
  BY <1>3, <1>4, <1>5
<1>6. CASE /\ Assess(dr[1], dr[2], t) = MajorState(dr[1], t)
           /\ Assess(dr[1], dr[2], u) = MajorState(dr[1], u)
  BY <1>2, <1>6
<1> QED
  BY <1>5, <1>6 DEF Assess, NonMajorState

-----------------------------------------------------------------------------
(* Completion. *)

\* What a major incident must have for a state that is not open, late or refused.
LEMMA NothingOpen ==
  ASSUME TypeOK, ReceiptsAreBounded, NEW d \in 1..Len(decisions), NEW t \in Time,
         MajorState(d, t) \in {"COMPLETE", "INCOMPLETE"}
  PROVE  /\ \A o \in Obligations(d) :
              ~StaleAdjustment(o) /\ ~Late(o, t) /\ Submitted(o)
         /\ ~RefusedByAuthority /\ ~RecoveryPending
         /\ LatestReceipts("INTERMEDIATE") # {}
         /\ [key |-> Final, due |-> CalendarMonth[LastIntermediate.at]] \in Obligations(d)
<1>1. \A o \in Obligations(d) : ~StaleAdjustment(o) /\ ~Late(o, t) /\ Submitted(o)
  BY DEF MajorState
<1>2. ~RefusedByAuthority /\ ~RecoveryPending
  BY DEF MajorState
<1>3. PICK at : at \in SubmissionTimes(Initial)
  <2>1. [key |-> Initial, due |-> InitialDue(d)] \in Obligations(d)
    BY DEF Obligations
  <2> QED
    BY <1>1, <2>1 DEF Submitted
<1>4. InitialSubmitted
  BY <1>3, SubmittedAt DEF InitialSubmitted, Initial
<1>5. LatestReceipts("INTERMEDIATE") # {}
  <2>1. [key |-> Intermediate, due |-> at + IntermediateSpan] \in Obligations(d)
    BY <1>3 DEF Obligations
  <2>2. SubmissionTimes(Intermediate) # {}
    BY <1>1, <2>1 DEF Submitted
  <2> QED
    BY <2>2, SubmittedAt DEF Intermediate
<1>6. LastIntermediate \in LatestReceipts("INTERMEDIATE")
  BY <1>5, LastIntermediateIsOne
<1>7. [key |-> Final, due |-> CalendarMonth[LastIntermediate.at]] \in Obligations(d)
  BY <1>2, <1>4, <1>6 DEF Obligations
<1> QED
  BY <1>1, <1>2, <1>5, <1>7

LEMMA MajorIsNeverIncompleteHere ==
  ASSUME TypeOK, ReceiptsAreBounded
  PROVE  MajorIsNeverIncomplete
<1> SUFFICES ASSUME NEW dr \in Assessed, NEW t \in Time,
                    Assess(dr[1], dr[2], t) = "INCOMPLETE",
                    decisions[dr[1]].review.verdict \in {"MAJOR", "NON_MAJOR"}
             PROVE  FALSE
  BY DEF MajorIsNeverIncomplete
<1>1. dr[1] \in 1..Len(decisions)
  BY DEF Assessed
<1>2. MajorState(dr[1], t) = "INCOMPLETE"
  BY DEF Assess, NonMajorState
<1>3. SubmissionTimes(Final) # {}
  BY <1>1, <1>2, NothingOpen DEF Submitted
<1>4. LatestReceipts("FINAL") # {}
  BY <1>3, SubmittedAt DEF Final
<1>5. LatestReceipts("FINAL") = {}
  BY <1>2 DEF MajorState
<1> QED
  BY <1>4, <1>5

\* An obligation that is not late was met by the receipt of the latest revision.
LEMMA MetInTime ==
  ASSUME TypeOK, NEW d \in 1..Len(decisions), NEW o \in Obligations(d), NEW t \in Time,
         ~StaleAdjustment(o), ~Late(o, t), Submitted(o)
  PROVE  \E r \in LatestReceipts(o.key[1]) :
           /\ r \in receipts /\ r.key = o.key /\ r.revision = Len(packages[o.key])
           /\ r.at \in Nat /\ r.at <= EffectiveDue(o)
           /\ ReportedInTime(o.key, o.due)
<1>1. PICK at \in SubmissionTimes(o.key) : ~(at > EffectiveDue(o))
  BY DEF Late, Submitted
<1>2. PICK r \in LatestReceipts(o.key[1]) : r \in receipts /\ r.key = o.key /\ r.at = at
  BY SubmittedAt
<1>3. at \in Nat /\ at <= EffectiveDue(o)
  BY <1>1, SubmittedAt, EffectiveDueIsANumber
<1>4. r.revision = Len(packages[o.key])
  BY <1>2 DEF LatestReceipts
<1>5. ReportedInTime(o.key, o.due)
  <2>1. CASE adjustments[o.key] = None
    BY <1>2, <1>3, <1>4, <2>1 DEF ReportedInTime, EffectiveDue, Adjusted
  <2>2. CASE adjustments[o.key] # None
    BY <1>2, <1>3, <1>4, <2>2
       DEF ReportedInTime, EffectiveDue, Adjusted, StaleAdjustment
  <2> QED
    BY <2>1, <2>2
<1> QED
  BY <1>2, <1>3, <1>4, <1>5

\* The part of CompleteIsEarned about a major incident.
MajorIsEarned(d) ==
  \E i, m \in receipts :
    /\ i.key = Initial /\ i.revision = Len(packages[Initial])
    /\ m.key[1] = "INTERMEDIATE" /\ m.revision = Len(packages[m.key])
    /\ \/ ReportedInTime(Initial, d.review.at + ClassificationSpan)
       \/ ReportedInTime(Initial, Detected + AwarenessSpan)
    /\ d.review.at <= Detected + AwarenessSpan /\ adjustments[Initial] = None
         => i.at <= Detected + AwarenessSpan
    /\ ReportedInTime(Intermediate, i.at + IntermediateSpan)
    /\ ReportedInTime(Final, OneMonthAfter(m.at))
    /\ \A e \in DOMAIN events :
         events[e].kind = "RECOVERED" => events[e].at <= m.at
    /\ \A a \in acks : a.status \notin RefusedAck

LEMMA CompleteMajorIsEarned ==
  ASSUME TypeOK, ReceiptsAreBounded, NEW d \in 1..Len(decisions), NEW t \in Time,
         MajorState(d, t) = "COMPLETE"
  PROVE  MajorIsEarned(decisions[d])
<1> DEFINE reviewed == decisions[d].review.at
           cap == Detected + AwarenessSpan
           initial == [key |-> Initial, due |-> InitialDue(d)]
           m == LastIntermediate
<1>1. /\ \A o \in Obligations(d) : ~StaleAdjustment(o) /\ ~Late(o, t) /\ Submitted(o)
      /\ ~RefusedByAuthority /\ ~RecoveryPending
      /\ LatestReceipts("INTERMEDIATE") # {}
      /\ [key |-> Final, due |-> CalendarMonth[m.at]] \in Obligations(d)
  BY NothingOpen
<1>2. initial \in Obligations(d)
  BY DEF Obligations
<1>3. PICK i \in LatestReceipts("INITIAL") :
        /\ i \in receipts /\ i.key = Initial /\ i.revision = Len(packages[Initial])
        /\ i.at \in Nat /\ i.at <= EffectiveDue(initial)
        /\ ReportedInTime(Initial, InitialDue(d))
  BY <1>1, <1>2, MetInTime DEF Initial
<1>4. ReportedInTime(Intermediate, i.at + IntermediateSpan)
  <2> DEFINE o == [key |-> Intermediate, due |-> i.at + IntermediateSpan]
  <2>1. i.at \in SubmissionTimes(Initial)
    BY <1>3 DEF SubmissionTimes, Initial
  <2>2. o \in Obligations(d)
    BY <2>1 DEF Obligations
  <2>3. ReportedInTime(o.key, o.due)
    BY <1>1, <2>2, MetInTime
  <2> QED
    BY <2>3
<1>5. /\ m \in LatestReceipts("INTERMEDIATE") /\ m \in receipts
      /\ m.key[1] = "INTERMEDIATE" /\ m.revision = Len(packages[m.key])
      /\ m.at \in Time /\ m.at \in Nat
  BY <1>1, LastIntermediateIsOne, ReceiptHasType DEF LatestReceipts
<1>6. ReportedInTime(Final, OneMonthAfter(m.at))
  <2> DEFINE o == [key |-> Final, due |-> CalendarMonth[m.at]]
  <2>1. ReportedInTime(o.key, o.due)
    BY <1>1, MetInTime
  <2> QED
    BY <1>5, <2>1, MonthIsANumber
<1>7. reviewed \in Nat /\ cap \in Nat /\ reviewed + ClassificationSpan \in Nat
  <2>1. decisions[d] \in Decision
    BY DEF TypeOK
  <2>2. /\ Detected \in Nat /\ AwarenessSpan \in Nat /\ ClassificationSpan \in Nat
    BY ReportingAssumption
  <2>3. reviewed \in Nat
    BY <2>1, IncidentsAssumption DEF Decision, Review
  <2> QED
    BY <2>2, <2>3
<1>8. InitialDue(d) \in {reviewed + ClassificationSpan, cap}
      /\ (reviewed <= cap => InitialDue(d) <= cap)
  BY <1>7 DEF InitialDue
<1>9. reviewed <= cap /\ adjustments[Initial] = None => i.at <= cap
  <2>1. adjustments[Initial] = None => EffectiveDue(initial) = InitialDue(d)
    BY DEF EffectiveDue, Adjusted
  <2>2. InitialDue(d) \in Nat
    BY <1>7, <1>8
  <2> HIDE DEF initial
  <2> QED
    BY <1>3, <1>7, <1>8, <2>1, <2>2
<1>10. \A e \in DOMAIN events : events[e].kind = "RECOVERED" => events[e].at <= m.at
  <2>1. IntermediateSubmitted
    BY <1>1, <1>3 DEF IntermediateSubmitted, InitialSubmitted
  <2>2. \A e \in DOMAIN events : events[e].at \in Nat
    <3>1. \A e \in DOMAIN events : events[e] \in Event
      BY DEF TypeOK, IncidentsTypeOK
    <3> QED
      BY <3>1, IncidentsAssumption DEF Event
  <2> QED
    BY <1>1, <1>5, <2>1, <2>2 DEF RecoveryPending
<1>11. \A a \in acks : a.status \notin RefusedAck
  BY <1>1 DEF RefusedByAuthority
<1> QED
  BY <1>3, <1>4, <1>5, <1>6, <1>8, <1>9, <1>10, <1>11 DEF MajorIsEarned

LEMMA CompleteIsEarnedHere ==
  ASSUME TypeOK, ReceiptsAreBounded
  PROVE  CompleteIsEarned
<1> SUFFICES ASSUME NEW dr \in Assessed, NEW t \in Time,
                    Assess(dr[1], dr[2], t) = "COMPLETE"
             PROVE  LET d == decisions[dr[1]]
                    IN  /\ d.applicability = "APPLICABLE" /\ RouteCurrent(dr[2])
                        /\ d.review.verdict = "MAJOR" => MajorIsEarned(d)
                        /\ d.review.verdict = "NON_MAJOR" =>
                             \E r \in receipts : r.key[1] = "RECLASSIFICATION"
  BY DEF CompleteIsEarned, MajorIsEarned
<1>1. dr[1] \in 1..Len(decisions)
  BY DEF Assessed
<1>2. decisions[dr[1]].applicability \in {"APPLICABLE", "NOT_APPLICABLE"}
  <2>1. decisions[dr[1]] \in Decision
    BY <1>1 DEF TypeOK
  <2> QED
    BY <2>1 DEF Decision, Applicability
<1>3. decisions[dr[1]].applicability = "APPLICABLE" /\ RouteCurrent(dr[2])
  BY <1>2 DEF Assess
<1>4. decisions[dr[1]].review.verdict = "MAJOR" => MajorIsEarned(decisions[dr[1]])
  <2>1. decisions[dr[1]].review.verdict = "MAJOR" => MajorState(dr[1], t) = "COMPLETE"
    BY <1>3 DEF Assess
  <2> QED
    BY <1>1, <2>1, CompleteMajorIsEarned
<1>5. decisions[dr[1]].review.verdict = "NON_MAJOR" =>
        \E r \in receipts : r.key[1] = "RECLASSIFICATION"
  <2>1. decisions[dr[1]].review.verdict = "NON_MAJOR" => NonMajorState = "COMPLETE"
    BY <1>3 DEF Assess
  <2> QED
    BY <2>1 DEF NonMajorState, LatestReceipts
<1> QED
  BY <1>3, <1>4, <1>5

-----------------------------------------------------------------------------

LEMMA WorkflowInvInitially ==
  ASSUME Init
  PROVE  WorkflowInv
<1>1. ReceiptsAreBounded
  BY DEF Init, ReceiptsAreBounded
<1> QED
  BY <1>1, ReportingInvInitially DEF WorkflowInv

LEMMA WorkflowInvPreserved ==
  ASSUME WorkflowInv, [Next]_vars
  PROVE  WorkflowInv'
BY ReportingInvPreserved, BoundPreserved DEF WorkflowInv, ReportingInv

LEMMA WorkflowInvImplies ==
  ASSUME WorkflowInv
  PROVE  TimeOnlyWorsens /\ MajorIsNeverIncomplete /\ CompleteIsEarned
BY TimeOnlyWorsensHere, MajorIsNeverIncompleteHere, CompleteIsEarnedHere
   DEF WorkflowInv, ReportingInv

\* Once the evidence stands still, time alone never repairs a breach of a deadline
\* and never undoes completion.
THEOREM TimeAlwaysOnlyWorsens == Spec => []TimeOnlyWorsens
<1> QED
  BY WorkflowInvInitially, WorkflowInvPreserved, WorkflowInvImplies, PTL DEF Spec

\* For a major incident, or one that is not, assess_reporting_workflow never
\* answers "incomplete": the final deadline exists as soon as nothing else is open.
THEOREM MajorIsAlwaysDecided == Spec => []MajorIsNeverIncomplete
<1> QED
  BY WorkflowInvInitially, WorkflowInvPreserved, WorkflowInvImplies, PTL DEF Spec

\* "complete" is earned, for any evidence, any deadlines and any calendar: the three
\* reports in time, each for the deadline that follows from the one before it.
THEOREM CompleteIsAlwaysEarned == Spec => []CompleteIsEarned
<1> QED
  BY WorkflowInvInitially, WorkflowInvPreserved, WorkflowInvImplies, PTL DEF Spec

\* A rejected acknowledgement is never lifted, whatever corrected revision is accepted
\* (assess_reporting_workflow counts those of superseded revisions too), and while
\* there is one a major incident is never pending, incomplete or complete, for
\* whatever decision, route and time it is assessed.
RejectionBreaches ==
  RefusedByAuthority =>
    \A d \in DOMAIN decisions, r \in 0..Len(routes), t \in Time :
      decisions[d].review.verdict = "MAJOR" =>
        Assess(d, r, t) \notin {"PENDING", "INCOMPLETE", "COMPLETE"}

THEOREM RejectionIsForever ==
  Spec => [][RefusedByAuthority => RefusedByAuthority']_vars /\ []RejectionBreaches
<1>1. [Next]_vars => acks \subseteq acks'
  BY DEF Next, vars, reportingVars, RegisterApplicability, RegisterRoute,
     RegisterPackage, RefusePackage, RegisterReceipt, RegisterAcknowledgement,
     RegisterAdjustment, RegisterDelay
<1>2. [Next]_vars => [RefusedByAuthority => RefusedByAuthority']_vars
  BY <1>1 DEF RefusedByAuthority
<1>3. RejectionBreaches
  <2> SUFFICES ASSUME RefusedByAuthority, NEW d \in DOMAIN decisions,
                      NEW r \in 0..Len(routes), NEW t \in Time,
                      decisions[d].review.verdict = "MAJOR"
               PROVE  Assess(d, r, t) \notin {"PENDING", "INCOMPLETE", "COMPLETE"}
    BY DEF RejectionBreaches
  <2>1. MajorState(d, t) \in {"GovernanceError", "BREACHED"}
    BY DEF MajorState
  <2> QED
    BY <2>1 DEF Assess
<1> QED
  BY <1>1, <1>2, <1>3, PTL DEF Spec

-----------------------------------------------------------------------------
(***************************************************************************)
(* ReportingDossier                                                        *)
(***************************************************************************)

\* Every step of the dossier is a step of the registries or leaves them alone, so that
\* the invariants above carry over.  What a call embeds is related to what they hold at
\* that moment; a property of the dossier alone holds from then on, until a call again.

\* A receipt is about a registered revision and not older than it, and there is one
\* for a revision; an acknowledgement is about a receipt; an adjustment extends.
SubmissionsStand ==
  /\ \A r \in receipts :
       /\ r.revision \in DOMAIN packages[r.key]
       /\ r.at >= packages[r.key][r.revision].at
       /\ \A q \in receipts : q.key = r.key /\ q.revision = r.revision => q = r
  /\ \A a \in acks : \E r \in receipts : r.key = a.key /\ r.revision = a.revision
  /\ \A k \in Key :
       adjustments[k] # None => adjustments[k].adjusted > adjustments[k].original

\* register_package reads the empty list of the key it has just added, whenever the
\* report is the first of an update: no update is ever registered.
NoUpdates == \A k \in Key : k[2] > 1 => packages[k] = <<>>

HeldStands ==
  held # None => held.at \in Time /\ held.state \notin {"GovernanceError", "IndexError"}

HasDossierShape(doc) ==
  doc = [incident |-> [snapshot |-> doc.incident.snapshot, review |-> doc.incident.review,
                       pinned |-> doc.incident.pinned, state |-> doc.incident.state],
         reporting |-> doc.reporting, overtaken |-> doc.overtaken]

\* What the builder embeds of the incident is on its way from the review to now.
IncidentEmbedded ==
  dossier # None =>
    /\ HasDossierShape(dossier)
    /\ incident # None
    /\ dossier.incident.snapshot \in SnapshotType
    /\ dossier.incident.review \in Review
    /\ Extends(Snapshot, dossier.incident.snapshot)
    /\ Extends(dossier.incident.snapshot, dossier.incident.review.snapshot)

\* The histories in the dossier are the ones in the registries, and an assessment
\* not marked for revalidation is the one they give.  A call of add_incident_reporting
\* that does not raise leaves it so.
ReportingEmbedded ==
  dossier # None /\ dossier.reporting # None =>
    LET a == dossier.reporting.assessment
        state == dossier.reporting.state
    IN  /\ dossier.reporting = Reporting(a, state)
        /\ a # None =>
             /\ a.review = dossier.incident.review
             /\ a.at \in Time
             /\ a.state \notin {"GovernanceError", "IndexError"}
             /\ state # "revalidation_required" =>
                  /\ a = AssessmentOf(a.decision, a.route, a.at)
                  /\ a.state # "REVALIDATION_REQUIRED"

DossierInv ==
  /\ WorkflowInv
  /\ SubmissionsStand
  /\ NoUpdates
  /\ HeldStands
  /\ IncidentEmbedded

\* A package that is stored or refused leaves the earlier revisions as they are.
LEMMA RevisionsKept ==
  ASSUME TypeOK, [Next]_vars, NEW k \in Key, NEW i \in DOMAIN packages[k]
  PROVE  i \in DOMAIN packages'[k] /\ packages'[k][i] = packages[k][i]
<1>0. packages \in [Key -> Seq(Package)]
  BY DEF TypeOK
<1>1. CASE packages' = packages
  BY <1>1
<1>2. ASSUME NEW j \in Key, NEW new, packages' = [packages EXCEPT ![j] = Append(@, new)]
      PROVE  i \in DOMAIN packages'[k] /\ packages'[k][i] = packages[k][i]
  <2>1. packages'[k] = packages[k] \/ packages'[k] = Append(packages[k], new)
    BY <1>0, <1>2
  <2> QED
    BY <1>0, <2>1
<1>3. \/ packages' = packages
      \/ \E j \in Key : \E new : packages' = [packages EXCEPT ![j] = Append(@, new)]
  BY HistoriesChangeByAppending DEF RegisterApplicability, RegisterRoute, RegisterPackage
<1> QED
  BY <1>1, <1>2, <1>3

\* What SubmissionsStand says of one receipt, one acknowledgement, one report.
ReceiptStands(r) ==
  /\ r.revision \in DOMAIN packages[r.key]
  /\ r.at >= packages[r.key][r.revision].at

OneForEach(set) ==
  \A r, q \in set : q.key = r.key /\ q.revision = r.revision => q = r

AckStands(a) == \E r \in receipts : r.key = a.key /\ r.revision = a.revision

AdjustmentStands(k) ==
  adjustments[k] # None => adjustments[k].adjusted > adjustments[k].original

LEMMA SubmissionsStandByParts ==
  SubmissionsStand <=>
    /\ \A r \in receipts : ReceiptStands(r)
    /\ OneForEach(receipts)
    /\ \A a \in acks : AckStands(a)
    /\ \A k \in Key : AdjustmentStands(k)
BY DEF SubmissionsStand, ReceiptStands, OneForEach, AckStands, AdjustmentStands

LEMMA SubmissionsStandPreserved ==
  ASSUME TypeOK, SubmissionsStand, [Next]_vars
  PROVE  SubmissionsStand'
<1>0. /\ \A r \in receipts : ReceiptStands(r)
      /\ OneForEach(receipts)
      /\ \A a \in acks : AckStands(a)
      /\ \A k \in Key : AdjustmentStands(k)
  BY SubmissionsStandByParts
<1>1. ASSUME NEW r \in receipts
      PROVE  ReceiptStands(r)'
  <2>1. r.key \in Key /\ r.revision \in DOMAIN packages[r.key]
        /\ r.at >= packages[r.key][r.revision].at
    BY <1>0, ReceiptHasType DEF ReceiptStands
  <2>2. /\ r.revision \in DOMAIN packages'[r.key]
        /\ packages'[r.key][r.revision] = packages[r.key][r.revision]
    BY <2>1, RevisionsKept
  <2> QED
    BY <2>1, <2>2 DEF ReceiptStands
<1>2. receipts \subseteq receipts'
  BY NothingIsLost
<1>3. \A a \in acks : AckStands(a)'
  BY <1>0, <1>2 DEF AckStands
<1>4. \A r \in receipts' \ receipts :
        ReceiptStands(r)' /\ receipts' = receipts \cup {r}
        /\ \A q \in receipts : q.key # r.key \/ q.revision # r.revision
  <2>1. ASSUME NEW k \in Key, NEW revision, NEW at, RegisterReceipt(k, revision, at)
        PROVE  \A r \in receipts' \ receipts :
                 ReceiptStands(r)' /\ receipts' = receipts \cup {r}
                 /\ \A q \in receipts : q.key # r.key \/ q.revision # r.revision
    BY <2>1 DEF RegisterReceipt, ReceiptStands
  <2>2. receipts' = receipts
        \/ \E k \in Key, revision \in 1..MaxRevisions, at \in Time :
             RegisterReceipt(k, revision, at)
    BY DEF Next, vars, reportingVars, RegisterApplicability, RegisterRoute,
       RegisterPackage, RefusePackage, RegisterAcknowledgement, RegisterAdjustment,
       RegisterDelay
  <2> QED
    BY <2>1, <2>2
<1>5. OneForEach(receipts')
  BY <1>0, <1>4 DEF OneForEach
<1>6. \A a \in acks' \ acks : AckStands(a)'
  <2>1. ASSUME NEW receipt \in receipts, NEW status,
               RegisterAcknowledgement(receipt, status)
        PROVE  \A a \in acks' \ acks : AckStands(a)'
    BY <2>1, <1>2 DEF RegisterAcknowledgement, AckStands
  <2>2. acks' = acks
        \/ \E receipt \in receipts, status \in AckStatus :
             RegisterAcknowledgement(receipt, status)
    BY DEF Next, vars, reportingVars, RegisterApplicability, RegisterRoute,
       RegisterPackage, RefusePackage, RegisterReceipt, RegisterAdjustment,
       RegisterDelay
  <2> QED
    BY <2>1, <2>2
<1>7. \A k \in Key : AdjustmentStands(k)'
  <2>1. ASSUME NEW j \in AdjustableKey, NEW original, NEW adjusted,
               RegisterAdjustment(j, original, adjusted)
        PROVE  \A k \in Key : AdjustmentStands(k)'
    <3>1. adjustments \in [Key -> Adjustment \cup {None}]
      BY DEF TypeOK
    <3>2. \A k \in Key : adjustments'[k] = adjustments[k]
            \/ adjustments'[k] = [original |-> original, adjusted |-> adjusted]
      BY <2>1, <3>1 DEF RegisterAdjustment
    <3>3. adjusted > original
      BY <2>1 DEF RegisterAdjustment
    <3> QED
      BY <1>0, <3>2, <3>3 DEF AdjustmentStands
  <2>2. adjustments' = adjustments
        \/ \E k \in AdjustableKey, original, adjusted \in Time :
             RegisterAdjustment(k, original, adjusted)
    BY DEF Next, vars, reportingVars, RegisterApplicability, RegisterRoute,
       RegisterPackage, RefusePackage, RegisterReceipt, RegisterAcknowledgement,
       RegisterDelay
  <2>3. CASE adjustments' = adjustments
    BY <1>0, <2>3 DEF AdjustmentStands
  <2> QED
    BY <2>1, <2>2, <2>3
<1>8. /\ \A r \in receipts' : ReceiptStands(r)'
      /\ \A a \in acks' : AckStands(a)'
  BY <1>1, <1>3, <1>4, <1>6
<1> QED
  BY <1>5, <1>7, <1>8
     DEF SubmissionsStand, ReceiptStands, OneForEach, AckStands, AdjustmentStands

LEMMA NoUpdatesPreserved ==
  ASSUME TypeOK, NoUpdates, [Next]_vars
  PROVE  NoUpdates'
<1>0. packages \in [Key -> Seq(Package)]
  BY DEF TypeOK
<1>1. ASSUME NEW k \in Key, NEW d, NEW r, NEW at, RegisterPackage(k, d, r, at),
             k[2] > 1
      PROVE  FALSE
  <2>1. packages[k] = <<>>
    BY <1>1 DEF NoUpdates
  <2>2. k[1] = "INTERMEDIATE"
    BY <1>1, ReportingAssumption
  <2>3. NeedsPrior(k) /\ PriorType(k) = "INTERMEDIATE"
    BY <1>1, <2>2 DEF NeedsPrior, PriorType
  <2>4. ~Readable(known \cup {k}, {PriorType(k)})
    BY <2>1, <2>2, <2>3 DEF Readable
  <2> QED
    BY <1>1, <2>3, <2>4 DEF RegisterPackage, PackageOutcome
<1>2. ASSUME NEW j \in Key, NEW d, NEW r, NEW at, RegisterPackage(j, d, r, at)
      PROVE  NoUpdates'
  <2>1. \A k \in Key : k # j => packages'[k] = packages[k]
    BY <1>0, <1>2 DEF RegisterPackage
  <2>2. ~(j[2] > 1)
    BY <1>1, <1>2
  <2> QED
    BY <2>1, <2>2 DEF NoUpdates
<1>3. CASE packages' = packages
  BY <1>3 DEF NoUpdates
<1>4. packages' = packages
      \/ \E k \in Key, d \in 0..Len(decisions), r \in 0..Len(routes),
            at \in GovernanceTime : RegisterPackage(k, d, r, at)
  BY HistoriesChangeByAppending DEF RegisterApplicability, RegisterRoute
<1> QED
  BY <1>2, <1>3, <1>4

\* No update of the intermediate report is ever registered, whatever has been
\* submitted before: register_package raises IndexError for its own empty list.
THEOREM UpdatesAreNeverRegistered == Spec => []NoUpdates
<1>1. Init => NoUpdates
  BY DEF Init, NoUpdates
<1>2. WorkflowInv /\ NoUpdates /\ [Next]_vars => NoUpdates'
  BY NoUpdatesPreserved DEF WorkflowInv, ReportingInv
<1> QED
  BY <1>1, <1>2, WorkflowInvInitially, WorkflowInvPreserved, PTL DEF Spec

-----------------------------------------------------------------------------
(* Assembling the dossier. *)

LEMMA RegistriesTakeTheirSteps ==
  ASSUME [DossierNext]_dossierVars
  PROVE  /\ [Next]_vars
         /\ vars' = vars \/ (held' = held /\ dossier' = dossier)
BY DEF DossierNext, dossierVars, EvidenceMoves, TakeAssessment, AddIncident,
   AddIncidentOvertaken, AddReporting, AddReportingPartly, AddReportingOvertaken

LEMMA HeldStandsPreserved ==
  ASSUME HeldStands, [DossierNext]_dossierVars
  PROVE  HeldStands'
<1>1. CASE held' = held
  BY <1>1 DEF HeldStands
<1>2. ASSUME NEW t \in Time, TakeAssessment(t)
      PROVE  HeldStands'
  <2>1. /\ held' = AssessmentOf(Len(decisions), Len(routes), t)
        /\ Assess(Len(decisions), Len(routes), t) \notin {"GovernanceError", "IndexError"}
    BY <1>2 DEF TakeAssessment
  <2>2. held'.at = t /\ held'.state = Assess(Len(decisions), Len(routes), t)
    BY <2>1 DEF AssessmentOf
  <2> QED
    BY <2>1, <2>2 DEF HeldStands
<1> QED
  BY <1>1, <1>2 DEF DossierNext, dossierVars, EvidenceMoves, AddIncident,
     AddIncidentOvertaken, AddReporting, AddReportingPartly, AddReportingOvertaken

\* The shape of a dossier survives the changes the builder makes.
WithReporting(doc, rep) == [doc EXCEPT !.reporting = rep]

ReportingOvertaken(doc, rep) == [doc EXCEPT !.reporting = rep, !.overtaken = TRUE]

IncidentOvertaken(doc, snapshot) ==
  [doc EXCEPT !.incident.snapshot = snapshot, !.overtaken = TRUE]

LEMMA ReportingReplaced ==
  ASSUME NEW doc, HasDossierShape(doc), NEW rep
  PROVE  LET new == WithReporting(doc, rep)
         IN  /\ HasDossierShape(new) /\ new.incident = doc.incident
             /\ new.reporting = rep /\ new.overtaken = doc.overtaken
<1> DEFINE new == WithReporting(doc, rep)
<1>1. PICK old : /\ old = doc.incident
                 /\ old \in [snapshot : {old.snapshot}, review : {old.review},
                             pinned : {old.pinned}, state : {old.state}]
                 /\ doc \in [incident : {old}, reporting : {doc.reporting},
                             overtaken : {doc.overtaken}]
  BY DEF HasDossierShape
<1>2. new = [incident |-> old, reporting |-> rep, overtaken |-> doc.overtaken]
  BY <1>1 DEF WithReporting
<1> HIDE DEF new
<1>3. /\ HasDossierShape(new) /\ new.incident = doc.incident
      /\ new.reporting = rep /\ new.overtaken = doc.overtaken
  BY <1>1, <1>2 DEF HasDossierShape
<1> QED
  BY <1>3 DEF new

LEMMA ReportingReplacedAgain ==
  ASSUME NEW doc, HasDossierShape(doc), NEW rep
  PROVE  LET new == ReportingOvertaken(doc, rep)
         IN  /\ HasDossierShape(new) /\ new.incident = doc.incident
             /\ new.reporting = rep /\ new.overtaken
<1> DEFINE new == ReportingOvertaken(doc, rep)
<1>1. PICK old : /\ old = doc.incident
                 /\ old \in [snapshot : {old.snapshot}, review : {old.review},
                             pinned : {old.pinned}, state : {old.state}]
                 /\ doc \in [incident : {old}, reporting : {doc.reporting},
                             overtaken : {doc.overtaken}]
  BY DEF HasDossierShape
<1>0. PICK overtaken : overtaken = TRUE
  OBVIOUS
<1>2. new = [incident |-> old, reporting |-> rep, overtaken |-> TRUE]
  <2> DEFINE mid == [doc EXCEPT !.reporting = rep]
  <2>1. mid \in [incident : {old}, reporting : {rep}, overtaken : {doc.overtaken}]
    BY <1>1
  <2>2. [mid EXCEPT !.overtaken = overtaken]
          = [incident |-> old, reporting |-> rep, overtaken |-> overtaken]
    <3> HIDE DEF mid
    <3> QED
      BY <2>1
  <2> QED
    BY <1>0, <2>2, Zenon DEF ReportingOvertaken
<1> HIDE DEF new
<1>3. /\ HasDossierShape(new) /\ new.incident = doc.incident
      /\ new.reporting = rep /\ new.overtaken
  BY <1>1, <1>2 DEF HasDossierShape
<1> QED
  BY <1>3 DEF new

LEMMA IncidentReplaced ==
  ASSUME NEW doc, HasDossierShape(doc), NEW snapshot
  PROVE  LET new == IncidentOvertaken(doc, snapshot)
         IN  /\ HasDossierShape(new) /\ new.incident.snapshot = snapshot
             /\ new.incident.review = doc.incident.review
             /\ new.reporting = doc.reporting /\ new.overtaken
<1> DEFINE new == IncidentOvertaken(doc, snapshot)
<1>1. PICK old : /\ old = doc.incident
                 /\ old \in [snapshot : {old.snapshot}, review : {old.review},
                             pinned : {old.pinned}, state : {old.state}]
                 /\ doc \in [incident : {old}, reporting : {doc.reporting},
                             overtaken : {doc.overtaken}]
  BY DEF HasDossierShape
<1> DEFINE newer == [snapshot |-> snapshot, review |-> old.review,
                     pinned |-> old.pinned, state |-> old.state]
<1>2. [old EXCEPT !.snapshot = snapshot] = newer
  BY <1>1
<1>0. PICK overtaken : overtaken = TRUE
  OBVIOUS
<1>3. new = [incident |-> newer, reporting |-> doc.reporting, overtaken |-> TRUE]
  <2> DEFINE mid == [doc EXCEPT !.incident.snapshot = snapshot]
  <2>1. mid \in [incident : {newer}, reporting : {doc.reporting},
                 overtaken : {doc.overtaken}]
    <3> HIDE DEF newer
    <3> QED
      BY <1>1, <1>2
  <2>2. [mid EXCEPT !.overtaken = overtaken]
          = [incident |-> newer, reporting |-> doc.reporting, overtaken |-> overtaken]
    <3> HIDE DEF mid, newer
    <3> QED
      BY <2>1
  <2> QED
    BY <1>0, <2>2, Zenon DEF IncidentOvertaken
<1>4. /\ newer.snapshot = snapshot /\ newer.review = old.review
      /\ newer = [snapshot |-> newer.snapshot, review |-> newer.review,
                  pinned |-> newer.pinned, state |-> newer.state]
  OBVIOUS
<1> HIDE DEF new, newer
<1>5. /\ new.incident = newer /\ new.reporting = doc.reporting /\ new.overtaken
      /\ new = [incident |-> new.incident, reporting |-> new.reporting,
                overtaken |-> new.overtaken]
  BY <1>3
<1>6. /\ HasDossierShape(new) /\ new.incident.snapshot = snapshot
      /\ new.incident.review = doc.incident.review
      /\ new.reporting = doc.reporting /\ new.overtaken
  BY <1>1, <1>4, <1>5 DEF HasDossierShape
<1> QED
  BY <1>6 DEF new

\* The calls, in these words.
LEMMA CallsChangeTheDossier ==
  /\ AddIncidentOvertaken => dossier' = IncidentOvertaken(dossier, Snapshot)
  /\ AddReporting =>
       dossier' = WithReporting(dossier, Reporting(held, AssessmentArtifactState(held)))
  /\ AddReportingPartly => dossier' = WithReporting(dossier, Reporting(None, "current"))
  /\ AddReportingOvertaken =>
       dossier' = ReportingOvertaken(dossier, Reporting(dossier.reporting.assessment,
                                                        dossier.reporting.state))
BY DEF AddIncidentOvertaken, AddReporting, AddReportingPartly, AddReportingOvertaken,
   IncidentOvertaken, WithReporting, ReportingOvertaken

LEMMA IncidentEmbeddedPreserved ==
  ASSUME WorkflowInv, IncidentEmbedded, [DossierNext]_dossierVars
  PROVE  IncidentEmbedded'
<1>0. IncidentsTypeOK /\ IncidentsInv
  BY DEF WorkflowInv, ReportingInv, TypeOK
<1>1. ASSUME dossier # None
      PROVE  /\ incident' # None
             /\ Extends(Snapshot', dossier.incident.snapshot)
  <2>1. /\ incident # None /\ dossier.incident.snapshot \in SnapshotType
        /\ Extends(Snapshot, dossier.incident.snapshot)
    BY <1>1 DEF IncidentEmbedded
  <2>2. incident' = incident /\ Extends(Snapshot', Snapshot)
    BY <1>0, <2>1, RegistriesTakeTheirSteps, IncidentsTakeTheirSteps, EvidenceOnlyGrows
  <2>3. IncidentsTypeOK'
    BY <1>0, RegistriesTakeTheirSteps, IncidentsTakeTheirSteps, IncidentsTypePreserved
  <2>4. Snapshot \in SnapshotType /\ (Snapshot').events \in Seq(Event)
    BY <1>0, <2>1, <2>3, SnapshotHasType DEF IncidentsTypeOK, Snapshot
  <2> QED
    BY <2>1, <2>2, <2>4, ExtendsIsTransitive
<1>2. CASE dossier' = dossier
  BY <1>1, <1>2 DEF IncidentEmbedded, HasDossierShape, Extends
<1>3. ASSUME NEW i \in DOMAIN reviews, AddIncident(reviews[i])
      PROVE  IncidentEmbedded'
  <2> DEFINE review == reviews[i]
  <2>1. /\ review \in Review /\ incident # None
        /\ Extends(Snapshot, review.snapshot)
    BY <1>0, ReviewedIsRegistered
  <2>2. /\ Snapshot \in SnapshotType /\ Extends(Snapshot, Snapshot)
        /\ Snapshot' = Snapshot /\ incident' = incident
    BY <1>0, <1>3, <2>1, SnapshotHasType, ExtendsIsReflexive
       DEF AddIncident, vars, incidentVars, Snapshot
  <2>3. PICK pinned, state :
          dossier' = [incident  |-> [snapshot |-> Snapshot, review |-> review,
                                     pinned |-> pinned, state |-> state],
                      reporting |-> None, overtaken |-> FALSE]
    BY <1>3 DEF AddIncident
  <2>4. /\ dossier'.incident.snapshot = Snapshot /\ dossier'.incident.review = review
        /\ HasDossierShape(dossier')
    BY <2>3 DEF HasDossierShape
  <2> QED
    BY <2>1, <2>2, <2>4 DEF IncidentEmbedded, HasDossierShape, Extends
<1>4. ASSUME dossier # None, HasDossierShape(dossier'), dossier'.incident = dossier.incident
      PROVE  IncidentEmbedded'
  BY <1>1, <1>4 DEF IncidentEmbedded, HasDossierShape, Extends
<1>5. ASSUME NEW rep, dossier # None,
             \/ dossier' = WithReporting(dossier, rep)
             \/ dossier' = ReportingOvertaken(dossier, rep)
      PROVE  IncidentEmbedded'
  <2>1. HasDossierShape(dossier)
    BY <1>5 DEF IncidentEmbedded
  <2>2. HasDossierShape(dossier') /\ dossier'.incident = dossier.incident
    BY <1>5, <2>1, ReportingReplaced, ReportingReplacedAgain
  <2> QED
    BY <1>4, <1>5, <2>2
<1>6. CASE AddIncidentOvertaken
  <2>1. /\ dossier # None /\ HasDossierShape(dossier)
        /\ incident # None /\ incident' = incident /\ Snapshot' = Snapshot
        /\ dossier.incident.snapshot \in SnapshotType /\ dossier.incident.review \in Review
        /\ Extends(Snapshot, dossier.incident.snapshot)
        /\ Extends(dossier.incident.snapshot, dossier.incident.review.snapshot)
    BY <1>6 DEF AddIncidentOvertaken, IncidentEmbedded, vars, incidentVars, Snapshot
  <2>2. /\ HasDossierShape(dossier') /\ dossier'.incident.snapshot = Snapshot
        /\ dossier'.incident.review = dossier.incident.review
    BY <1>6, <2>1, IncidentReplaced, CallsChangeTheDossier
  <2>3. Snapshot \in SnapshotType /\ Extends(Snapshot, Snapshot)
    BY <1>0, <2>1, SnapshotHasType, ExtendsIsReflexive
  <2>4. dossier.incident.review.snapshot \in SnapshotType
    BY <2>1 DEF Review
  <2>5. Extends(Snapshot, dossier.incident.review.snapshot)
    BY <2>1, <2>3, <2>4, ExtendsIsTransitive DEF SnapshotType
  <2> QED
    BY <2>1, <2>2, <2>3, <2>5 DEF IncidentEmbedded, HasDossierShape, Extends
<1>7. CASE AddReporting
  BY <1>5, <1>7, CallsChangeTheDossier DEF AddReporting, MayAddReporting
<1>8. CASE AddReportingPartly
  BY <1>5, <1>8, CallsChangeTheDossier DEF AddReportingPartly, MayAddReporting
<1>9. CASE AddReportingOvertaken
  BY <1>5, <1>9, CallsChangeTheDossier DEF AddReportingOvertaken, MayAddReporting
<1> QED
  BY <1>2, <1>3, <1>6, <1>7, <1>8, <1>9
     DEF DossierNext, dossierVars, EvidenceMoves, TakeAssessment

\* What ReportingEmbedded says of a dossier.
Embedded(doc) ==
  LET a == doc.reporting.assessment
      state == doc.reporting.state
  IN  /\ doc.reporting = Reporting(a, state)
      /\ a # None =>
           /\ a.review = doc.incident.review
           /\ a.at \in Time
           /\ a.state \notin {"GovernanceError", "IndexError"}
           /\ state # "revalidation_required" =>
                /\ a = AssessmentOf(a.decision, a.route, a.at)
                /\ a.state # "REVALIDATION_REQUIRED"

LEMMA AssessmentUnchanged ==
  ASSUME UNCHANGED vars, NEW d, NEW r, NEW t
  PROVE  AssessmentOf(d, r, t)' = AssessmentOf(d, r, t)
<1>0. UNCHANGED <<incident, events, impacts, decisions, routes, known, packages,
                  receipts, acks, adjustments, delays>>
  BY DEF vars, incidentVars, reportingVars
<1>1. /\ \A type : LatestReceipts(type)' = LatestReceipts(type)
      /\ Snapshot' = Snapshot
      /\ \A keys, types : Readable(keys, types)' = Readable(keys, types)
      /\ DecisionCurrent(d)' = DecisionCurrent(d) /\ RouteCurrent(r)' = RouteCurrent(r)
      /\ RefusedByAuthority' = RefusedByAuthority
  BY <1>0 DEF LatestReceipts, Snapshot, Readable, DecisionCurrent, RouteCurrent,
     RefusedByAuthority
<1>2. /\ LastIntermediate' = LastIntermediate
      /\ InitialSubmitted' = InitialSubmitted
      /\ \A k : SubmissionTimes(k)' = SubmissionTimes(k)
  BY <1>1 DEF LastIntermediate, InitialSubmitted, SubmissionTimes
<1>3. RecoveryPending' = RecoveryPending
  BY <1>0, <1>1, <1>2 DEF RecoveryPending, IntermediateSubmitted
<1>4. Obligations(d)' = Obligations(d)
  BY <1>0, <1>1, <1>2, <1>3 DEF Obligations, InitialDue
<1>5. \A o : /\ EffectiveDue(o)' = EffectiveDue(o)
             /\ StaleAdjustment(o)' = StaleAdjustment(o)
             /\ Submitted(o)' = Submitted(o)
  BY <1>0, <1>2 DEF EffectiveDue, StaleAdjustment, Adjusted, Submitted
<1>6. \A o : Late(o, t)' = Late(o, t)
  BY <1>2, <1>5 DEF Late
<1>7. \A o : StaleDelay(o, t)' = StaleDelay(o, t)
  BY <1>0, <1>5, <1>6 DEF StaleDelay
<1>8. MajorState(d, t)' = MajorState(d, t)
  BY <1>1, <1>3, <1>4, <1>5, <1>6, <1>7 DEF MajorState
<1>9. Assess(d, r, t)' = Assess(d, r, t)
  BY <1>0, <1>1, <1>2, <1>8 DEF Assess, NonMajorState
<1>10. DeadlinesOf(d)' = DeadlinesOf(d)
  BY <1>0, <1>1, <1>2, <1>3, <1>4, <1>5 DEF DeadlinesOf
<1> QED
  BY <1>0, <1>1, <1>9, <1>10 DEF AssessmentOf

LEMMA ReportingIsEmbedded ==
  ASSUME HeldStands, IncidentEmbedded, AddReporting \/ AddReportingPartly
  PROVE  ReportingEmbedded'
<1>1. ASSUME NEW doc, Embedded(doc), UNCHANGED vars
      PROVE  Embedded(doc)'
  <2> DEFINE a == doc.reporting.assessment
             state == doc.reporting.state
  <2>1. AssessmentOf(a.decision, a.route, a.at)'
          = AssessmentOf(a.decision, a.route, a.at)
    BY <1>1, AssessmentUnchanged
  <2>2. Reporting(a, state)' = Reporting(a, state)
    BY <1>1 DEF vars, reportingVars, Reporting
  <2> QED
    BY <1>1, <2>1, <2>2 DEF Embedded
<1>2. ASSUME NEW doc, Embedded(doc), UNCHANGED vars, dossier' = doc
      PROVE  ReportingEmbedded'
  <2>1. Embedded(doc)'
    BY <1>1, <1>2
  <2> QED
    BY <1>2, <2>1 DEF ReportingEmbedded, Embedded
<1>5. ASSUME NEW a, NEW state, MayAddReporting, UNCHANGED vars,
             dossier' = WithReporting(dossier, Reporting(a, state)),
             a # None => /\ a = held
                         /\ state = AssessmentArtifactState(a)
      PROVE  ReportingEmbedded'
  <2>1. /\ held # None
        /\ HasDossierShape(dossier)
        /\ dossier.incident.review = held.review
    BY <1>5 DEF MayAddReporting, IncidentEmbedded
  <2>2. PICK doc : doc = WithReporting(dossier, Reporting(a, state))
    OBVIOUS
  <2>3. /\ dossier' = doc
        /\ doc.incident = dossier.incident /\ doc.reporting = Reporting(a, state)
    BY <1>5, <2>1, <2>2, ReportingReplaced
  <2>4. /\ Reporting(a, state).assessment = a
        /\ Reporting(a, state).state = state
    BY DEF Reporting
  <2>5. a # None /\ state # "revalidation_required" =>
          /\ a = AssessmentOf(a.decision, a.route, a.at)
          /\ a.state # "REVALIDATION_REQUIRED"
    BY <1>5 DEF AssessmentArtifactState
  <2>6. a # None =>
          /\ a.review = doc.incident.review
          /\ a.at \in Time /\ a.state \notin {"GovernanceError", "IndexError"}
    BY <1>5, <2>1, <2>3 DEF HeldStands
  <2>7. Embedded(doc)
    BY <2>3, <2>4, <2>5, <2>6 DEF Embedded
  <2> QED
    BY <1>2, <1>5, <2>3, <2>7
<1>6. CASE AddReporting
  BY <1>5, <1>6, CallsChangeTheDossier DEF AddReporting, MayAddReporting
<1>7. CASE AddReportingPartly
  BY <1>5, <1>7, CallsChangeTheDossier DEF AddReportingPartly
<1> QED
  BY <1>6, <1>7

LEMMA DossierInvInitially ==
  ASSUME DossierInit
  PROVE  DossierInv
<1>1. Init /\ held = None /\ dossier = None
  BY DEF DossierInit
<1>2. SubmissionsStand /\ NoUpdates
  BY <1>1 DEF Init, SubmissionsStand, NoUpdates
<1> QED
  BY <1>1, <1>2, WorkflowInvInitially
     DEF DossierInv, HeldStands, IncidentEmbedded

LEMMA DossierInvPreserved ==
  ASSUME DossierInv, [DossierNext]_dossierVars
  PROVE  DossierInv'
<1>1. TypeOK /\ [Next]_vars
  BY RegistriesTakeTheirSteps DEF DossierInv, WorkflowInv, ReportingInv
<1>2. WorkflowInv'
  BY <1>1, WorkflowInvPreserved DEF DossierInv
<1>3. SubmissionsStand' /\ NoUpdates'
  BY <1>1, SubmissionsStandPreserved, NoUpdatesPreserved DEF DossierInv
<1>4. HeldStands' /\ IncidentEmbedded'
  BY HeldStandsPreserved, IncidentEmbeddedPreserved DEF DossierInv
<1> QED
  BY <1>2, <1>3, <1>4 DEF DossierInv

-----------------------------------------------------------------------------
(* What the verifier reads. *)

\* The initial and the intermediate report have one key each.
LEMMA OneKeyEach ==
  ASSUME DossierInv, NEW r \in receipts, r.key[1] \in {"INITIAL", "INTERMEDIATE"}
  PROVE  /\ r.key \in Key /\ r.key = <<r.key[1], 1>>
         /\ r.revision \in 1..Len(packages[r.key])
         /\ packages[r.key] \in Seq(Package)
<1>1. r.key \in Key /\ packages[r.key] \in Seq(Package)
  BY ReceiptHasType DEF DossierInv, WorkflowInv, ReportingInv, TypeOK
<1>2. r.revision \in DOMAIN packages[r.key]
  BY DEF DossierInv, SubmissionsStand
<1>3. r.revision \in 1..Len(packages[r.key]) /\ packages[r.key] # <<>>
  BY <1>1, <1>2
<1>4. ~(r.key[2] > 1)
  BY <1>1, <1>3 DEF DossierInv, NoUpdates
<1>5. r.key \in ReportType \X (Nat \ {0})
  BY <1>1, ReportingAssumption
<1>6. r.key[2] = 1
  BY <1>4, <1>5
<1> QED
  BY <1>1, <1>3, <1>5, <1>6

\* The latest submission by time is the one of the latest revision.
LEMMA LastSubmissionIsLatest ==
  ASSUME DossierInv, NEW rep, rep.receipts = receipts, rep.packages = packages,
         OrderlySubmissions(rep),
         NEW type \in {"INITIAL", "INTERMEDIATE"}, NEW r \in LatestReceipts(type)
  PROVE  HasSubmission(rep, type) /\ LastSubmission(rep, type).at = r.at
<1> DEFINE Of == {q \in receipts : q.key[1] = type}
           Last(s) == \A q \in Of : \/ q.key[2] < s.key[2]
                                    \/ q.key[2] = s.key[2] /\ q.at <= s.at
<1>1. r \in Of /\ r.revision = Len(packages[r.key])
  BY DEF LatestReceipts
<1>2. \A q \in Of : /\ q.key = <<type, 1>> /\ q.at \in Nat
                    /\ q.revision \in 1..Len(packages[<<type, 1>>])
                    /\ packages[<<type, 1>>] \in Seq(Package)
  BY OneKeyEach, ReceiptHasType DEF DossierInv, WorkflowInv, ReportingInv
<1>3. \A q \in Of : q.at <= r.at
  <2> SUFFICES ASSUME NEW q \in Of
               PROVE  q.at <= r.at
    OBVIOUS
  <2>1. q.key = r.key /\ q.at \in Nat /\ r.at \in Nat
    BY <1>1, <1>2
  <2>2. CASE q.revision = r.revision
    <3>1. q = r
      BY <1>1, <2>1, <2>2 DEF DossierInv, SubmissionsStand
    <3> QED
      BY <2>1, <3>1
  <2>3. CASE q.revision < r.revision
    BY <1>1, <2>1, <2>3 DEF OrderlySubmissions
  <2> QED
    BY <1>1, <1>2, <2>2, <2>3
<1>4. Last(r)
  BY <1>1, <1>2, <1>3
<1>5. LastSubmission(rep, type) = CHOOSE s \in Of : Last(s)
  BY DEF LastSubmission
<1> HIDE DEF Of, Last
<1>6. LastSubmission(rep, type) \in Of /\ Last(LastSubmission(rep, type))
  BY <1>1, <1>4, <1>5
<1>7. HasSubmission(rep, type)
  BY <1>1 DEF HasSubmission, Of
<1>8. LastSubmission(rep, type).at = r.at
  <2> DEFINE s == LastSubmission(rep, type)
  <2>1. s.at \in Nat /\ r.at \in Nat
    BY <1>1, <1>2, <1>6
  <2>2. r.at <= s.at
    <3>1. \/ r.key[2] < s.key[2]
          \/ r.key[2] = s.key[2] /\ r.at <= s.at
      BY <1>1, <1>6 DEF Last
    <3>2. r.key[2] = 1 /\ s.key[2] = 1
      BY <1>1, <1>2, <1>6
    <3> QED
      BY <3>1, <3>2
  <2>3. s.at <= r.at
    BY <1>3, <1>6
  <2> QED
    BY <2>1, <2>2, <2>3
<1> QED
  BY <1>7, <1>8

\* Of fewer than ten revisions the last one comes last in the document.
LEMMA LastInFileIsLast ==
  ASSUME NEW revisions \in Seq(Package), revisions # <<>>, Len(revisions) < 10
  PROVE  LastInFile(revisions) = Len(revisions)
<1> DEFINE Last(i) == \A j \in DOMAIN revisions : FilePosition(j) <= FilePosition(i)
<1>1. DOMAIN revisions = 1..Len(revisions) /\ Len(revisions) \in Nat
  OBVIOUS
<1>2. Len(revisions) # 0
  BY EmptySeq
<1>3. \A i \in DOMAIN revisions : i \in Nat /\ FilePosition(i) = 100 * i
  BY <1>1 DEF FilePosition
<1>4. Len(revisions) \in DOMAIN revisions /\ Last(Len(revisions))
  BY <1>1, <1>2, <1>3
<1>5. \A i \in DOMAIN revisions : Last(i) => i = Len(revisions)
  BY <1>1, <1>3
<1> HIDE DEF Last
<1>6. LastInFile(revisions) = CHOOSE i \in DOMAIN revisions : Last(i)
  BY DEF LastInFile, Last
<1> QED
  BY <1>4, <1>5, <1>6

\* The dossier that the properties speak of, in the words of the registries.
LEMMA EmbeddedAsAssessed ==
  ASSUME ReportingEmbedded, EvidenceTaken, dossier.reporting.assessment # None,
         dossier.reporting.state # "revalidation_required"
  PROVE  /\ Embedded(dossier)
         /\ dossier.reporting =
              Reporting(dossier.reporting.assessment, dossier.reporting.state)
         /\ LET a == dossier.reporting.assessment
            IN  /\ a = AssessmentOf(a.decision, a.route, a.at)
                /\ a.review = dossier.incident.review
                /\ a.at \in Time
                /\ a.state \notin {"GovernanceError", "IndexError",
                                   "REVALIDATION_REQUIRED"}
BY DEF ReportingEmbedded, Embedded, EvidenceTaken

\* An assessment that is not about revalidation is about the decision in force, the
\* evidence as it is and, if the decision is applicable, the route in force.
LEMMA AssessmentFields ==
  ASSUME DossierInv, NEW a, a = AssessmentOf(a.decision, a.route, a.at),
         a.state \notin {"GovernanceError", "IndexError", "REVALIDATION_REQUIRED"}
  PROVE  /\ a.state = Assess(a.decision, a.route, a.at)
         /\ a.decision \in 1..Len(decisions) /\ a.decision = Len(decisions)
         /\ a.review = decisions[a.decision].review
         /\ a.snapshot = Snapshot
         /\ decisions[a.decision].review.snapshot = Snapshot
         /\ decisions[a.decision].applicability \in Applicability
         /\ IF decisions[a.decision].applicability = "NOT_APPLICABLE" THEN a.route = 0
            ELSE a.route # 0 /\ a.route = Len(routes)
         /\ a.deadlines = IF /\ decisions[a.decision].applicability = "APPLICABLE"
                             /\ decisions[a.decision].review.verdict = "MAJOR"
                          THEN DeadlinesOf(a.decision) ELSE {}
         /\ a.packages =
              {<<k, Len(packages[k])>> : k \in {j \in Key : packages[j] # <<>>}}
         /\ a.receipts = {r \in receipts : r.revision = Len(packages[r.key])}
<1> DEFINE d == a.decision
           r == a.route
           t == a.at
           A == AssessmentOf(d, r, t)
<1>1. /\ A.state = Assess(d, r, t) /\ A.review = decisions[d].review
      /\ A.snapshot = Snapshot
      /\ A.packages = {<<k, Len(packages[k])>> : k \in {j \in Key : packages[j] # <<>>}}
      /\ A.receipts = {q \in receipts : q.revision = Len(packages[q.key])}
  BY DEF AssessmentOf
<1>2. a.state = Assess(d, r, t) /\ Assess(d, r, t) # "REVALIDATION_REQUIRED"
      /\ Assess(d, r, t) # "IndexError"
  BY <1>1
<1>3. /\ A.route = IF decisions[d].applicability = "NOT_APPLICABLE" THEN 0 ELSE r
      /\ A.deadlines = IF /\ decisions[d].applicability = "APPLICABLE"
                          /\ decisions[d].review.verdict = "MAJOR"
                       THEN DeadlinesOf(d) ELSE {}
  BY <1>2 DEF AssessmentOf
<1>4. DecisionCurrent(d) /\ (decisions[d].applicability = "APPLICABLE" => RouteCurrent(r))
  BY <1>2 DEF Assess
<1>5. /\ d \in 1..Len(decisions) /\ d = Len(decisions)
      /\ decisions[d].review.snapshot = Snapshot
  BY <1>4 DEF DecisionCurrent
<1>6. decisions[d].applicability \in Applicability
  <2>1. decisions \in Seq(Decision)
    BY DEF DossierInv, WorkflowInv, ReportingInv, TypeOK
  <2>2. decisions[d] \in Decision
    BY <1>5, <2>1
  <2> QED
    BY <2>2 DEF Decision
<1>7. a = A
  OBVIOUS
<1> HIDE DEF A
<1>8. /\ a.review = decisions[d].review /\ a.snapshot = Snapshot
      /\ a.packages = {<<k, Len(packages[k])>> : k \in {j \in Key : packages[j] # <<>>}}
      /\ a.receipts = {q \in receipts : q.revision = Len(packages[q.key])}
  BY <1>1, <1>7
<1>9. /\ a.route = IF decisions[d].applicability = "NOT_APPLICABLE" THEN 0 ELSE r
      /\ a.deadlines = IF /\ decisions[d].applicability = "APPLICABLE"
                          /\ decisions[d].review.verdict = "MAJOR"
                       THEN DeadlinesOf(d) ELSE {}
  BY <1>3, <1>7
<1>10. IF decisions[d].applicability = "NOT_APPLICABLE" THEN a.route = 0
       ELSE a.route # 0 /\ a.route = Len(routes)
  BY <1>4, <1>6, <1>9 DEF RouteCurrent, Applicability
<1> QED
  BY <1>2, <1>5, <1>6, <1>8, <1>9, <1>10

LEMMA HistoriesHoldHere ==
  ASSUME DossierInv, NEW a, NEW state
  PROVE  HistoriesHold(Reporting(a, state))
<1> DEFINE rep == Reporting(a, state)
<1>1. /\ rep.packages = packages /\ rep.decisions = decisions /\ rep.routes = routes
      /\ rep.receipts = receipts /\ rep.acks = acks /\ rep.adjustments = adjustments
  BY DEF Reporting
<1> HIDE DEF rep
<1>2. ASSUME NEW k \in Key, NEW i \in DOMAIN packages[k]
      PROVE  /\ packages[k][i].decision \in DOMAIN decisions
             /\ packages[k][i].route \in DOMAIN routes
             /\ i > 1 => packages[k][i].at > packages[k][i - 1].at
  <2>1. PackagesAreJustified /\ HistoryAdvances /\ packages[k] \in Seq(Package)
    BY DEF DossierInv, WorkflowInv, ReportingInv, TypeOK
  <2>2. i > 1 => i - 1 \in DOMAIN packages[k] /\ i - 1 < i
    BY <2>1
  <2>3. i > 1 => packages[k][i - 1].at < packages[k][i].at
    BY <2>1, <2>2 DEF HistoryAdvances
  <2>4. \A j \in DOMAIN packages[k] : packages[k][j].at \in Nat
    <3>1. \A j \in DOMAIN packages[k] : packages[k][j] \in Package
      BY <2>1
    <3> QED
      BY <3>1, TimesAreNumbers DEF Package
  <2> QED
    BY <2>1, <2>2, <2>3, <2>4 DEF PackagesAreJustified
<1>3. SubmissionsStand
  BY DEF DossierInv
<1>4. \A k \in Key : \A i \in DOMAIN rep.packages[k] :
        LET p == rep.packages[k][i] IN
          /\ p.decision \in DOMAIN rep.decisions /\ p.route \in DOMAIN rep.routes
          /\ i > 1 => p.at > rep.packages[k][i - 1].at
  BY <1>1, <1>2
<1>5. /\ \A r \in rep.receipts :
           /\ r.revision \in DOMAIN rep.packages[r.key]
           /\ r.at >= rep.packages[r.key][r.revision].at
           /\ \A q \in rep.receipts :
                q.key = r.key /\ q.revision = r.revision => q = r
      /\ \A b \in rep.acks :
           \E r \in rep.receipts : r.key = b.key /\ r.revision = b.revision
      /\ \A k \in Key : rep.adjustments[k] # None =>
           rep.adjustments[k].adjusted > rep.adjustments[k].original
  BY <1>1, <1>3 DEF SubmissionsStand
<1>6. HistoriesHold(rep)
  BY <1>4, <1>5 DEF HistoriesHold
<1> QED
  BY <1>6 DEF rep

LEMMA LatestHoldHere ==
  ASSUME DossierInv, NEW rep, rep.packages = packages, rep.receipts = receipts,
         OrderlySubmissions(rep),
         rep.assessment.packages =
           {<<k, Len(packages[k])>> : k \in {j \in Key : packages[j] # <<>>}},
         rep.assessment.receipts = {r \in receipts : r.revision = Len(packages[r.key])}
  PROVE  LatestHold(rep)
<1> DEFINE kept == {j \in Key : packages[j] # <<>>}
           latest == {<<k, LastInFile(packages[k])>> : k \in kept}
<1>1. \A k \in kept : LastInFile(packages[k]) = Len(packages[k])
  <2>1. \A k \in kept : packages[k] \in Seq(Package) /\ packages[k] # <<>>
                        /\ Len(packages[k]) < 10
    BY DEF OrderlySubmissions, DossierInv, WorkflowInv, ReportingInv, TypeOK
  <2> QED
    BY <2>1, LastInFileIsLast
<1>2. latest = {<<k, Len(packages[k])>> : k \in kept}
  BY <1>1
<1>3. \A r \in receipts : <<r.key, r.revision>> \in latest
                          <=> r.revision = Len(packages[r.key])
  <2> SUFFICES ASSUME NEW r \in receipts
               PROVE  <<r.key, r.revision>> \in latest
                      <=> r.revision = Len(packages[r.key])
    OBVIOUS
  <2>1. r.key \in Key /\ packages[r.key] \in Seq(Package)
    BY ReceiptHasType DEF DossierInv, WorkflowInv, ReportingInv, TypeOK
  <2>2. r.revision \in DOMAIN packages[r.key]
    BY DEF DossierInv, SubmissionsStand
  <2>3. r.key \in kept
    BY <2>1, <2>2
  <2> QED
    BY <1>2, <2>3
<1>4. rep.assessment.packages = latest
  BY <1>2
<1>5. rep.assessment.receipts =
        {r \in rep.receipts : <<r.key, r.revision>> \in latest}
  BY <1>3
<1> QED
  BY <1>4, <1>5 DEF LatestHold

\* What is checked of the deadline of one report.
DeadlineHolds(doc, o) ==
  /\ o.adjustment = doc.reporting.adjustments[o.key]
  /\ IF o.adjustment = None THEN o.effective = o.statutory
     ELSE /\ o.adjustment.original = o.statutory
          /\ o.adjustment.adjusted = o.effective
  /\ StatutoryHolds(doc, o)

LEMMA StatutoryHoldsHere ==
  ASSUME DossierInv, NEW doc, OrderlySubmissions(doc.reporting),
         doc.reporting.packages = packages, doc.reporting.receipts = receipts,
         NEW d \in 1..Len(decisions), doc.incident.review = decisions[d].review,
         NEW p \in Obligations(d),
         NEW o, o.key = p.key, o.statutory = p.due
  PROVE  StatutoryHolds(doc, o)
<1> DEFINE rep == doc.reporting
           cap == Detected + AwarenessSpan
           due == doc.incident.review.at + ClassificationSpan
<1>1. CASE p = [key |-> Initial, due |-> InitialDue(d)]
  <2>1. o.key = Initial /\ o.statutory = InitialDue(d)
    BY <1>1
  <2>2. decisions[d] \in Decision
    BY DEF DossierInv, WorkflowInv, ReportingInv, TypeOK
  <2>3. decisions[d].review.at \in Nat /\ Detected \in Nat /\ AwarenessSpan \in Nat
        /\ ClassificationSpan \in Nat
    BY <2>2, IncidentsAssumption, ReportingAssumption DEF Decision, Review
  <2>4. InitialDue(d) = IF doc.incident.review.at <= cap /\ due > cap THEN cap ELSE due
    BY <2>3 DEF InitialDue
  <2> QED
    BY <2>1, <2>4 DEF StatutoryHolds, Initial, Intermediate
<1>2. ASSUME NEW at \in SubmissionTimes(Initial),
             p = [key |-> Intermediate, due |-> at + IntermediateSpan]
      PROVE  StatutoryHolds(doc, o)
  <2>1. PICK r \in LatestReceipts("INITIAL") : r.at = at
    BY DEF SubmissionTimes, Initial
  <2>2. HasSubmission(rep, "INITIAL") /\ LastSubmission(rep, "INITIAL").at = at
    BY <2>1, LastSubmissionIsLatest
  <2>3. o.key = Intermediate /\ o.statutory = at + IntermediateSpan
    BY <1>2
  <2> QED
    BY <2>2, <2>3 DEF StatutoryHolds, Initial, Intermediate
<1>3. ASSUME NEW r \in LatestReceipts("INTERMEDIATE"),
             p = [key |-> Final, due |-> CalendarMonth[r.at]]
      PROVE  StatutoryHolds(doc, o)
  <2>1. /\ HasSubmission(rep, "INTERMEDIATE")
        /\ LastSubmission(rep, "INTERMEDIATE").at = r.at
    BY LastSubmissionIsLatest
  <2>2. o.key = Final /\ o.statutory = CalendarMonth[r.at]
    BY <1>3
  <2> QED
    BY <2>1, <2>2 DEF StatutoryHolds, Final, Intermediate
<1> QED
  BY <1>1, <1>2, <1>3 DEF Obligations

LEMMA DeadlinesHoldHere ==
  ASSUME DossierInv, NEW doc, OrderlySubmissions(doc.reporting),
         doc.reporting.packages = packages, doc.reporting.receipts = receipts,
         doc.reporting.adjustments = adjustments,
         NEW d \in 1..Len(decisions), doc.incident.review = decisions[d].review,
         NEW t, MajorState(d, t) # "GovernanceError",
         doc.reporting.assessment.deadlines = DeadlinesOf(d)
  PROVE  DeadlinesHold(doc)
<1> SUFFICES ASSUME NEW o \in DeadlinesOf(d), o.statutory # None
             PROVE  DeadlineHolds(doc, o)
  BY DEF DeadlinesHold, DeadlineHolds
<1>1. PICK p \in Obligations(d) :
        o = [key |-> p.key, statutory |-> p.due, effective |-> EffectiveDue(p),
             adjustment |-> adjustments[p.key]]
  BY DEF DeadlinesOf
<1>2. ~StaleAdjustment(p)
  BY DEF MajorState
<1>3. /\ o.key = p.key /\ o.statutory = p.due /\ o.effective = EffectiveDue(p)
      /\ o.adjustment = adjustments[p.key]
  BY <1>1
<1>4. StatutoryHolds(doc, o)
  BY <1>3, StatutoryHoldsHere
<1>5. IF o.adjustment = None THEN o.effective = o.statutory
      ELSE /\ o.adjustment.original = o.statutory
           /\ o.adjustment.adjusted = o.effective
  BY <1>2, <1>3 DEF StaleAdjustment, Adjusted, EffectiveDue
<1> QED
  BY <1>3, <1>4, <1>5 DEF DeadlineHolds

LEMMA CurrentReportingVerifiesHere ==
  ASSUME DossierInv, ReportingEmbedded
  PROVE  CurrentReportingVerifies
<1> DEFINE rep == dossier.reporting
           a == rep.assessment
           d == a.decision
<1> SUFFICES ASSUME EvidenceTaken, a # None, rep.state # "revalidation_required",
                    OrderlySubmissions(rep)
             PROVE  Verifies(dossier)
  BY DEF CurrentReportingVerifies, AssessmentEmbedded
<1>1. /\ rep = Reporting(a, rep.state)
      /\ a = AssessmentOf(d, a.route, a.at) /\ a.review = dossier.incident.review
      /\ a.state \notin {"GovernanceError", "IndexError", "REVALIDATION_REQUIRED"}
  BY EmbeddedAsAssessed
<1>2. /\ rep.packages = packages /\ rep.decisions = decisions /\ rep.routes = routes
      /\ rep.receipts = receipts /\ rep.adjustments = adjustments
  BY <1>1 DEF Reporting
<1>3. /\ a.state = Assess(d, a.route, a.at)
      /\ d \in 1..Len(decisions) /\ d = Len(decisions)
      /\ a.review = decisions[d].review
      /\ a.snapshot = Snapshot /\ decisions[d].review.snapshot = Snapshot
      /\ decisions[d].applicability \in Applicability
      /\ IF decisions[d].applicability = "NOT_APPLICABLE" THEN a.route = 0
         ELSE a.route # 0 /\ a.route = Len(routes)
      /\ a.deadlines = IF /\ decisions[d].applicability = "APPLICABLE"
                          /\ decisions[d].review.verdict = "MAJOR"
                       THEN DeadlinesOf(d) ELSE {}
      /\ a.packages = {<<k, Len(packages[k])>> : k \in {j \in Key : packages[j] # <<>>}}
      /\ a.receipts = {r \in receipts : r.revision = Len(packages[r.key])}
  BY <1>1, AssessmentFields
<1> HIDE DEF rep, a, d
<1>4. BindingsHold(dossier)
  BY <1>1, <1>2, <1>3 DEF BindingsHold, rep, a, d
<1>5. HistoriesHold(rep)
  BY <1>1, HistoriesHoldHere
<1>6. DeadlinesHold(dossier)
  <2>1. CASE /\ decisions[d].applicability = "APPLICABLE"
             /\ decisions[d].review.verdict = "MAJOR"
    <3>1. a.deadlines = DeadlinesOf(d)
      BY <1>3, <2>1
    <3>2. MajorState(d, a.at) # "GovernanceError"
      BY <1>1, <1>3, <2>1 DEF Assess
    <3> QED
      BY <1>1, <1>2, <1>3, <3>1, <3>2, DeadlinesHoldHere DEF rep, a
  <2>2. CASE a.deadlines = {}
    BY <2>2 DEF DeadlinesHold, rep, a
  <2> QED
    BY <1>3, <2>1, <2>2
<1>7. LatestHold(rep)
  BY <1>2, <1>3, LatestHoldHere DEF a
<1> QED
  BY <1>4, <1>5, <1>6, <1>7 DEF Verifies, rep, a

\* A dossier changes when it is called only: it has just embedded the registries as
\* they are, nothing of a reporting assessment yet, or newer evidence beside one.
LEMMA DossierChangesByCalls ==
  ASSUME DossierInv, [DossierNext]_dossierVars
  PROVE  \/ dossier' = dossier
         \/ ReportingEmbedded'
         \/ dossier'.overtaken
<1>1. ASSUME NEW i \in DOMAIN reviews, AddIncident(reviews[i])
      PROVE  ReportingEmbedded'
  BY <1>1 DEF AddIncident, ReportingEmbedded
<1>2. CASE AddReporting \/ AddReportingPartly
  BY <1>2, ReportingIsEmbedded DEF DossierInv
<1>3. CASE AddIncidentOvertaken
  <2>1. HasDossierShape(dossier)
    BY <1>3 DEF AddIncidentOvertaken, DossierInv, IncidentEmbedded
  <2> QED
    BY <1>3, <2>1, IncidentReplaced, CallsChangeTheDossier
<1>4. CASE AddReportingOvertaken
  <2>1. HasDossierShape(dossier)
    BY <1>4 DEF AddReportingOvertaken, MayAddReporting, DossierInv, IncidentEmbedded
  <2> QED
    BY <1>4, <2>1, ReportingReplacedAgain, CallsChangeTheDossier
<1> QED
  BY <1>1, <1>2, <1>3, <1>4 DEF DossierNext, dossierVars, EvidenceMoves, TakeAssessment

\* What the verifier recomputes from the document is what the builder computed from
\* the registries, whatever was registered between the assessment and the calls of
\* add_incident and add_incident_reporting, for any reports, times, calendar and bounds.
THEOREM CurrentReportingAlwaysVerifies == DossierSpec => []CurrentReportingVerifies
<1>1. DossierInit => CurrentReportingVerifies
  BY DEF DossierInit, CurrentReportingVerifies, AssessmentEmbedded, EvidenceTaken
<1>2. DossierInv /\ CurrentReportingVerifies /\ [DossierNext]_dossierVars
        => CurrentReportingVerifies' \/ ReportingEmbedded'
  <2>1. dossier' = dossier => CurrentReportingVerifies' = CurrentReportingVerifies
    BY DEF CurrentReportingVerifies, AssessmentEmbedded, EvidenceTaken
  <2>2. dossier'.overtaken => CurrentReportingVerifies'
    BY DEF CurrentReportingVerifies
  <2> QED
    BY <2>1, <2>2, DossierChangesByCalls
<1>3. DossierInv /\ ReportingEmbedded => CurrentReportingVerifies
  BY CurrentReportingVerifiesHere
<1> QED
  BY <1>1, <1>2, <1>3, DossierInvInitially, DossierInvPreserved, PTL DEF DossierSpec

-----------------------------------------------------------------------------
(* What a healthy domain is worth. *)

\* Submitted in time, for a document that embeds the registries.
SubmittedInTime(r, due) ==
  r.at <= IF adjustments[r.key] = None THEN due ELSE adjustments[r.key].adjusted

LEMMA CompleteIsSubmitted ==
  ASSUME DossierInv, NEW d \in 1..Len(decisions), NEW t \in Time,
         MajorState(d, t) = "COMPLETE"
  PROVE  \E i \in LatestReceipts("INITIAL"), m \in LatestReceipts("INTERMEDIATE"),
            f \in LatestReceipts("FINAL") :
           /\ SubmittedInTime(i, decisions[d].review.at + ClassificationSpan)
           /\ SubmittedInTime(m, i.at + IntermediateSpan)
           /\ SubmittedInTime(f, CalendarMonth[m.at])
           /\ \A e \in DOMAIN events :
                events[e].kind = "RECOVERED" => events[e].at <= m.at
           /\ \A a \in acks : a.status \notin RefusedAck
<1> DEFINE m == LastIntermediate
           due == decisions[d].review.at + ClassificationSpan
           initial == [key |-> Initial, due |-> InitialDue(d)]
           final == [key |-> Final, due |-> CalendarMonth[m.at]]
<1>0. TypeOK /\ ReceiptsAreBounded
  BY DEF DossierInv, WorkflowInv, ReportingInv
<1>1. /\ \A o \in Obligations(d) : ~StaleAdjustment(o) /\ ~Late(o, t) /\ Submitted(o)
      /\ ~RefusedByAuthority /\ ~RecoveryPending
      /\ LatestReceipts("INTERMEDIATE") # {}
      /\ final \in Obligations(d)
  BY <1>0, NothingOpen
<1>2. initial \in Obligations(d)
  BY DEF Obligations
<1>3. PICK i \in LatestReceipts("INITIAL") :
        /\ i.key = Initial /\ i.at \in Nat /\ i.at <= EffectiveDue(initial)
  BY <1>0, <1>1, <1>2, MetInTime DEF Initial
<1>4. /\ m \in LatestReceipts("INTERMEDIATE") /\ m \in receipts
      /\ m.key[1] = "INTERMEDIATE" /\ m.at \in Nat
  BY <1>0, <1>1, LastIntermediateIsOne, ReceiptHasType DEF LatestReceipts
<1>5. m.key = Intermediate
  BY <1>4, OneKeyEach DEF Intermediate
<1>6. SubmittedInTime(i, due)
  <2>1. decisions[d] \in Decision
    BY <1>0 DEF TypeOK
  <2>2. decisions[d].review.at \in Nat /\ Detected \in Nat /\ AwarenessSpan \in Nat
        /\ ClassificationSpan \in Nat
    BY <2>1, IncidentsAssumption, ReportingAssumption DEF Decision, Review
  <2>3. InitialDue(d) \in Nat /\ due \in Nat /\ InitialDue(d) <= due
    BY <2>2 DEF InitialDue
  <2>4. CASE adjustments[Initial] = None
    <3>1. EffectiveDue(initial) = InitialDue(d)
      BY <2>4 DEF EffectiveDue, Adjusted
    <3>2. i.at <= due
      BY <1>3, <2>3, <3>1
    <3> QED
      BY <1>3, <2>4, <3>2 DEF SubmittedInTime
  <2>5. CASE adjustments[Initial] # None
    BY <1>3, <2>5 DEF SubmittedInTime, EffectiveDue, Adjusted
  <2> QED
    BY <2>4, <2>5
<1>7. SubmittedInTime(m, i.at + IntermediateSpan)
  <2> DEFINE o == [key |-> Intermediate, due |-> i.at + IntermediateSpan]
  <2>1. i.at \in SubmissionTimes(Initial)
    BY <1>3 DEF SubmissionTimes, Initial
  <2>2. o \in Obligations(d)
    BY <2>1 DEF Obligations
  <2>3. PICK r \in receipts :
          /\ r.key = Intermediate /\ r.revision = Len(packages[Intermediate])
          /\ r.at <= EffectiveDue(o)
    BY <1>0, <1>1, <2>2, MetInTime
  <2>4. r = m
    BY <1>4, <1>5, <2>3 DEF DossierInv, SubmissionsStand, LatestReceipts
  <2> QED
    BY <1>5, <2>3, <2>4 DEF SubmittedInTime, EffectiveDue, Adjusted
<1>8. PICK f \in LatestReceipts("FINAL") : f.key = Final /\ f.at <= EffectiveDue(final)
  BY <1>0, <1>1, MetInTime DEF Final
<1>9. SubmittedInTime(f, CalendarMonth[m.at])
  BY <1>8 DEF SubmittedInTime, EffectiveDue, Adjusted
<1>10. \A e \in DOMAIN events : events[e].kind = "RECOVERED" => events[e].at <= m.at
  <2>1. IntermediateSubmitted
    BY <1>1, <1>3 DEF IntermediateSubmitted, InitialSubmitted
  <2>2. \A e \in DOMAIN events : events[e].at \in Nat
    <3>1. \A e \in DOMAIN events : events[e] \in Event
      BY <1>0 DEF TypeOK, IncidentsTypeOK
    <3> QED
      BY <3>1, IncidentsAssumption DEF Event
  <2> QED
    BY <1>1, <1>4, <2>1, <2>2 DEF RecoveryPending
<1>11. \A a \in acks : a.status \notin RefusedAck
  BY <1>1 DEF RefusedByAuthority
<1> HIDE DEF m, due
<1> QED
  BY <1>4, <1>6, <1>7, <1>9, <1>10, <1>11 DEF due

\* What HealthyReportingIsEarned says of a major incident.
MajorReported(rep, decision, evidence) ==
  LET InTime(r, due) ==
        r.at <= IF rep.adjustments[r.key] = None THEN due
                ELSE rep.adjustments[r.key].adjusted
  IN  \E i \in EmbeddedLatest(rep, "INITIAL"),
         m \in EmbeddedLatest(rep, "INTERMEDIATE"),
         f \in EmbeddedLatest(rep, "FINAL") :
        /\ InTime(i, decision.review.at + ClassificationSpan)
        /\ InTime(m, i.at + IntermediateSpan)
        /\ InTime(f, CalendarMonth[m.at])
        /\ \A e \in DOMAIN evidence.events :
             evidence.events[e].kind = "RECOVERED"
               => evidence.events[e].at <= m.at
        /\ \A a \in rep.acks : a.status \notin RefusedAck

LEMMA HealthyReportingIsEarnedHere ==
  ASSUME DossierInv, ReportingEmbedded
  PROVE  HealthyReportingIsEarned
<1> DEFINE rep == dossier.reporting
           a == rep.assessment
           d == a.decision
           decision == decisions[d]
           evidence == dossier.incident.snapshot
<1> SUFFICES ASSUME EvidenceTaken, Verifies(dossier), DomainState(rep) = "healthy"
             PROVE  LET final == rep.decisions[Len(rep.decisions)]
                    IN  /\ evidence = final.review.snapshot
                        /\ final.applicability = "APPLICABLE"
                             /\ final.review.verdict = "MAJOR" =>
                             MajorReported(rep, final, evidence)
                        /\ final.applicability = "APPLICABLE"
                             /\ final.review.verdict = "NON_MAJOR" =>
                             \/ EmbeddedLatest(rep, "INITIAL") = {}
                             \/ EmbeddedLatest(rep, "RECLASSIFICATION") # {}
  BY DEF HealthyReportingIsEarned, MajorReported
<1>1. /\ a # None /\ rep.state # "revalidation_required"
      /\ a.state \notin {"BREACHED", "INCOMPLETE", "PENDING"}
  BY DEF Verifies, DomainState
<1>2. /\ rep = Reporting(a, rep.state)
      /\ a = AssessmentOf(d, a.route, a.at) /\ a.review = dossier.incident.review
      /\ a.at \in Time
      /\ a.state \notin {"GovernanceError", "IndexError", "REVALIDATION_REQUIRED"}
  BY <1>1, EmbeddedAsAssessed
<1>3. /\ rep.packages = packages /\ rep.decisions = decisions /\ rep.acks = acks
      /\ rep.receipts = receipts /\ rep.adjustments = adjustments
  BY <1>2 DEF Reporting
<1>4. /\ a.state = Assess(d, a.route, a.at)
      /\ d \in 1..Len(decisions) /\ d = Len(decisions)
      /\ a.review = decision.review
      /\ decision.review.snapshot = Snapshot
  BY <1>2, AssessmentFields
<1> HIDE DEF rep, a, d
<1>5. evidence = Snapshot
  <2>1. /\ incident # None /\ evidence \in SnapshotType /\ Extends(Snapshot, evidence)
        /\ Extends(evidence, dossier.incident.review.snapshot)
    BY DEF DossierInv, IncidentEmbedded, EvidenceTaken
  <2>2. Snapshot \in SnapshotType
    BY <2>1, SnapshotHasType DEF DossierInv, WorkflowInv, ReportingInv, TypeOK
  <2>3. Extends(evidence, Snapshot)
    BY <1>2, <1>4, <2>1
  <2> QED
    BY <2>1, <2>2, <2>3, ExtendsIsAntisymmetric
<1>6. \A type : EmbeddedLatest(rep, type) = LatestReceipts(type)
  BY <1>3 DEF EmbeddedLatest, LatestReceipts
<1>7. evidence.events = events
  BY <1>5 DEF Snapshot
<1>8. ASSUME decision.applicability = "APPLICABLE", decision.review.verdict = "MAJOR"
      PROVE  MajorReported(rep, decision, evidence)
  <2>1. a.state = MajorState(d, a.at)
    BY <1>2, <1>4, <1>8 DEF Assess
  <2>2. MajorState(d, a.at) = "COMPLETE"
    BY <1>1, <1>2, <2>1 DEF MajorState
  <2>3. PICK i \in LatestReceipts("INITIAL"), m \in LatestReceipts("INTERMEDIATE"),
             f \in LatestReceipts("FINAL") :
          /\ SubmittedInTime(i, decision.review.at + ClassificationSpan)
          /\ SubmittedInTime(m, i.at + IntermediateSpan)
          /\ SubmittedInTime(f, CalendarMonth[m.at])
          /\ \A e \in DOMAIN events :
               events[e].kind = "RECOVERED" => events[e].at <= m.at
          /\ \A b \in acks : b.status \notin RefusedAck
    BY <1>2, <1>4, <2>2, CompleteIsSubmitted
  <2>4. /\ i \in EmbeddedLatest(rep, "INITIAL")
        /\ m \in EmbeddedLatest(rep, "INTERMEDIATE")
        /\ f \in EmbeddedLatest(rep, "FINAL")
    BY <1>6
  <2> HIDE DEF decision, evidence
  <2> QED
    BY <1>3, <1>7, <2>3, <2>4 DEF MajorReported, SubmittedInTime
<1>9. ASSUME decision.applicability = "APPLICABLE", decision.review.verdict = "NON_MAJOR"
      PROVE  LatestReceipts("INITIAL") = {} \/ LatestReceipts("RECLASSIFICATION") # {}
  <2>1. a.state = NonMajorState
    BY <1>2, <1>4, <1>9 DEF Assess
  <2> QED
    BY <1>1, <2>1 DEF NonMajorState, InitialSubmitted
<1>10. rep.decisions[Len(rep.decisions)] = decision
  BY <1>3, <1>4
<1> QED
  BY <1>4, <1>5, <1>6, <1>8, <1>9, <1>10

\* In a dossier that verifies, a healthy reporting domain has been earned, for any
\* evidence, times and deadlines: the verifier may take the state of the assessment
\* at its word, because the builder embeds none that no longer holds.
THEOREM HealthyReportingIsAlwaysEarned == DossierSpec => []HealthyReportingIsEarned
<1>1. DossierInit => HealthyReportingIsEarned
  BY DEF DossierInit, HealthyReportingIsEarned, EvidenceTaken
<1>2. DossierInv /\ HealthyReportingIsEarned /\ [DossierNext]_dossierVars
        => HealthyReportingIsEarned' \/ ReportingEmbedded'
  <2>1. dossier' = dossier => HealthyReportingIsEarned' = HealthyReportingIsEarned
    BY DEF HealthyReportingIsEarned, EvidenceTaken
  <2>2. dossier'.overtaken => HealthyReportingIsEarned'
    BY DEF HealthyReportingIsEarned
  <2> QED
    BY <2>1, <2>2, DossierChangesByCalls
<1>3. DossierInv /\ ReportingEmbedded => HealthyReportingIsEarned
  BY HealthyReportingIsEarnedHere
<1> QED
  BY <1>1, <1>2, <1>3, DossierInvInitially, DossierInvPreserved, PTL DEF DossierSpec

-----------------------------------------------------------------------------
(* What the verifier refuses. *)

\* An assessment that asks for revalidation was made of evidence newer than the
\* review, or of no route; it stays one, because decisions are never replaced.
BoundToThePast(a) ==
  /\ a.decision \in DOMAIN decisions
  /\ \/ a.snapshot # a.review.snapshot
     \/ a.route = 0 /\ decisions[a.decision].applicability # "NOT_APPLICABLE"

\* The embedded decisions are the first of the registered ones.
IsPrefixHere(embedded) ==
  /\ embedded \in Seq(Decision)
  /\ \A i \in DOMAIN embedded : i \in DOMAIN decisions /\ decisions[i] = embedded[i]

HeldIsBound ==
  /\ held # None /\ held.state = "REVALIDATION_REQUIRED" => BoundToThePast(held)
  /\ EvidenceTaken => dossier.reporting.assessment \in {None, held}
  /\ EvidenceTaken => IsPrefixHere(dossier.reporting.decisions)

LEMMA HeldIsBoundPreserved ==
  ASSUME DossierInv, HeldIsBound, [DossierNext]_dossierVars
  PROVE  HeldIsBound'
<1>0. /\ decisions \in Seq(Decision) /\ routes \in Seq(GovernanceTime)
      /\ \A d \in DOMAIN decisions :
           d \in DOMAIN decisions' /\ decisions'[d] = decisions[d]
  BY RegistriesTakeTheirSteps, NothingIsLost
     DEF DossierInv, WorkflowInv, ReportingInv, TypeOK
<1>1. \A a : BoundToThePast(a) => BoundToThePast(a)'
  BY <1>0 DEF BoundToThePast
<1>2. CASE held' = held
  <2>1. held' # None /\ held'.state = "REVALIDATION_REQUIRED" => BoundToThePast(held)'
    BY <1>1, <1>2 DEF HeldIsBound
  <2>2. EvidenceTaken' => /\ dossier'.reporting.assessment \in {None, held'}
                          /\ IsPrefixHere(dossier.reporting.decisions)'
    <3>1. CASE dossier' = dossier
      BY <1>0, <1>2, <3>1 DEF HeldIsBound, EvidenceTaken, IsPrefixHere
    <3>2. ASSUME NEW i \in DOMAIN reviews, AddIncident(reviews[i])
          PROVE  ~EvidenceTaken'
      BY <3>2 DEF AddIncident, EvidenceTaken
    <3>3. ASSUME NEW a \in {None, held}, NEW state, dossier # None,
                 dossier'.reporting = Reporting(a, state), UNCHANGED vars
          PROVE  /\ dossier'.reporting.assessment \in {None, held'}
                 /\ IsPrefixHere(dossier.reporting.decisions)'
      <4>1. Reporting(a, state).assessment = a /\ Reporting(a, state).decisions = decisions
        BY DEF Reporting
      <4>2. decisions' = decisions
        BY <3>3 DEF vars, reportingVars
      <4>3. dossier'.reporting.decisions = decisions
        BY <3>3, <4>1
      <4>4. IsPrefixHere(dossier.reporting.decisions)'
        BY <1>0, <4>2, <4>3 DEF IsPrefixHere
      <4> QED
        BY <1>2, <3>3, <4>1, <4>4
    <3>4. dossier # None => HasDossierShape(dossier)
      BY DEF DossierInv, IncidentEmbedded
    <3>5. CASE AddReporting
      <4>1. dossier # None
        BY <3>5 DEF AddReporting, MayAddReporting
      <4>2. dossier'.reporting = Reporting(held, AssessmentArtifactState(held))
        BY <3>4, <3>5, <4>1, ReportingReplaced, CallsChangeTheDossier
      <4> QED
        BY <3>3, <3>5, <4>1, <4>2 DEF AddReporting
    <3>6. CASE AddReportingPartly
      <4>1. dossier # None
        BY <3>6 DEF AddReportingPartly, MayAddReporting
      <4>2. dossier'.reporting = Reporting(None, "current")
        BY <3>4, <3>6, <4>1, ReportingReplaced, CallsChangeTheDossier
      <4> QED
        BY <3>3, <3>6, <4>1, <4>2 DEF AddReportingPartly
    <3>7. CASE AddReportingOvertaken
      <4> DEFINE a == dossier.reporting.assessment
                 state == dossier.reporting.state
      <4>1. dossier # None /\ EvidenceTaken
        BY <3>7 DEF AddReportingOvertaken, MayAddReporting, AssessmentEmbedded
      <4>2. dossier'.reporting = Reporting(a, state)
        BY <3>4, <3>7, <4>1, ReportingReplacedAgain, CallsChangeTheDossier
      <4>3. a \in {None, held}
        BY <4>1 DEF HeldIsBound
      <4> HIDE DEF a, state
      <4> QED
        BY <3>3, <3>7, <4>1, <4>2, <4>3 DEF AddReportingOvertaken
    <3>8. CASE AddIncidentOvertaken
      <4>1. dossier # None /\ decisions' = decisions
        BY <3>8 DEF AddIncidentOvertaken, vars, reportingVars
      <4>2. dossier'.reporting = dossier.reporting
        BY <3>4, <3>8, <4>1, IncidentReplaced, CallsChangeTheDossier
      <4> QED
        BY <1>2, <4>1, <4>2 DEF HeldIsBound, EvidenceTaken, IsPrefixHere
    <3> QED
      BY <3>1, <3>2, <3>5, <3>6, <3>7, <3>8
         DEF DossierNext, dossierVars, EvidenceMoves, TakeAssessment
  <2> QED
    BY <1>2, <2>1, <2>2 DEF HeldIsBound, BoundToThePast, EvidenceTaken
<1>3. ASSUME NEW t \in Time, TakeAssessment(t)
      PROVE  HeldIsBound'
  <2> DEFINE d == Len(decisions)
             r == Len(routes)
             a == AssessmentOf(d, r, t)
  <2>1. /\ held = None /\ held' = a /\ dossier' = dossier
        /\ decisions # <<>> /\ decisions' = decisions /\ routes' = routes
        /\ Assess(d, r, t) \notin {"GovernanceError", "IndexError"}
    BY <1>3 DEF TakeAssessment, vars, reportingVars
  <2>2. d \in DOMAIN decisions
    BY <1>0, <2>1
  <2>3. EvidenceTaken' => /\ dossier'.reporting.assessment \in {None, held'}
                          /\ IsPrefixHere(dossier.reporting.decisions)'
    BY <2>1 DEF HeldIsBound, EvidenceTaken, IsPrefixHere
  <2>4. /\ a.decision = d /\ a.review = decisions[d].review /\ a.snapshot = Snapshot
        /\ a.state = Assess(d, r, t)
        /\ a.state = "REVALIDATION_REQUIRED" => a.route = r
    BY DEF AssessmentOf
  <2> HIDE DEF a
  <2>5. ASSUME a.state = "REVALIDATION_REQUIRED"
        PROVE  BoundToThePast(a)
    <3>1. \/ ~DecisionCurrent(d)
          \/ decisions[d].applicability = "APPLICABLE" /\ ~RouteCurrent(r)
      <4>1. MajorState(d, t) # "REVALIDATION_REQUIRED"
            /\ NonMajorState # "REVALIDATION_REQUIRED"
        BY DEF MajorState, NonMajorState
      <4> QED
        BY <2>4, <2>5, <4>1 DEF Assess
    <3>2. CASE ~DecisionCurrent(d)
      <4>1. d \in 1..Len(decisions)
        BY <1>0, <2>2
      <4>2. decisions[d].review.snapshot # Snapshot
        BY <3>2, <4>1 DEF DecisionCurrent
      <4> QED
        BY <2>2, <2>4, <4>2 DEF BoundToThePast
    <3>3. CASE decisions[d].applicability = "APPLICABLE" /\ ~RouteCurrent(r)
      <4>1. a.route = 0
        BY <2>4, <2>5, <3>3 DEF RouteCurrent
      <4> QED
        BY <2>2, <2>4, <3>3, <4>1 DEF BoundToThePast
    <3> QED
      BY <3>1, <3>2, <3>3
  <2>6. PICK c : c = a
    OBVIOUS
  <2>7. c.state = "REVALIDATION_REQUIRED" => BoundToThePast(c)'
    BY <1>1, <2>5, <2>6
  <2>8. held' = c
    BY <2>1, <2>6
  <2> QED
    BY <2>3, <2>7, <2>8 DEF HeldIsBound, BoundToThePast, EvidenceTaken
<1> QED
  BY <1>2, <1>3 DEF DossierNext, dossierVars, EvidenceMoves, AddIncident,
     AddIncidentOvertaken, AddReporting, AddReportingPartly, AddReportingOvertaken

\* Of a reporting assessment that asks for revalidation a portfolio never learns: no
\* dossier that embeds one passes the verifier, whatever was registered between the
\* assessment and the calls of the builder.
THEOREM RevalidationNeverVerifies ==
  DossierSpec => [](EvidenceTaken /\ dossier.reporting.assessment # None
                      /\ dossier.reporting.assessment.state = "REVALIDATION_REQUIRED"
                    => ~Verifies(dossier))
<1>1. DossierInit => HeldIsBound
  BY DEF DossierInit, HeldIsBound, EvidenceTaken
<1>2. DossierInv /\ HeldIsBound
        => (EvidenceTaken /\ dossier.reporting.assessment # None
              /\ dossier.reporting.assessment.state = "REVALIDATION_REQUIRED"
            => ~Verifies(dossier))
  <2> DEFINE rep == dossier.reporting
             a == rep.assessment
  <2> SUFFICES ASSUME DossierInv, HeldIsBound, EvidenceTaken, a # None,
                      a.state = "REVALIDATION_REQUIRED", Verifies(dossier)
               PROVE  FALSE
    OBVIOUS
  <2>1. BoundToThePast(a)
    BY DEF HeldIsBound
  <2>2. IsPrefixHere(rep.decisions) /\ decisions \in Seq(Decision)
    BY DEF HeldIsBound, DossierInv, WorkflowInv, ReportingInv, TypeOK
  <2>3. BindingsHold(dossier)
    BY DEF Verifies
  <2>4. a.decision = Len(rep.decisions) /\ a.decision \in DOMAIN rep.decisions
    BY <2>1, <2>2, <2>3 DEF BindingsHold, BoundToThePast, IsPrefixHere
  <2>5. decisions[a.decision] = rep.decisions[a.decision]
    BY <2>2, <2>4 DEF IsPrefixHere
  <2> QED
    BY <2>1, <2>3, <2>4, <2>5 DEF BindingsHold, BoundToThePast
<1> QED
  BY <1>1, <1>2, DossierInvInitially, DossierInvPreserved, HeldIsBoundPreserved, PTL
     DEF DossierSpec
=============================================================================
