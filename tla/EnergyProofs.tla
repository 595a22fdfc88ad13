---------------------------- MODULE EnergyProofs ----------------------------
(***************************************************************************)
(* Proofs about EnergyTracker, for any calendar, settings, clock, wattage  *)
(* and intervals.                                                          *)
(***************************************************************************)
EXTENDS EnergyTracker, TLAPS

\* A stretch of time bills at most MaxPower.
LEMMA BilledAtMost ==
  ASSUME NEW P \in Nat, NEW w \in 0..P, NEW t \in Nat, NEW n \in Nat
  PROVE  /\ w * n \in Nat /\ P * t \in Nat /\ P * n \in Nat
         /\ P * t + w * n <= P * (t + n)
<1>1. w * n \in Nat /\ P * t \in Nat /\ P * n \in Nat /\ (P - w) * n \in Nat
  OBVIOUS
<1>2. P * (t + n) = P * t + P * n /\ P * n = w * n + (P - w) * n
  OBVIOUS
<1> QED
  BY <1>1, <1>2

\* More time bills no less.
LEMMA BilledMore ==
  ASSUME NEW P \in Nat, NEW t \in Int, NEW u \in Int, t <= u
  PROVE  P * t <= P * u
<1>1. P * u = P * t + P * (u - t) /\ P * (u - t) \in Nat /\ P * t \in Int
  OBVIOUS
<1> QED
  BY <1>1

\* The days that come up have a month before them.
LEMMA TodayBilled == TypeOK => Today \in BilledDays
<1> SUFFICES ASSUME TypeOK PROVE Today \in BilledDays
  OBVIOUS
<1>1. firstDay \in FirstDays /\ firstDay \in Int /\ firstDay >= 31
  BY EnergyAssumption DEF TypeOK, BilledDays, Days
<1>2. now \in 0..Horizon /\ now \div TicksPerDay \in Nat
  BY EnergyAssumption DEF TypeOK
<1>3. Today \in Days
  BY <1>1, <1>2, EnergyAssumption DEF Today
<1> QED
  BY <1>1, <1>2, <1>3 DEF Today, BilledDays

LEMMA DayFacts ==
  ASSUME NEW d \in BilledDays
  PROVE  /\ d \in Days /\ d \in Int /\ d >= 31 /\ LastDay \in Nat /\ d <= LastDay
         /\ DayOfMonth[d] \in 1..31 /\ DayOfYear[d] \in 0..365
         /\ d - DayOfMonth[d] \in Days /\ DayOfMonth[d - DayOfMonth[d]] \in 28..31
<1>1. d \in Days /\ d \in Int /\ d >= 31 /\ LastDay \in Nat /\ d <= LastDay
  BY CalendarAssumption DEF BilledDays, Days
<1>2. DayOfMonth[d] \in 1..31 /\ DayOfYear[d] \in 0..365
  BY <1>1, CalendarAssumption
<1>3. d - DayOfMonth[d] \in Days
  BY <1>1, <1>2 DEF Days
<1> DEFINE first == d - (DayOfMonth[d] - 1)
<1>4. first \in Days \ {0} /\ DayOfMonth[first] = 1 /\ first - 1 = d - DayOfMonth[d]
  <2>1. DayOfMonth[d] - 1 \in 0..(DayOfMonth[d] - 1)
    BY <1>2
  <2>2. first \in Days /\ DayOfMonth[first] = DayOfMonth[d] - (DayOfMonth[d] - 1)
    BY <1>1, <2>1, CalendarAssumption
  <2> QED
    BY <1>1, <1>2, <2>2
<1> HIDE DEF first
<1>5. DayOfMonth[first - 1] >= 28
  BY <1>4, CalendarAssumption
<1>6. DayOfMonth[d - DayOfMonth[d]] \in 1..31
  BY <1>3, CalendarAssumption
<1> QED
  BY <1>1, <1>2, <1>3, <1>4, <1>5, <1>6

LEMMA SettingFacts ==
  ASSUME NEW s \in Settings
  PROVE  /\ s.day \in 1..28 /\ s.weekday \in 0..6 /\ s.days \in 1..365 /\ s.cycle \in Cycles
         /\ SettingsFromRaw(s) = s
<1>1. s.day \in 1..28 /\ s.weekday \in 0..6 /\ s.days \in 1..365 /\ s.cycle \in Cycles
  BY DEF Settings, ResetDays, Weekdays, CycleDays
<1>2. /\ Between(1, OrDefault(s.day, 1), 28) = s.day
      /\ Between(1, OrDefault(s.days, 30), 365) = s.days /\ s.weekday % 7 = s.weekday
  BY <1>1 DEF Between, OrDefault
<1> QED
  BY <1>1, <1>2 DEF SettingsFromRaw, Settings

\* Looking back over the days of a month, or of two.
LEMMA MonthBegins ==
  ASSUME NEW d \in BilledDays, NEW day \in 1..28
  PROVE  /\ MonthStart(d, day) \in Days /\ MonthStart(d, day) <= d
         /\ DayOfMonth[MonthStart(d, day)] = day
         /\ \A e \in (MonthStart(d, day) + 1)..d : DayOfMonth[e] # day
<1> DEFINE m == DayOfMonth[d]
           last == d - m
           p == DayOfMonth[last]
           start == MonthStart(d, day)
<1>1. /\ d \in Days /\ d \in Int /\ m \in 1..31 /\ last \in Days /\ last \in Int /\ p \in 28..31
  BY DayFacts DEF Days
<1>2. \A k \in 0..(m - 1) : d - k \in Days /\ DayOfMonth[d - k] = m - k
  BY <1>1, CalendarAssumption
<1>3. \A k \in 0..(p - 1) : last - k \in Days /\ DayOfMonth[last - k] = p - k
  BY <1>1, CalendarAssumption
<1>4. start = IF m >= day THEN d - m + day ELSE last - p + (IF day < p THEN day ELSE p)
  BY DEF MonthStart
<1>5. last = d - m
  OBVIOUS
<1> HIDE DEF m, last, p, start
<1>6. CASE m >= day
  <2>1. start = d - (m - day) /\ m - day \in 0..(m - 1)
    BY <1>1, <1>4, <1>6
  <2>2. start \in Days /\ DayOfMonth[start] = day /\ start <= d
    BY <1>1, <1>2, <2>1
  <2>3. ASSUME NEW e \in (start + 1)..d
        PROVE  DayOfMonth[e] # day
    <3>1. d - e \in 0..(m - 1) /\ d - e < m - day /\ e = d - (d - e)
      BY <1>1, <2>1
    <3>2. DayOfMonth[d - (d - e)] = m - (d - e)
      BY <1>2, <3>1
    <3> QED
      BY <1>1, <3>1, <3>2
  <2> QED
    BY <2>2, <2>3 DEF start
<1>7. CASE m < day
  <2>1. start = last - (p - day) /\ p - day \in 0..(p - 1)
    BY <1>1, <1>4, <1>7
  <2>2. start \in Days /\ DayOfMonth[start] = day /\ start <= d
    BY <1>1, <1>3, <1>5, <2>1
  <2>3. ASSUME NEW e \in (start + 1)..d
        PROVE  DayOfMonth[e] # day
    <3>1. CASE e <= last
      <4>1. last - e \in 0..(p - 1) /\ last - e < p - day /\ e = last - (last - e)
        BY <1>1, <2>1, <3>1
      <4>2. DayOfMonth[last - (last - e)] = p - (last - e)
        BY <1>3, <4>1
      <4> QED
        BY <1>1, <4>1, <4>2
    <3>2. CASE e > last
      <4>1. d - e \in 0..(m - 1) /\ e = d - (d - e)
        BY <1>1, <1>5, <2>1, <3>2
      <4>2. DayOfMonth[d - (d - e)] = m - (d - e)
        BY <1>2, <4>1
      <4> QED
        BY <1>1, <1>7, <4>1, <4>2
    <3> QED
      BY <1>1, <2>1, <3>1, <3>2
  <2> QED
    BY <2>2, <2>3 DEF start
<1> QED
  BY <1>1, <1>6, <1>7

LEMMA YearBegins ==
  ASSUME NEW d \in BilledDays
  PROVE  /\ d - DayOfYear[d] \in Days /\ d - DayOfYear[d] <= d
         /\ DayOfYear[d - DayOfYear[d]] = 0
         /\ \A e \in (d - DayOfYear[d] + 1)..d : DayOfYear[e] # 0
<1> DEFINE y == DayOfYear[d]
<1>1. d \in Days /\ d \in Int /\ y \in 0..365
  BY DayFacts
<1>2. \A k \in 0..y : d - k \in Days /\ DayOfYear[d - k] = y - k
  BY <1>1, CalendarAssumption
<1> HIDE DEF y
<1>3. d - y \in Days /\ DayOfYear[d - y] = 0
  BY <1>1, <1>2
<1>4. ASSUME NEW e \in (d - y + 1)..d
      PROVE  DayOfYear[e] # 0
  <2>1. d - e \in 0..y /\ d - e < y /\ e = d - (d - e)
    BY <1>1
  <2>2. DayOfYear[d - (d - e)] = y - (d - e)
    BY <1>2, <2>1
  <2> QED
    BY <1>1, <2>1, <2>2
<1> QED
  BY <1>1, <1>3, <1>4 DEF y

LEMMA WeekBegins ==
  ASSUME NEW d \in BilledDays, NEW weekday \in 0..6
  PROVE  LET start == d - ((Weekday(d) - weekday) % 7)
         IN  /\ start \in Int /\ start <= d /\ Weekday(start) = weekday
             /\ \A e \in (start + 1)..d : Weekday(e) # weekday
<1> DEFINE r == (Weekday(d) - weekday) % 7
           start == d - r
<1>1. d \in Int
  BY DayFacts
<1>2. r \in 0..6 /\ r = (((d + 2) % 7) - weekday) % 7
  BY <1>1 DEF Weekday
<1>3. \A k \in 0..6 : (d - k + 2) % 7 = weekday <=> k = r
  BY <1>1, <1>2
<1> HIDE DEF r
<1>4. Weekday(start) = weekday
  BY <1>1, <1>2, <1>3 DEF Weekday
<1>5. ASSUME NEW e \in (start + 1)..d
      PROVE  Weekday(e) # weekday
  <2>1. d - e \in 0..6 /\ d - e # r /\ e + 2 = d - (d - e) + 2
    BY <1>1, <1>2
  <2> QED
    BY <1>3, <2>1 DEF Weekday
<1> QED
  BY <1>1, <1>2, <1>4, <1>5 DEF r

\* Multiples are n apart.
LEMMA Multiples ==
  ASSUME NEW n \in Nat \ {0}, NEW q \in Int, NEW e \in Int, n * q < e, e < n * (q + 1)
  PROVE  e % n # 0
<1> SUFFICES ASSUME e % n = 0
             PROVE  FALSE
  OBVIOUS
<1>1. e \div n \in Int /\ e = n * (e \div n) + (e % n)
  OBVIOUS
<1> DEFINE a == e \div n
<1>2. a \in Int /\ e = n * a
  BY <1>1
<1> HIDE DEF a
<1>3. a <= q => n * a <= n * q
  BY <1>2, BilledMore
<1>4. a >= q + 1 => n * (q + 1) <= n * a
  BY <1>2, BilledMore
<1>5. n * a \in Int /\ n * q \in Int /\ n * (q + 1) \in Int
  BY <1>2
<1> QED
  BY <1>2, <1>3, <1>4, <1>5

LEMMA DaysBegin ==
  ASSUME NEW d \in BilledDays, NEW n \in 1..365, NEW start, start = (d \div n) * n
  PROVE  /\ start \in Int /\ start <= d /\ start % n = 0
         /\ \A e \in (start + 1)..d : e % n # 0
<1>1. d \in Int /\ n \in Nat \ {0} /\ n > 0
  BY DayFacts
<1> DEFINE q == d \div n
<1>2. q \in Int /\ d = (n * q) + (d % n) /\ d % n \in 0..(n - 1)
  BY <1>1
<1> HIDE DEF q
<1>3. d = (n * q) + (d % n) /\ d % n \in 0..(n - 1)
  BY <1>2
<1>4. n * q = q * n /\ q * n \in Int /\ n * (q + 1) = n * q + n /\ n * q \in Int
  BY <1>1, <1>2
<1>5. (q * n) % n = 0
  BY <1>1, <1>2
<1>6. ASSUME NEW e \in (q * n + 1)..d
      PROVE  e % n # 0
  <2>1. n * q < e /\ e < n * (q + 1) /\ e \in Int
    BY <1>1, <1>3, <1>4
  <2> QED
    BY <1>1, <1>2, <2>1, Multiples
<1> QED
  BY <1>1, <1>2, <1>3, <1>4, <1>5, <1>6 DEF q

\* The period of a day begins on the latest boundary of its cycle.
LEMMA PeriodBegins ==
  ASSUME NEW d \in BilledDays, NEW s \in Settings
  PROVE  StartOf(d, s) \in Int /\ StartsLatest(d, s)
<1> DEFINE start == StartOf(d, s)
<1>0. /\ SettingsFromRaw(s) = s /\ s.cycle \in Cycles
      /\ s.day \in 1..28 /\ s.weekday \in 0..6 /\ s.days \in 1..365
      /\ d \in Int /\ d >= 31
  BY SettingFacts, DayFacts
<1>1. CASE s.cycle = "none"
  <2>1. start = 0
    BY <1>1 DEF StartOf
  <2> QED
    BY <1>0, <1>1, <2>1 DEF StartsLatest, IsBoundary
<1>2. CASE s.cycle = "daily"
  <2>1. start = d
    BY <1>2 DEF StartOf
  <2> QED
    BY <1>0, <1>2, <2>1 DEF StartsLatest, IsBoundary
<1>3. CASE s.cycle = "yearly"
  <2>1. start = d - DayOfYear[d]
    BY <1>3 DEF StartOf
  <2> QED
    BY <1>0, <1>3, <2>1, YearBegins DEF StartsLatest, IsBoundary, Days
<1>4. CASE s.cycle = "weekly"
  <2>1. start = d - ((Weekday(d) - s.weekday) % 7)
    BY <1>4 DEF StartOf
  <2> QED
    BY <1>0, <1>4, <2>1, WeekBegins DEF StartsLatest, IsBoundary
<1>5. CASE s.cycle = "days"
  <2>1. start = (d \div s.days) * s.days
    BY <1>5 DEF StartOf
  <2>2. /\ start \in Int /\ start <= d /\ start % s.days = 0
        /\ \A e \in (start + 1)..d : e % s.days # 0
    BY <1>0, <2>1, DaysBegin
  <2> HIDE DEF start
  <2>3. IsBoundary(start, s)
    BY <1>5, <2>2 DEF IsBoundary
  <2>4. \A e \in (start + 1)..d : ~IsBoundary(e, s)
    BY <1>5, <2>2 DEF IsBoundary
  <2> QED
    BY <1>0, <2>2, <2>3, <2>4, Zenon DEF StartsLatest, start
<1>6. CASE s.cycle = "monthly"
  <2>1. start = MonthStart(d, s.day)
    BY <1>6 DEF StartOf
  <2> QED
    BY <1>0, <1>6, <2>1, MonthBegins DEF StartsLatest, IsBoundary, Days
<1> QED
  BY <1>0, <1>1, <1>2, <1>3, <1>4, <1>5, <1>6 DEF Cycles

LEMMA KeyType ==
  ASSUME TypeOK, NEW s \in Settings
  PROVE  PeriodKey(Today, s) \in Keys
<1>1. StartOf(Today, s) \in Int
  BY TodayBilled, PeriodBegins
<1>2. Form(s) \in Cycles \cup {"date"} /\ s.days \in Nat
  BY DEF Form, Settings, CycleDays
<1> QED
  BY <1>1, <1>2 DEF PeriodKey, Keys

\* What survives a restart is in range again.
LEMMA RawInRange == ASSUME NEW s \in Settings PROVE SettingsFromRaw(s) \in Settings
BY DEF SettingsFromRaw, Settings, Cycles, ResetDays, Weekdays, CycleDays, Between, OrDefault

LEMMA Defaults == DefaultSettings \in Settings
BY DEF DefaultSettings, Settings, Cycles, ResetDays, Weekdays, CycleDays

-----------------------------------------------------------------------------
(* What the tracker's operations do to a copy *)

LEMMA CopyFields ==
  ASSUME NEW c \in Copies
  PROVE  /\ c.total \in Nat /\ c.period \in Nat /\ c.ts \in Nat \cup {Never}
         /\ c.power \in Wattages \cup {NoPower}
BY DEF Copies

\* A roll-over touches neither the total nor the sample.
LEMMA EnsureFacts ==
  ASSUME TypeOK, NEW c \in Copies, NEW s \in Settings
  PROVE  /\ EnsurePeriod(c, s) \in Copies
         /\ EnsurePeriod(c, s).total = c.total /\ EnsurePeriod(c, s).ts = c.ts
         /\ EnsurePeriod(c, s).power = c.power
BY KeyType DEF EnsurePeriod, Copies

LEMMA ResetFacts ==
  ASSUME TypeOK, NEW c \in Copies, NEW s \in Settings
  PROVE  /\ ResetPeriod(c, s) \in Copies /\ ResetTotal(c) \in Copies
         /\ ResetPeriod(c, s).ts = c.ts /\ ResetPeriod(c, s).total = c.total
         /\ ResetTotal(c).ts = c.ts /\ ResetTotal(c).total = 0
BY KeyType DEF ResetPeriod, ResetTotal, Copies

Span(c) == IF c.ts = Never THEN 0 ELSE c.ts

\* Counted no more than once, and not ahead of the clock.
Fits(c) == c.ts <= now /\ c.total <= MaxPower * Span(c)

LEMMA UpdateType ==
  ASSUME TypeOK, NEW c \in Copies, NEW watts \in Wattages \cup {NoPower}
  PROVE  Updated(c, watts) \in Copies
<1> DEFINE v == Sampled(c, watts)
           add == Delta(c, watts)
<1>1. v \in Copies
  <2>1. now \in Nat
    BY EnergyAssumption DEF TypeOK
  <2>2. watts \in Wattages \cup {NoPower} => [c EXCEPT !.power = watts, !.ts = now] \in Copies
    BY <2>1, Zenon DEF Copies
  <2> QED
    BY <2>2 DEF Sampled
<1>2. Updated(c, watts) = [v EXCEPT !.total = @ + add, !.period = @ + add]
  BY DEF Updated
<1>3. add \in Nat
  <2>1. now \in Nat /\ MaxPower \in Nat /\ c.ts \in Int
    BY EnergyAssumption, CopyFields DEF TypeOK, Never
  <2>2. CASE c.power # NoPower /\ 0 < now - c.ts
    <3>1. c.power \in Nat /\ now - c.ts \in Nat
      BY <2>1, <2>2, CopyFields DEF Wattages
    <3>2. c.power * (now - c.ts) \in Nat
      BY <3>1
    <3> QED
      BY <3>2 DEF Delta
  <2> QED
    BY <2>2 DEF Delta
<1> HIDE DEF v, add
<1>4. v.total + add \in Nat /\ v.period + add \in Nat
  BY <1>1, <1>3, CopyFields
<1>5. [v EXCEPT !.total = @ + add, !.period = @ + add] \in Copies
  BY <1>1, <1>4, Zenon DEF Copies
<1> QED
  BY <1>2, <1>5

\* An update adds at most what its stretch of time allows.
LEMMA UpdateFacts ==
  ASSUME TypeOK, NEW c \in Copies, c.ts <= now, NEW watts \in Wattages \cup {NoPower}
  PROVE  /\ Updated(c, watts) \in Copies
         /\ c.ts <= Updated(c, watts).ts /\ Updated(c, watts).ts <= now
         /\ Updated(c, watts).total >= c.total
         /\ Updated(c, watts).total - c.total = Delta(c, watts)
         /\ Updated(c, watts).total - c.total
              <= MaxPower * (Span(Updated(c, watts)) - Span(c))
         /\ Updated(c, watts).total - c.total
              <= MaxPower * (Updated(c, watts).ts - c.ts)
<1> DEFINE u == Updated(c, watts)
           n == now - c.ts
<1>1. now \in Nat /\ MaxPower \in Nat
  BY EnergyAssumption DEF TypeOK
<1> HIDE DEF u
<1>2. /\ u.ts = IF watts = NoPower THEN c.ts ELSE now
      /\ u.total = c.total + Delta(c, watts) 
  BY DEF u, Updated, Sampled, Copies
<1>3. CASE Delta(c, watts) = 0
  <2>1. u.ts - c.ts \in Nat /\ Span(u) - Span(c) \in Nat
    BY <1>1, <1>2, CopyFields DEF Span, Never
  <2>2. MaxPower * (u.ts - c.ts) \in Nat /\ MaxPower * (Span(u) - Span(c)) \in Nat
    BY <1>1, <2>1
  <2>3. c.ts <= u.ts /\ u.ts <= now
    BY <1>1, <1>2, CopyFields DEF Never
  <2>4. u.total = c.total /\ c.total \in Nat
    BY <1>2, <1>3, CopyFields
  <2>5. u \in Copies
    BY UpdateType DEF u
  <2> QED
    BY <1>2, <1>3, <2>2, <2>3, <2>4, <2>5 DEF u
<1>4. CASE Delta(c, watts) # 0
  <2>1. /\ c.ts # Never /\ c.power \in Wattages /\ watts # NoPower
        /\ Delta(c, watts) = c.power * n
    BY <1>4, CopyFields DEF Delta
  <2>2. c.ts \in Nat /\ n \in Nat /\ u.ts = now
    BY <1>1, <1>2, <2>1, CopyFields
  <2>3. c.power * n \in Nat /\ MaxPower * c.ts + c.power * n <= MaxPower * (c.ts + n)
    BY <1>1, <2>1, <2>2, BilledAtMost DEF Wattages
  <2>4. MaxPower * (c.ts + n) = MaxPower * c.ts + MaxPower * n /\ MaxPower * c.ts \in Nat
    BY <1>1, <2>2
  <2>5. Span(u) - Span(c) = n /\ u.ts - c.ts = n
    BY <1>1, <2>1, <2>2 DEF Span, Never
  <2>6. u \in Copies
    BY UpdateType DEF u
  <2>7. c.power * n <= MaxPower * n
    BY <1>1, <2>2, <2>3, <2>4
  <2> QED
    BY <1>1, <1>2, <2>1, <2>2, <2>3, <2>5, <2>6, <2>7, CopyFields DEF u
<1> QED
  BY <1>3, <1>4

LEMMA EmptyCopy == Blank \in Copies /\ NoSave \notin Saves
<1>1. NoKey \in Keys
  BY DEF NoKey, Keys
<1>2. Blank \in Copies
  BY <1>1 DEF Blank, Copies, NoPower, Never
<1>3. NoSave.age \notin Ages
  BY EnergyAssumption DEF NoSave, Ages, Never
<1> QED
  BY <1>2, <1>3 DEF Saves

-----------------------------------------------------------------------------
\* A save takes a snapshot and changes nothing else.
LEMMA SaveTypes ==
  ASSUME TypeOK, NEW s \in Savers, NEW force, Save(s, force), mem' \in Copies
  PROVE  io' \in [Savers -> Saves \cup {NoSave}] /\ overlapped' \in BOOLEAN
<1>1. [copy |-> mem', age |-> 0] \in Saves
  BY EnergyAssumption DEF Saves, Ages
<1>2. (overlapped \/ InFlight # {}) \in BOOLEAN
  OBVIOUS
<1> QED
  BY <1>1, <1>2 DEF Save, TypeOK

\* Every variable of the meter keeps its type: all arithmetic stays in range.
THEOREM EnergyTypes == Spec => []TypeOK
<1>1. Init => TypeOK
  <2> SUFFICES ASSUME Init PROVE TypeOK
    OBVIOUS
  <2>1. 0 \in Ages /\ 0 \in Wattages /\ 0 \in 0..Horizon /\ 0 \in 0..MaxEvents
    BY EnergyAssumption DEF Ages, Wattages
  <2>2. io \in [Savers -> Saves \cup {NoSave}] /\ orphans \subseteq Copies
    BY DEF Init
  <2>3. Clean \in [dirty : BOOLEAN, meta : BOOLEAN]
    BY DEF Clean
  <2> QED
    BY <2>1, <2>2, <2>3, EmptyCopy, Defaults DEF Init, TypeOK
<1>2. TypeOK /\ [Next]_vars => TypeOK'
  <2> SUFFICES ASSUME TypeOK, [Next]_vars PROVE TypeOK'
    OBVIOUS
  <2> USE EnergyAssumption DEF TypeOK, formVars, history
  <2>1. CASE Done \/ UNCHANGED vars
    BY <2>1 DEF Done, vars
  <2>2. CASE Tick
    <3>1. \A a \in Ages : Older(a) \in Ages
      BY DEF Ages, Older
    <3>2. io' \in [Savers -> Saves \cup {NoSave}]
      BY <2>2, <3>1 DEF Tick, Saves
    <3> QED
      BY <2>2, <3>1, <3>2 DEF Tick
  <2>3. ASSUME NEW watts \in Wattages \cup {NoPower}, NEW used \in Wattages \cup {NoPower},
               Accounts(watts, used)
        PROVE  TypeOK'
    <3>1. EnsurePeriod(mem, cfg) \in Copies
      BY EnsureFacts
    <3>2. mem' \in Copies
      BY <2>3, <3>1, UpdateType DEF Accounts
    <3>3. flags' \in [dirty : BOOLEAN, meta : BOOLEAN]
      BY <2>3, Zenon DEF Accounts
    <3>4. io' \in [Savers -> Saves \cup {NoSave}] /\ overlapped' \in BOOLEAN
      BY <2>3, <3>2, SaveTypes DEF Accounts, Savers
    <3>5. level' \in Wattages
      BY <2>3 DEF Accounts
    <3> QED
      BY <2>3, <3>2, <3>3, <3>4, <3>5 DEF Accounts
  <2>4. CASE Poll \/ OfflinePoll
    <3>1. 0 \in Wattages
      BY DEF Wattages
    <3>2. \A r \in Readings : /\ Billable(r) \in Wattages \cup {NoPower}
                            /\ Used(r) \in Wattages \cup {NoPower}
      BY <3>1 DEF Readings, Billable, Used
    <3> QED
      BY <2>3, <2>4, <3>1, <3>2 DEF Poll, OfflinePoll
  <2>5. CASE Press
    <3>1. mem' \in Copies
      BY <2>5, ResetFacts DEF Press
    <3>2. io' \in [Savers -> Saves \cup {NoSave}] /\ overlapped' \in BOOLEAN
      BY <2>5, <3>1, SaveTypes DEF Press, Savers
    <3>3. flags' \in [dirty : BOOLEAN, meta : BOOLEAN]
      BY <2>5 DEF Press
    <3> QED
      BY <2>5, <3>1, <3>2, <3>3 DEF Press
  <2>6. CASE SubmitDevice
    <3>1. mem' \in Copies
      BY <2>6, ResetFacts DEF SubmitDevice
    <3>2. io' \in [Savers -> Saves \cup {NoSave}] /\ overlapped' \in BOOLEAN
      BY <2>6, <3>1, SaveTypes DEF SubmitDevice, Savers
    <3>3. flags' \in [dirty : BOOLEAN, meta : BOOLEAN]
      BY <2>6 DEF SubmitDevice
    <3> QED
      BY <2>6, <3>1, <3>2, <3>3, OfferedAssumption DEF SubmitDevice
  <2>7. CASE DeviceFormSaved \/ SubmitHub \/ SettingsSaved
    BY <2>7, Defaults, OfferedAssumption
    DEF DeviceFormSaved, SubmitHub, SettingsSaved, FormCloses
  <2>8. CASE ApplySettings
    <3>1. mem' \in Copies
      BY <2>8, EnsureFacts DEF ApplySettings
    <3>2. flags' \in [dirty : BOOLEAN, meta : BOOLEAN]
      BY <2>8 DEF ApplySettings
    <3> QED
      BY <2>8, <3>1, <3>2, Defaults DEF ApplySettings, FormCloses
  <2>9. ASSUME NEW s \in Savers, SaveDone(s) PROVE TypeOK'
    <3>1. io[s] \in Saves
      BY <2>9 DEF SaveDone
    <3> QED
      BY <2>9, <3>1 DEF SaveDone, Saves, Clean
  <2>10. ASSUME NEW s \in Savers, SaveFails(s) PROVE TypeOK'
    BY <2>10, Defaults DEF SaveFails, FormCloses
  <2>11. CASE OrphanLands
    BY <2>11 DEF OrphanLands
  <2>12. CASE UnloadEntry
    <3>1. mem' \in Copies
      BY <2>12 DEF UnloadEntry
    <3>2. io' \in [Savers -> Saves \cup {NoSave}] /\ overlapped' \in BOOLEAN
      BY <2>12, <3>1, SaveTypes DEF UnloadEntry, Savers
    <3> QED
      BY <2>12, <3>1, <3>2 DEF UnloadEntry
  <2>13. CASE Unloaded
    <3>1. \A s \in InFlight : io[s].copy \in Copies
      BY DEF InFlight, Saves
    <3> QED
      BY <2>13, <3>1 DEF Unloaded, Unused, Clean, Ages
  <2>14. CASE LoadTracker
    <3>1. mem' \in Copies
      BY <2>14, EnsureFacts DEF LoadTracker
    <3> QED
      BY <2>14, <3>1 DEF LoadTracker, Ages
  <2>15. CASE Stop
    BY <2>15, RawInRange, Defaults DEF Stop, FormCloses, Unused, Clean, Ages
  <2> QED
    BY <2>1, <2>2, <2>4, <2>5, <2>6, <2>7, <2>8, <2>9, <2>10, <2>11, <2>12, <2>13, <2>14,
       <2>15
    DEF Next, Forms, Saving
<1> QED
  BY <1>1, <1>2, PTL DEF Spec

-----------------------------------------------------------------------------
(* The safety invariants, for every clock and any number of events *)

SavedCopies == {io[s].copy : s \in InFlight}
AllCopies == {mem, store} \cup orphans \cup SavedCopies

\* A copy is short of memory by no more than was used since it was taken.
Behind(c) == c.ts <= mem.ts /\ mem.total - c.total <= MaxPower * (mem.ts - c.ts)

\* Nothing but a load after an unloading leaves a second line of copies.
OneLine == /\ up = "down" => InFlight = {}
           /\ up # "down" /\ ~forked => orphans = {}

\* With one save at a time, the save in flight has the current total.
SavesCurrent ==
  ~overlapped => /\ \A s, t \in InFlight : s = t
                 /\ \A s \in InFlight : io[s].copy.total = mem.total

EInv == /\ \A c \in AllCopies : Fits(c)
        /\ OneLine /\ LossBounded /\ SavesCurrent /\ ChangesSaved
        /\ ~lossy => mem.power <= level

LEMMA FitsNotCountedTwice == (\A c \in AllCopies : Fits(c)) => NotCountedTwice
BY DEF NotCountedTwice, Fits, Span, AllCopies, SavedCopies

\* A save in flight holds memory or what was in flight before; it is made if
\* the total has changed.
LEMMA SaveFacts ==
  ASSUME TypeOK, NEW s \in Savers, io[s] = NoSave, NEW force, Save(s, force)
  PROVE  /\ \A t \in InFlight' \ {s} : t \in InFlight /\ io'[t] = io[t]
         /\ s \in InFlight' => io'[s].copy = mem'
         /\ SavedCopies' \subseteq SavedCopies \cup {mem'}
         /\ ~overlapped' /\ (force \/ flags'.dirty) => ~overlapped /\ InFlight' \subseteq {s}
         /\ ~overlapped' => ~overlapped
         /\ ~overlapped' /\ InFlight # {} => io' = io /\ ~flags'.dirty
<1>1. CASE UNCHANGED <<io, overlapped>> /\ ~(force \/ flags'.dirty)
  <2>1. InFlight' = InFlight /\ SavedCopies' = SavedCopies
    BY <1>1 DEF InFlight, SavedCopies
  <2>2. s \notin InFlight
    BY DEF InFlight
  <2> QED
    BY <1>1, <2>1, <2>2
<1>2. CASE io' = [io EXCEPT ![s] = [copy |-> mem', age |-> 0]]
           /\ overlapped' = (overlapped \/ InFlight # {})
  <2>1. \A t \in Savers : t # s => io'[t] = io[t]
    BY <1>2 DEF TypeOK
  <2>2. io'[s].copy = mem'
    BY <1>2 DEF TypeOK
  <2>3. \A t \in InFlight' \ {s} : t \in InFlight /\ io'[t] = io[t]
    BY <2>1 DEF InFlight
  <2>4. SavedCopies' \subseteq SavedCopies \cup {mem'}
    BY <2>2, <2>3 DEF SavedCopies
  <2>5. ~overlapped' => ~overlapped /\ InFlight = {} /\ InFlight' \subseteq {s}
    BY <1>2, <2>3
  <2> QED
    BY <2>2, <2>3, <2>4, <2>5
<1> QED
  BY <1>1, <1>2 DEF Save

\* A step that keeps memory's sample and total, or raises them by an update.
Grows == /\ mem.ts <= mem'.ts
         /\ mem'.total - mem.total <= MaxPower * (mem'.ts - mem.ts)

LEMMA BehindStays ==
  ASSUME TypeOK, TypeOK', NEW c \in Copies, Behind(c), Grows
  PROVE  Behind(c)'
<1>1. mem.ts \in Int /\ mem'.ts \in Int /\ c.ts \in Int /\ MaxPower \in Nat
       /\ mem.total \in Int /\ mem'.total \in Int /\ c.total \in Int
  BY CopyFields, EnergyAssumption DEF TypeOK, Never
<1>2. MaxPower * (mem'.ts - c.ts) = MaxPower * (mem'.ts - mem.ts) + MaxPower * (mem.ts - c.ts)
  BY <1>1
<1>3. MaxPower * (mem'.ts - mem.ts) \in Int /\ MaxPower * (mem.ts - c.ts) \in Int
  BY <1>1
<1> QED
  BY <1>1, <1>2, <1>3 DEF Behind, Grows

\* Memory is not behind itself.
LEMMA BehindSelf ==
  ASSUME NEW c \in Copies
  PROVE  c.ts <= c.ts /\ c.total - c.total <= MaxPower * (c.ts - c.ts)
<1>1. c.ts \in Int /\ c.total \in Int /\ MaxPower \in Nat
  BY CopyFields, EnergyAssumption DEF Never
<1>2. MaxPower * (c.ts - c.ts) = 0
  BY <1>1
<1> QED
  BY <1>1, <1>2

\* Steps of a loaded tracker that save: what they leave of EInv.
LEMMA SavingStep ==
  ASSUME TypeOK, TypeOK', EInv, NEW s \in Savers, io[s] = NoSave, NEW force, Save(s, force),
         up # "down", up' # "down", Grows, Fits(mem)', mem'.total # mem.total => flags'.dirty,
         flags.dirty => flags'.dirty,
         UNCHANGED <<now, orphans, store, forked, lossy>>,
         ~lossy => mem'.power <= level'
  PROVE  EInv'
<1>1. \A c \in AllCopies' : Fits(c)'
  <2>1. AllCopies' \subseteq AllCopies \cup {mem'}
    BY SaveFacts DEF AllCopies
  <2>2. \A c \in AllCopies : Fits(c)'
    BY DEF EInv, Fits, Span
  <2> QED
    BY <2>1, <2>2 DEF Fits, Span
<1>2. OneLine'
  BY DEF EInv, OneLine
<1>3. LossBounded'
  <2>1. Behind(mem)'
    BY BehindSelf DEF TypeOK, Behind
  <2>2. ASSUME NEW c \in {store} \cup SavedCopies, ~forked PROVE Behind(c)'
    <3>1. c \in Copies
      BY <2>2 DEF TypeOK, SavedCopies, InFlight, Saves
    <3>2. Behind(c)
      BY <2>2 DEF EInv, LossBounded, Behind, SavedCopies
    <3> QED
      BY <3>1, <3>2, BehindStays
  <2>3. {store'} \cup SavedCopies' \subseteq {store} \cup SavedCopies \cup {mem'}
    BY SaveFacts
  <2> QED
    BY <2>1, <2>2, <2>3 DEF LossBounded, Behind, SavedCopies
<1>4. SavesCurrent'
  <2> SUFFICES ASSUME ~overlapped' PROVE SavesCurrent'
    BY DEF SavesCurrent
  <2>1. CASE InFlight # {}
    <3>1. io' = io /\ ~overlapped /\ mem'.total = mem.total
      BY <2>1, SaveFacts
    <3>2. InFlight' = InFlight
      BY <3>1 DEF InFlight
    <3> QED
      BY <3>1, <3>2 DEF EInv, SavesCurrent
  <2>2. CASE InFlight = {}
    BY <2>2, SaveFacts DEF SavesCurrent
  <2> QED
    BY <2>1, <2>2
<1>5. ChangesSaved'
  BY SaveFacts DEF EInv, ChangesSaved
<1> QED
  BY <1>1, <1>2, <1>3, <1>4, <1>5 DEF EInv

\* Steps that leave memory's sample and total, and every copy, as they are.
LEMMA QuietStep ==
  ASSUME TypeOK, TypeOK', EInv,
         mem'.total = mem.total, mem'.ts = mem.ts, mem'.power = mem.power,
         flags.dirty => flags'.dirty,
         UNCHANGED <<now, up, orphans, store, io, forked, lossy, overlapped, level>>
  PROVE  EInv'
<1>1. SavedCopies' = SavedCopies /\ InFlight' = InFlight
  BY DEF SavedCopies, InFlight
<1>2. \A c \in AllCopies' : Fits(c)'
  BY <1>1 DEF EInv, AllCopies, Fits, Span
<1>3. LossBounded'
  BY <1>1 DEF EInv, LossBounded, SavedCopies
<1>4. OneLine' /\ SavesCurrent' /\ ChangesSaved'
  BY <1>1 DEF EInv, OneLine, SavesCurrent, ChangesSaved
<1> QED
  BY <1>2, <1>3, <1>4 DEF EInv

LEMMA SameMemory ==
  ASSUME TypeOK, mem'.ts = mem.ts, mem'.total <= mem.total, mem'.total \in Nat
  PROVE  Grows
<1>1. mem.ts \in Int /\ mem.total \in Int /\ MaxPower \in Nat
  BY CopyFields, EnergyAssumption DEF TypeOK, Never
<1>2. MaxPower * (mem'.ts - mem.ts) = 0
  BY <1>1
<1> QED
  BY <1>1, <1>2 DEF Grows

LEMMA EInvInit == Init => EInv
<1> SUFFICES ASSUME Init PROVE EInv
  OBVIOUS
<1>1. InFlight = {} /\ SavedCopies = {} /\ AllCopies = {Blank}
  BY DEF Init, InFlight, SavedCopies, AllCopies
<1>2. Fits(Blank)
  BY EnergyAssumption DEF Fits, Span, Blank, Never, Init
<1>3. mem.power <= level
  BY DEF Init, Blank, NoPower
<1> QED
  BY <1>1, <1>2, <1>3 DEF Init, EInv, OneLine, LossBounded, SavesCurrent, ChangesSaved

LEMMA AccountsStep ==
  ASSUME TypeOK, TypeOK', EInv, NEW watts \in Wattages \cup {NoPower}, Accounts(watts, watts)
  PROVE  EInv'
<1> DEFINE ensured == EnsurePeriod(mem, cfg)
<1>1. /\ ensured \in Copies /\ ensured.total = mem.total /\ ensured.ts = mem.ts
      /\ ensured.power = mem.power
  BY EnsureFacts DEF TypeOK
<1>2. mem.ts <= now /\ mem.total <= MaxPower * Span(mem)
  BY DEF EInv, AllCopies, Fits
<1>3. mem' = Updated(ensured, watts)
  BY DEF Accounts
<1> HIDE DEF ensured
<1>4. Grows /\ mem'.ts <= now /\ mem'.total - mem.total <= MaxPower * (Span(mem') - Span(mem))
  BY <1>1, <1>2, <1>3, UpdateFacts DEF Grows, Span
<1>5. Fits(mem)'
  <2>1. Span(mem) \in Nat /\ Span(mem') \in Nat /\ MaxPower \in Nat
         /\ mem.total \in Nat /\ mem'.total \in Nat
    BY CopyFields, EnergyAssumption DEF TypeOK, Span, Never
  <2>2. MaxPower * Span(mem') = MaxPower * Span(mem) + MaxPower * (Span(mem') - Span(mem))
    BY <2>1
  <2>3. MaxPower * Span(mem) \in Int /\ MaxPower * (Span(mem') - Span(mem)) \in Int
    BY <2>1
  <2>4. mem'.total <= MaxPower * Span(mem')
    BY <1>2, <1>4, <2>1, <2>2, <2>3
  <2> QED
    BY <1>4, <2>4 DEF Fits, Span, Accounts
<1>6. mem'.total # mem.total => flags'.dirty
  <2>1. mem'.total - mem.total = Delta(ensured, watts) /\ mem'.total >= mem.total
    BY <1>1, <1>2, <1>3, UpdateFacts
  <2>2. mem'.total \in Nat /\ mem.total \in Nat
    BY CopyFields DEF TypeOK
  <2>3. Delta(ensured, watts) > 0 => flags'.dirty
    BY DEF Accounts, ensured
  <2> QED
    BY <2>1, <2>2, <2>3
<1>7. ~lossy => mem'.power <= level'
  <2>1. mem'.power = IF watts = NoPower THEN mem.power ELSE watts
    BY <1>1, <1>3 DEF Updated, Sampled, Copies
  <2>2. level' = IF watts = NoPower THEN level ELSE watts
    BY DEF Accounts
  <2>3. watts \in Int
    BY EnergyAssumption DEF Wattages, NoPower
  <2> QED
    BY <2>1, <2>2, <2>3 DEF EInv
<1>8. flags.dirty => flags'.dirty
  BY DEF Accounts
<1>9. io["poll"] = NoSave /\ Save("poll", FALSE) /\ up # "down" /\ up' # "down" /\ "poll" \in Savers
       /\ UNCHANGED <<now, orphans, store, forked, lossy>>
  BY DEF Accounts, Savers
<1> QED
  BY <1>4, <1>5, <1>6, <1>7, <1>8, <1>9, SavingStep

LEMMA ResetStep ==
  ASSUME TypeOK, TypeOK', EInv, NEW s \in Savers, io[s] = NoSave, NEW force, Save(s, force),
         up # "down", up' # "down", mem'.ts = mem.ts, mem'.power = mem.power,
         mem'.total = mem.total \/ (mem'.total = 0 /\ flags'.dirty),
         flags.dirty => flags'.dirty,
         UNCHANGED <<now, orphans, store, forked, lossy, level>>
  PROVE  EInv'
<1>1. mem.total \in Nat /\ mem'.total \in Nat
  BY CopyFields DEF TypeOK
<1>2. Grows
  BY <1>1, SameMemory
<1>3. Fits(mem)'
  <2>1. Fits(mem)
    BY DEF EInv, AllCopies
  <2>2. Span(mem) \in Nat /\ MaxPower \in Nat /\ MaxPower * Span(mem) \in Nat
    BY CopyFields, EnergyAssumption DEF TypeOK, Span, Never
  <2> QED
    BY <1>1, <2>1, <2>2 DEF Fits, Span
<1>4. ~lossy => mem'.power <= level'
  BY DEF EInv
<1> QED
  BY <1>2, <1>3, <1>4, SavingStep

\* The form waits for its save, and so does unloading.
Lone == /\ form # "resets" => io["form"] = NoSave
        /\ up # "unloading" => io["unload"] = NoSave

LEMMA LoneStep == TypeOK /\ Lone /\ [Next]_vars => Lone'
<1> SUFFICES ASSUME TypeOK, Lone, [Next]_vars PROVE Lone'
  OBVIOUS
<1> USE DEF Lone, formVars, history
<1>1. ASSUME NEW s \in Savers, NEW force, Save(s, force)
      PROVE  \A t \in Savers \ {s} : io'[t] = io[t]
  BY <1>1 DEF Save, TypeOK
<1>2. "form" \in Savers /\ "unload" \in Savers /\ "poll" \in Savers /\ "button" \in Savers
  BY DEF Savers
<1>3. CASE Done \/ Tick \/ UNCHANGED vars
  BY <1>2, <1>3 DEF Done, vars, Tick
<1>4. ASSUME NEW watts, NEW used, Accounts(watts, used) PROVE Lone'
  BY <1>1, <1>2, <1>4 DEF Accounts
<1>5. CASE Press \/ UnloadEntry \/ SubmitDevice
  BY <1>1, <1>2, <1>5 DEF Press, UnloadEntry, SubmitDevice
<1>6. CASE DeviceFormSaved \/ SubmitHub \/ SettingsSaved \/ ApplySettings \/ OrphanLands
  BY <1>6 DEF DeviceFormSaved, SubmitHub, SettingsSaved, ApplySettings, OrphanLands, FormCloses
<1>7. ASSUME NEW s \in Savers, SaveDone(s) \/ SaveFails(s) PROVE Lone'
  <2>1. io' = [io EXCEPT ![s] = NoSave] /\ up' = up
    BY <1>7 DEF SaveDone, SaveFails
  <2>2. \A t \in Savers : io'[t] = io[t] \/ io'[t] = NoSave
    BY <2>1 DEF TypeOK
  <2>3. form' = form \/ form' = "idle"
    BY <1>7 DEF SaveDone, SaveFails, FormCloses
  <2>4. form = "idle" => form' = "idle"
    BY <1>7 DEF SaveDone, SaveFails, FormCloses
  <2>5. form' # "resets" => io'["form"] = NoSave
    <3>1. CASE form' = form
      BY <1>2, <2>2, <3>1
    <3>2. CASE form' # form
      <4>1. s = "form"
        BY <1>7, <3>2 DEF SaveDone, SaveFails
      <4> QED
        BY <1>2, <2>1, <4>1 DEF TypeOK
    <3> QED
      BY <3>1, <3>2
  <2> QED
    BY <1>2, <2>1, <2>2, <2>5
<1>8. CASE Unloaded \/ LoadTracker \/ Stop
  <2>1. CASE LoadTracker
    BY <2>1 DEF LoadTracker
  <2> QED
    BY <1>2, <1>8, <2>1 DEF Unloaded, Stop
<1> QED
  BY <1>3, <1>4, <1>5, <1>6, <1>7, <1>8 DEF Next, Forms, Saving, Poll, OfflinePoll

LEMMA EInvStep == TypeOK /\ TypeOK' /\ Lone /\ EInv /\ [Next]_vars => EInv'
<1> SUFFICES ASSUME TypeOK, TypeOK', Lone, EInv, [Next]_vars PROVE EInv'
  OBVIOUS
<1> USE DEF formVars, history
<1>1. CASE Done \/ UNCHANGED vars
  BY <1>1, QuietStep DEF Done, vars
<1>2. CASE Tick
  <2>1. InFlight' = InFlight /\ \A s \in InFlight : io'[s].copy = io[s].copy
    <3>1. \A s \in Savers : io[s] # NoSave =>
            io'[s].copy = io[s].copy /\ io'[s].age \in Ages
      BY <1>2, EnergyAssumption DEF Tick, TypeOK, Saves, Ages, Older
    <3>2. \A s \in Savers : io[s] = NoSave => io'[s] = NoSave
      BY <1>2 DEF Tick
    <3>3. NoSave.age \notin Ages
      BY DEF NoSave, Ages, Never
    <3> QED
      BY <3>1, <3>2, <3>3 DEF InFlight
  <2>2. SavedCopies' = SavedCopies
    BY <2>1 DEF SavedCopies
  <2>3. now' = now + 1 /\ now \in Int /\ \A c \in AllCopies : c.ts \in Int
    BY <1>2, EnergyAssumption, CopyFields
    DEF Tick, TypeOK, AllCopies, SavedCopies, InFlight, Saves, Never
  <2>4. \A c \in AllCopies' : Fits(c)'
    BY <1>2, <2>2, <2>3 DEF Tick, EInv, AllCopies, Fits, Span
  <2>5. OneLine' /\ LossBounded' /\ SavesCurrent' /\ ChangesSaved'
    BY <1>2, <2>1, <2>2 DEF Tick, EInv, OneLine, LossBounded, SavedCopies, SavesCurrent, ChangesSaved
  <2> QED
    BY <1>2, <2>4, <2>5 DEF Tick, EInv
<1>3. CASE Poll \/ OfflinePoll
  <2>1. \A r \in Readings : Used(r) = Billable(r) /\ Billable(r) \in Wattages \cup {NoPower}
    BY EnergyAssumption DEF Used, Billable, Readings, Wattages
  <2>2. 0 \in Wattages
    BY EnergyAssumption DEF Wattages
  <2> QED
    BY <1>3, <2>1, <2>2, AccountsStep DEF Poll, OfflinePoll
<1>4. CASE Press
  <2>1. /\ mem'.ts = mem.ts /\ mem'.power = mem.power
        /\ mem'.total = mem.total \/ mem'.total = 0
    BY <1>4 DEF Press, ResetPeriod, ResetTotal, TypeOK, Copies
  <2>2. flags'.dirty /\ "button" \in Savers
    BY <1>4 DEF Press, TypeOK, Savers
  <2> QED
    BY <1>4, <2>1, <2>2, ResetStep DEF Press
<1>5. CASE SubmitDevice
  <2>1. io["form"] = NoSave /\ "form" \in Savers
    BY <1>5 DEF SubmitDevice, Lone, Savers
  <2>2. PICK period \in BOOLEAN, total \in BOOLEAN :
          /\ mem' = LET reset == IF period THEN ResetPeriod(mem, settings) ELSE mem
                    IN  IF total THEN ResetTotal(reset) ELSE reset
          /\ flags' = [flags EXCEPT !.dirty = @ \/ period \/ total]
    BY <1>5 DEF SubmitDevice
  <2>3. mem'.ts = mem.ts /\ mem'.power = mem.power
         /\ mem'.total = IF total THEN 0 ELSE mem.total
    BY <2>2 DEF ResetPeriod, ResetTotal, TypeOK, Copies
  <2>4. flags'.dirty = (flags.dirty \/ period \/ total)
    BY <2>2 DEF TypeOK
  <2>5. mem'.total = mem.total \/ (mem'.total = 0 /\ flags'.dirty)
    BY <2>3, <2>4
  <2>6. Save("form", FALSE) /\ up # "down" /\ up' # "down"
         /\ UNCHANGED <<now, orphans, store, forked, lossy, level>>
    BY <1>5 DEF SubmitDevice
  <2> QED
    BY <2>1, <2>3, <2>4, <2>5, <2>6, ResetStep
<1>6. CASE DeviceFormSaved \/ SubmitHub \/ SettingsSaved
  BY <1>6, QuietStep DEF DeviceFormSaved, SubmitHub, SettingsSaved, FormCloses
<1>7. CASE ApplySettings
  <2>1. mem'.total = mem.total /\ mem'.ts = mem.ts /\ mem'.power = mem.power
    <3>1. entered \in Settings /\ mem \in Copies
      BY DEF TypeOK
    <3> QED
      BY <1>7, <3>1, EnsureFacts DEF ApplySettings
  <2>2. flags.dirty => flags'.dirty
    BY <1>7 DEF ApplySettings, TypeOK
  <2> QED
    BY <1>7, <2>1, <2>2, QuietStep DEF ApplySettings
<1>8. ASSUME NEW s \in Savers, SaveDone(s) PROVE EInv'
  <2>1. s \in InFlight /\ io[s] \in Saves /\ store' = io[s].copy /\ store' \in SavedCopies
    BY <1>8 DEF SaveDone, InFlight, TypeOK, SavedCopies
  <2>2. InFlight' = InFlight \ {s} /\ \A t \in InFlight' : io'[t] = io[t]
    BY <1>8 DEF SaveDone, InFlight, TypeOK
  <2>3. SavedCopies' \subseteq SavedCopies
    BY <2>2 DEF SavedCopies
  <2>4. \A c \in AllCopies' : Fits(c)'
    BY <1>8, <2>1, <2>3 DEF SaveDone, EInv, AllCopies, Fits, Span
  <2>5. LossBounded'
    BY <1>8, <2>1, <2>3 DEF SaveDone, EInv, LossBounded, SavedCopies
  <2>6. OneLine' /\ SavesCurrent'
    BY <1>8, <2>2 DEF SaveDone, EInv, OneLine, SavesCurrent
  <2>7. ChangesSaved'
    BY <1>8, <2>1 DEF SaveDone, EInv, SavesCurrent, ChangesSaved
  <2> QED
    BY <1>8, <2>4, <2>5, <2>6, <2>7 DEF SaveDone, EInv
<1>9. ASSUME NEW s \in Savers, SaveFails(s) PROVE EInv'
  <2>2. InFlight' = InFlight \ {s} /\ \A t \in InFlight' : io'[t] = io[t]
    BY <1>9 DEF SaveFails, InFlight, TypeOK
  <2>3. SavedCopies' \subseteq SavedCopies
    BY <2>2 DEF SavedCopies
  <2>4. \A c \in AllCopies' : Fits(c)'
    BY <1>9, <2>3 DEF SaveFails, EInv, AllCopies, Fits, Span
  <2>5. LossBounded'
    BY <1>9, <2>3 DEF SaveFails, EInv, LossBounded, SavedCopies
  <2>6. OneLine' /\ SavesCurrent' /\ ChangesSaved'
    BY <1>9, <2>2 DEF SaveFails, EInv, OneLine, SavesCurrent, ChangesSaved
  <2> QED
    BY <1>9, <2>4, <2>5, <2>6 DEF SaveFails, EInv
<1>10. CASE OrphanLands
  <2>1. orphans # {} /\ store' \in orphans /\ orphans' \subseteq orphans
         /\ InFlight' = InFlight /\ SavedCopies' = SavedCopies
    BY <1>10 DEF OrphanLands, InFlight, SavedCopies
  <2>2. \A c \in AllCopies' : Fits(c)'
    BY <1>10, <2>1 DEF OrphanLands, EInv, AllCopies, Fits, Span
  <2>3. up = "down" \/ forked
    BY <2>1 DEF EInv, OneLine
  <2>4. OneLine' /\ LossBounded' /\ SavesCurrent' /\ ChangesSaved'
    BY <1>10, <2>1, <2>3
    DEF OrphanLands, EInv, OneLine, LossBounded, SavesCurrent, ChangesSaved
  <2> QED
    BY <1>10, <2>2, <2>4 DEF OrphanLands, EInv
<1>11. CASE UnloadEntry
  <2>1. io["unload"] = NoSave /\ "unload" \in Savers
    BY <1>11 DEF UnloadEntry, Lone, Savers
  <2> QED
    BY <1>11, <2>1, ResetStep DEF UnloadEntry
<1>12. CASE Unloaded
  <2>1. InFlight' = {} /\ SavedCopies' = {} /\ orphans' = orphans \cup SavedCopies /\ up' = "down"
    BY <1>12 DEF Unloaded, InFlight, SavedCopies
  <2>2. \A c \in AllCopies' : Fits(c)'
    BY <1>12, <2>1 DEF Unloaded, EInv, AllCopies, Fits, Span
  <2> QED
    BY <1>12, <2>1, <2>2
    DEF Unloaded, EInv, OneLine, LossBounded, SavesCurrent, ChangesSaved
<1>13. CASE LoadTracker
  <2>1. mem'.total = store.total /\ mem'.ts = store.ts /\ mem'.power = store.power
    BY <1>13, EnsureFacts DEF LoadTracker, TypeOK
  <2>2. InFlight = {} /\ InFlight' = {} /\ SavedCopies' = {}
    BY <1>13 DEF LoadTracker, EInv, OneLine, InFlight, SavedCopies
  <2>3. \A c \in AllCopies' : Fits(c)'
    BY <1>13, <2>1, <2>2 DEF LoadTracker, EInv, AllCopies, Fits, Span
  <2>4. OneLine' /\ SavesCurrent' /\ ChangesSaved'
    BY <1>13, <2>1, <2>2 DEF LoadTracker, EInv, OneLine, SavesCurrent, ChangesSaved
  <2>5. LossBounded'
    <3>1. store.ts <= mem'.ts /\ mem'.total - store.total <= MaxPower * (mem'.ts - store.ts)
      BY <2>1, BehindSelf DEF TypeOK
    <3> QED
      BY <1>13, <2>2, <3>1 DEF LoadTracker, LossBounded
  <2>6. ~lossy' => mem'.power <= level'
    <3>1. store.power \in Int /\ level \in Nat
      BY CopyFields, EnergyAssumption DEF TypeOK, Wattages, NoPower
    <3>2. ~lossy' => /\ ~lossy
                     /\ ~(store.power > 0 /\ <<store.ts, store.power>> # <<mem.ts, mem.power>>)
      BY <1>13 DEF LoadTracker
    <3>3. level' = level
      BY <1>13 DEF LoadTracker
    <3>4. ~lossy => mem.power <= level
      BY DEF EInv
    <3> QED
      BY <2>1, <3>1, <3>2, <3>3, <3>4
  <2> QED
    BY <2>3, <2>4, <2>5, <2>6 DEF EInv
<1>14. CASE Stop
  <2>1. InFlight' = {} /\ SavedCopies' = {} /\ orphans' = {} /\ up' = "down"
    BY <1>14 DEF Stop, InFlight, SavedCopies
  <2>2. \A c \in AllCopies' : Fits(c)'
    BY <1>14, <2>1 DEF Stop, EInv, AllCopies, Fits, Span
  <2> QED
    BY <1>14, <2>1, <2>2
    DEF Stop, EInv, OneLine, LossBounded, SavesCurrent, ChangesSaved
<1> QED
  BY <1>1, <1>2, <1>3, <1>4, <1>5, <1>6, <1>7, <1>8, <1>9, <1>10, <1>11, <1>12, <1>13, <1>14
  DEF Next, Forms, Saving

-----------------------------------------------------------------------------
(* The theorems *)

LEMMA EnergyInvariant == Spec => [](TypeOK /\ Lone /\ EInv)
<1>1. Init => Lone
  BY DEF Init, Lone, Savers
<1> QED
  BY <1>1, EnergyTypes, EInvInit, EInvStep, LoneStep, PTL DEF Spec

\* No copy of the counters, in memory, on disk or on its way there, has billed
\* a stretch of time twice (energy.py 304-328).
THEOREM NothingTwice == Spec => []NotCountedTwice
<1>1. EInv => NotCountedTwice
  BY FitsNotCountedTwice DEF EInv
<1> QED
  BY <1>1, EnergyInvariant, PTL

\* A restart loses at most what was used since the surviving copy was taken
\* (energy.py 231-240).
THEOREM LossIsBounded == Spec => []LossBounded
<1>1. EInv => LossBounded
  BY DEF EInv
<1> QED
  BY <1>1, EnergyInvariant, PTL

\* A changed total stays marked until it is on disk (energy.py 347-364).
THEOREM ChangesAreSaved == Spec => []ChangesSaved
<1>1. EInv => ChangesSaved
  BY DEF EInv
<1> QED
  BY <1>1, EnergyInvariant, PTL

\* What a poll adds is no more than the wattage seen allows.
LEMMA AddsAtMost ==
  ASSUME TypeOK, EInv, ~lossy, NEW watts \in Wattages \cup {NoPower}
  PROVE  Delta(mem, watts) <= level * (now - mem.ts) /\ 0 <= level * (now - mem.ts)
<1> DEFINE dt == now - mem.ts
<1>1. mem.ts \in Int /\ now \in Int /\ mem.ts <= now /\ level \in Nat
  BY CopyFields, EnergyAssumption DEF TypeOK, EInv, AllCopies, Fits, Wattages, Never
<1>2. dt \in Nat
  BY <1>1
<1>3. level * dt \in Nat
  BY <1>1, <1>2
<1>4. CASE Delta(mem, watts) = 0
  BY <1>1, <1>3, <1>4
<1>5. CASE Delta(mem, watts) # 0
  <2>1. mem.power \in 0..level /\ Delta(mem, watts) = mem.power * dt
    BY <1>1, <1>5, CopyFields DEF Delta, TypeOK, EInv, Wattages
  <2>2. \A w \in 0..level, n \in Nat : level * n = w * n + (level - w) * n /\ (level - w) * n \in Nat
                                       /\ w * n \in Nat
    BY <1>1
  <2>3. mem.power * dt <= level * dt
    BY <1>2, <2>1, <2>2
  <2> QED
    BY <1>3, <2>1, <2>3
<1> QED
  BY <1>4, <1>5

\* Unless a save was lost, a poll bills no more than the latest reading allows
\* for the time since the sample before (energy.py 112-135, 304-320).
THEOREM NoOverbilling == Spec => NotOverbilled
<1>1. ASSUME TypeOK, EInv, [Next]_vars, up # "down", up' # "down", ~lossy
      PROVE  mem'.total - mem.total <= level * (now - mem.ts)
  <2> USE <1>1 DEF formVars, history
  <2>1. mem.total \in Int /\ 0 <= level * (now - mem.ts) /\ level * (now - mem.ts) \in Int
    BY AddsAtMost, CopyFields, EnergyAssumption DEF TypeOK, Wattages, Never
  <2>2. mem \in Copies /\ settings \in Settings /\ cfg \in Settings /\ entered \in Settings
    BY DEF TypeOK
  <2>3. ASSUME NEW watts \in Wattages \cup {NoPower}, NEW used, Accounts(watts, used)
        PROVE  mem'.total - mem.total <= level * (now - mem.ts)
    <3> DEFINE c == EnsurePeriod(mem, cfg)
    <3>1. mem' = Updated(c, watts)
      BY <2>3 DEF Accounts
    <3>2. c \in Copies /\ c.total = mem.total /\ c.ts = mem.ts /\ c.power = mem.power
      BY <2>2, EnsureFacts
    <3>3. c.ts <= now
      BY <3>2 DEF EInv, AllCopies, Fits
    <3>4. mem'.total - c.total = Delta(c, watts)
      BY <3>1, <3>2, <3>3, UpdateFacts
    <3>5. Delta(c, watts) = Delta(mem, watts)
      BY <3>2 DEF Delta
    <3> QED
      BY <3>2, <3>4, <3>5, AddsAtMost
  <2>4. CASE Poll \/ OfflinePoll
    <3>1. \A r \in Readings : Billable(r) \in Wattages \cup {NoPower}
      BY EnergyAssumption DEF Billable, Readings, Wattages
    <3>2. 0 \in Wattages
      BY EnergyAssumption DEF Wattages
    <3> QED
      BY <2>3, <2>4, <3>1, <3>2 DEF Poll, OfflinePoll
  <2>5. CASE Press \/ SubmitDevice
    <3>1. mem'.total = mem.total \/ mem'.total = 0
      BY <2>2, <2>5 DEF Press, SubmitDevice, ResetPeriod, ResetTotal, Copies
    <3>2. mem.total \in Nat
      BY <2>2, CopyFields
    <3> QED
      BY <2>1, <3>1, <3>2
  <2>6. CASE ApplySettings
    <3>1. mem'.total = mem.total
      BY <2>2, <2>6, EnsureFacts DEF ApplySettings
    <3> QED
      BY <2>1, <3>1
  <2>7. CASE UNCHANGED mem
    BY <2>1, <2>7
  <2>8. CASE DeviceFormSaved \/ SubmitHub \/ SettingsSaved \/ Saving \/ Done \/ Tick
    BY <2>7, <2>8
    DEF DeviceFormSaved, SubmitHub, SettingsSaved, Saving, OrphanLands, SaveDone, SaveFails,
        Done, vars, Tick
  <2>9. CASE UnloadEntry \/ Unloaded \/ LoadTracker \/ Stop
    BY <2>7, <2>9 DEF UnloadEntry, Unloaded, LoadTracker, Stop
  <2> QED
    BY <2>4, <2>5, <2>6, <2>7, <2>8, <2>9 DEF Next, Forms, vars
<1>2. TypeOK /\ EInv /\ [Next]_vars
        => [up # "down" /\ up' # "down" /\ ~lossy
              => mem'.total - mem.total <= level * (now - mem.ts)]_vars
  BY <1>1
<1> QED
  BY <1>2, EnergyInvariant, PTL DEF Spec, NotOverbilled
-----------------------------------------------------------------------------
(* The billing period, for any calendar *)

\* A copy's period has begun; what it counts was used since, but for one gap.
Owned(c) ==
  /\ c.key.start <= Today
  /\ c.period # 0 =>
       /\ c.key # NoKey /\ StartTick(c.key) <= c.ts
       /\ c.period <= MaxPower * (MaxGap + (c.ts - StartTick(c.key)))

PeriodInv == \A c \in AllCopies : Owned(c)

\* A period that is renewed today began before now.
LEMMA KeyBegun ==
  ASSUME TypeOK, NEW s \in Settings
  PROVE  /\ PeriodKey(Today, s) # NoKey /\ PeriodKey(Today, s).start <= Today
         /\ StartTick(PeriodKey(Today, s)) <= now
<1> DEFINE k == PeriodKey(Today, s)
<1>1. k.start = StartOf(Today, s) /\ k.form = Form(s)
  BY DEF PeriodKey
<1>2. Form(s) # "none yet"
  BY DEF Form, Settings, Cycles
<1>3. StartsLatest(Today, s) /\ SettingsFromRaw(s) = s /\ StartOf(Today, s) \in Int
  BY TodayBilled, PeriodBegins, SettingFacts
<1> HIDE DEF k
<1>4. k # NoKey /\ k.start <= Today /\ k.start \in Int
  <2>1. NoKey.form = "none yet"
    BY DEF NoKey
  <2>2. StartOf(Today, s) <= Today
    BY <1>3 DEF StartsLatest
  <2> QED
    BY <1>1, <1>2, <1>3, <2>1, <2>2
<1> DEFINE q == now \div TicksPerDay
           r == now % TicksPerDay
<1>5. /\ now \in Nat /\ TicksPerDay \in Nat \ {0} /\ firstDay \in Int
      /\ q \in Nat /\ now = (TicksPerDay * q) + r /\ r >= 0 /\ r \in Int
  BY EnergyAssumption DEF TypeOK, BilledDays, Days
<1>6. Today = firstDay + q
  BY DEF Today
<1> HIDE DEF q, r
<1>7. ASSUME ~(k.start < firstDay)
      PROVE  (k.start - firstDay) * TicksPerDay <= now
  <2>1. k.start - firstDay \in Int /\ k.start - firstDay <= q
    BY <1>4, <1>5, <1>6
  <2>2. TicksPerDay * (k.start - firstDay) <= TicksPerDay * q
    BY <1>5, <2>1, BilledMore
  <2>3. /\ TicksPerDay * (k.start - firstDay) = (k.start - firstDay) * TicksPerDay
        /\ TicksPerDay * (k.start - firstDay) \in Int /\ TicksPerDay * q \in Int
    BY <1>5, <2>1
  <2> QED
    BY <1>5, <2>2, <2>3
<1>8. StartTick(k) <= now
  BY <1>5, <1>7 DEF StartTick
<1> QED
  BY <1>4, <1>8 DEF k

LEMMA StartTickType ==
  ASSUME TypeOK, NEW k \in Keys
  PROVE  StartTick(k) \in Nat
<1>1. k.start \in Int /\ firstDay \in Int /\ TicksPerDay \in Nat
  <2>1. k.start \in Int
    BY DEF Keys
  <2>2. firstDay \in BilledDays
    BY EnergyAssumption DEF TypeOK
  <2> QED
    BY <2>1, <2>2, DayFacts, EnergyAssumption
<1>2. ASSUME ~(k.start < firstDay)
      PROVE  (k.start - firstDay) * TicksPerDay \in Nat
  <2>1. k.start - firstDay \in Nat
    BY <1>1, <1>2
  <2> QED
    BY <1>1, <2>1
<1> QED
  BY <1>2 DEF StartTick

\* A roll-over starts from nothing, and gives no other copy a key in use.
LEMMA EnsureOwned ==
  ASSUME TypeOK, NEW c \in Copies, NEW s \in Settings, Owned(c)
  PROVE  Owned(EnsurePeriod(c, s)) /\ EnsurePeriod(c, s).key = PeriodKey(Today, s)
<1> DEFINE k == PeriodKey(Today, s)
           e == EnsurePeriod(c, s)
<1>1. k # NoKey /\ k.start <= Today
  BY KeyBegun
<1>2. k \in Keys
  BY KeyType
<1>3. e = IF c.key = k THEN c
          ELSE IF c.key = NoKey THEN [c EXCEPT !.key = k] ELSE [c EXCEPT !.key = k, !.period = 0]
  BY DEF EnsurePeriod
<1> HIDE DEF k, e
<1>4. e.key = k /\ (e.period # 0 => e = c)
  BY <1>1, <1>2, <1>3 DEF Copies, Owned
<1> QED
  BY <1>1, <1>4 DEF Owned, k, e

LEMMA ResetOwned ==
  ASSUME TypeOK, NEW c \in Copies, NEW s \in Settings, Owned(c)
  PROVE  Owned(ResetPeriod(c, s)) /\ Owned(ResetTotal(c))
<1> DEFINE k == PeriodKey(Today, s)
<1>1. k.start <= Today
  BY KeyBegun
<1>2. k \in Keys
  BY KeyType
<1> HIDE DEF k
<1>3. ResetPeriod(c, s).key = k /\ ResetPeriod(c, s).period = 0
  BY <1>2 DEF ResetPeriod, Copies, k
<1>4. /\ ResetTotal(c).key = c.key /\ ResetTotal(c).period = c.period
      /\ ResetTotal(c).ts = c.ts
  BY DEF ResetTotal, Copies
<1> QED
  BY <1>1, <1>3, <1>4 DEF Owned

\* What an update adds to a period's energy was used in the period, but for
\* the one gap it may have begun in.
LEMMA UpdateOwned ==
  ASSUME TypeOK, NEW c \in Copies, c.ts <= now, NEW s \in Settings, c.key = PeriodKey(Today, s),
         Owned(c), NEW watts \in Wattages \cup {NoPower}
  PROVE  Owned(Updated(c, watts))
<1> DEFINE u == Updated(c, watts)
           st == StartTick(c.key)
           d == Delta(c, watts)
<1>1. st \in Nat /\ st <= now /\ c.key # NoKey /\ c.key \in Keys
  BY KeyBegun, KeyType, StartTickType
<1>2. /\ now \in Nat /\ MaxPower \in Nat /\ MaxGap \in Nat /\ c.ts \in Int /\ c.period \in Nat
  BY CopyFields, EnergyAssumption DEF TypeOK, Never
<1>3. /\ u.key = c.key /\ u.period = c.period + d
      /\ u.ts = IF watts = NoPower THEN c.ts ELSE now
  BY DEF Updated, Sampled, Copies
<1>4. c.period # 0 => st <= c.ts /\ c.period <= MaxPower * (MaxGap + (c.ts - st))
  BY DEF Owned
<1>5. \/ d = 0
      \/ /\ u.ts = now /\ now - c.ts \in 0..MaxGap /\ d \in Nat /\ c.power \in 0..MaxPower
         /\ d = c.power * (now - c.ts)
  <2> SUFFICES ASSUME d # 0
               PROVE  /\ u.ts = now /\ now - c.ts \in 0..MaxGap /\ c.power \in 0..MaxPower
                      /\ d \in Nat /\ d = c.power * (now - c.ts)
    BY Zenon
  <2>1. /\ c.power # NoPower /\ watts # NoPower /\ 0 < now - c.ts /\ now - c.ts <= MaxGap
        /\ d = c.power * (now - c.ts)
    BY DEF Delta
  <2>2. u.ts = now /\ c.power \in 0..MaxPower
    BY <1>3, <2>1, CopyFields DEF Wattages
  <2>3. now - c.ts \in 0..MaxGap
    BY <1>2, <2>1
  <2>4. c.power \in Nat /\ now - c.ts \in Nat
    BY <2>2, <2>3, <1>2
  <2>5. c.power * (now - c.ts) \in Nat
    BY <2>4
  <2> QED
    BY <2>1, <2>2, <2>3, <2>5
<1> HIDE DEF u, st, d
<1>6. u.ts \in Int /\ c.ts <= u.ts
  BY <1>2, <1>3
<1>7. CASE d = 0
  <2>1. u.period = c.period
    BY <1>2, <1>3, <1>7
  <2>2. ASSUME c.period # 0
        PROVE  st <= u.ts /\ c.period <= MaxPower * (MaxGap + (u.ts - st))
    <3>1. /\ MaxGap + (c.ts - st) \in Int /\ MaxGap + (u.ts - st) \in Int
          /\ MaxGap + (c.ts - st) <= MaxGap + (u.ts - st)
      BY <1>1, <1>2, <1>6
    <3>2. MaxPower * (MaxGap + (c.ts - st)) <= MaxPower * (MaxGap + (u.ts - st))
      BY <1>2, <3>1, BilledMore
    <3>3. /\ MaxPower * (MaxGap + (c.ts - st)) \in Int
          /\ MaxPower * (MaxGap + (u.ts - st)) \in Int
      BY <1>2, <3>1
    <3> QED
      BY <1>1, <1>2, <1>4, <1>6, <2>2, <3>2, <3>3
  <2> QED
    BY <1>1, <1>3, <2>1, <2>2 DEF Owned, u, st
<1>8. CASE d # 0
  <2> DEFINE n == now - c.ts
  <2>1. n \in 0..MaxGap /\ u.ts = now /\ d \in Nat /\ c.power \in 0..MaxPower /\ d = c.power * n
    BY <1>5, <1>8
  <2>2. n \in Nat /\ n <= MaxGap /\ now = c.ts + n
    BY <1>2, <2>1
  <2> HIDE DEF n
  <2>3. d <= MaxPower * n
    <3>1. MaxPower * 0 + c.power * n <= MaxPower * (0 + n)
      BY <1>2, <2>1, <2>2, BilledAtMost
    <3> QED
      BY <1>2, <2>1, <2>2, <3>1
  <2>4. ASSUME c.period = 0
        PROVE  u.period <= MaxPower * (MaxGap + (now - st))
    <3>1. /\ n \in Int /\ MaxGap + (now - st) \in Int /\ n <= MaxGap + (now - st)
      BY <1>1, <1>2, <2>2
    <3>2. MaxPower * n <= MaxPower * (MaxGap + (now - st))
      BY <1>2, <3>1, BilledMore
    <3>3. MaxPower * n \in Int /\ MaxPower * (MaxGap + (now - st)) \in Int
      BY <1>2, <3>1
    <3> QED
      BY <1>1, <1>2, <1>3, <2>1, <2>3, <2>4, <3>2, <3>3
  <2>5. ASSUME c.period # 0
        PROVE  u.period <= MaxPower * (MaxGap + (now - st))
    <3>1. MaxGap + (c.ts - st) \in Int /\ MaxGap + (now - st) = (MaxGap + (c.ts - st)) + n
      BY <1>1, <1>2, <2>2
    <3>2. /\ MaxPower * (MaxGap + (now - st)) = MaxPower * (MaxGap + (c.ts - st)) + MaxPower * n
          /\ MaxPower * (MaxGap + (c.ts - st)) \in Int /\ MaxPower * n \in Int
      BY <1>2, <2>2, <3>1
    <3> QED
      BY <1>1, <1>2, <1>3, <1>4, <2>1, <2>3, <2>5, <3>2
  <2>6. u.period <= MaxPower * (MaxGap + (now - st))
    BY <2>4, <2>5
  <2> QED
    BY <1>1, <1>3, <2>1, <2>6 DEF Owned, u, st
<1> QED
  BY <1>7, <1>8 DEF u
LEMMA CopiesTyped == TypeOK => AllCopies \subseteq Copies
BY DEF TypeOK, AllCopies, SavedCopies, InFlight, Saves

\* A copy that no step touches keeps its key and its period.
LEMMA OwnedStays ==
  ASSUME TypeOK, NEW c \in Copies, Owned(c), firstDay' = firstDay, now' \in {now, now + 1}
  PROVE  Owned(c)'
<1>1. now \in Nat /\ TicksPerDay \in Nat \ {0} /\ firstDay \in Int /\ c.key.start \in Int
  <2>1. firstDay \in BilledDays
    BY EnergyAssumption DEF TypeOK
  <2>2. now \in Nat /\ TicksPerDay \in Nat \ {0}
    BY EnergyAssumption DEF TypeOK
  <2>3. c.key \in Keys
    BY DEF Copies
  <2>4. c.key.start \in Int
    BY <2>3 DEF Keys
  <2> QED
    BY <2>1, <2>2, <2>4, DayFacts
<1>2. \A m, n \in Nat : n \in {m, m + 1} => m \div TicksPerDay <= n \div TicksPerDay
  BY <1>1
<1>3. now' \in Nat /\ now \div TicksPerDay \in Int /\ now' \div TicksPerDay \in Int
  BY <1>1
<1>4. c.key.start <= Today'
  BY <1>1, <1>2, <1>3 DEF Owned, Today
<1>5. StartTick(c.key)' = StartTick(c.key)
  BY DEF StartTick
<1> QED
  BY <1>4, <1>5 DEF Owned

\* Every step leaves the copies there are, or adds memory's.
LEMMA CopiesKept ==
  ASSUME TypeOK, Lone, [Next]_vars
  PROVE  /\ AllCopies' \subseteq AllCopies \cup {mem'}
         /\ firstDay' = firstDay /\ now' \in {now, now + 1}
<1> USE DEF formVars, history
<1>1. CASE Done \/ UNCHANGED vars
  BY <1>1 DEF Done, vars, AllCopies, SavedCopies, InFlight
<1>2. CASE Tick
  <2>1. \A s \in Savers : io[s] # NoSave => io'[s].copy = io[s].copy
    BY <1>2 DEF Tick, TypeOK, Saves
  <2>2. \A s \in Savers : io[s] = NoSave => io'[s] = NoSave
    BY <1>2 DEF Tick
  <2>3. SavedCopies' \subseteq SavedCopies
    BY <2>1, <2>2 DEF SavedCopies, InFlight
  <2> QED
    BY <1>2, <2>3 DEF Tick, AllCopies
<1>3. ASSUME NEW s \in Savers, io[s] = NoSave, NEW force, Save(s, force)
      PROVE  SavedCopies' \subseteq SavedCopies \cup {mem'}
  BY <1>3, SaveFacts
<1>4. "form" \in Savers /\ "unload" \in Savers /\ "poll" \in Savers /\ "button" \in Savers
  BY DEF Savers
<1>5. CASE Poll \/ OfflinePoll
  <2>1. ASSUME NEW watts, NEW used, Accounts(watts, used)
        PROVE  /\ SavedCopies' \subseteq SavedCopies \cup {mem'}
               /\ UNCHANGED <<firstDay, now, orphans, store>>
    BY <1>3, <1>4, <2>1 DEF Accounts
  <2>2. PICK watts, used : Accounts(watts, used)
    BY <1>5 DEF Poll, OfflinePoll
  <2> QED
    BY <2>1, <2>2 DEF AllCopies
<1>6. CASE Press
  BY <1>3, <1>4, <1>6 DEF Press, AllCopies
<1>7. CASE SubmitDevice
  <2>1. io["form"] = NoSave
    BY <1>7 DEF SubmitDevice, Lone
  <2> QED
    BY <1>3, <1>4, <1>7, <2>1 DEF SubmitDevice, AllCopies
<1>8. CASE UnloadEntry
  <2>1. io["unload"] = NoSave
    BY <1>8 DEF UnloadEntry, Lone
  <2> QED
    BY <1>3, <1>4, <1>8, <2>1 DEF UnloadEntry, AllCopies
<1>9. CASE DeviceFormSaved \/ SubmitHub \/ SettingsSaved \/ ApplySettings \/ LoadTracker
  <2>1. UNCHANGED <<firstDay, now, io, orphans, store>>
    BY <1>9 DEF DeviceFormSaved, SubmitHub, SettingsSaved, ApplySettings, LoadTracker
  <2> QED
    BY <2>1 DEF AllCopies, SavedCopies, InFlight
<1>10. CASE Saving
  <2>1. CASE OrphanLands
    <3>1. SavedCopies' = SavedCopies /\ store' \in orphans /\ orphans' \subseteq orphans
      BY <2>1 DEF OrphanLands, SavedCopies, InFlight
    <3> QED
      BY <2>1, <3>1 DEF OrphanLands, AllCopies
  <2>2. ASSUME NEW s \in Savers, SaveDone(s) \/ SaveFails(s)
        PROVE  /\ AllCopies' \subseteq AllCopies \cup {mem'}
               /\ firstDay' = firstDay /\ now' \in {now, now + 1}
    <3>1. io[s] # NoSave /\ io' = [io EXCEPT ![s] = NoSave]
      BY <2>2 DEF SaveDone, SaveFails
    <3>2. \A t \in InFlight' : t \in InFlight /\ io'[t] = io[t]
      BY <3>1 DEF InFlight, TypeOK
    <3>3. SavedCopies' \subseteq SavedCopies
      BY <3>2 DEF SavedCopies
    <3>4. store' = store \/ store' \in SavedCopies
      BY <2>2, <3>1 DEF SaveDone, SaveFails, SavedCopies, InFlight
    <3>5. UNCHANGED <<firstDay, now, mem, orphans>>
      BY <2>2 DEF SaveDone, SaveFails
    <3> QED
      BY <3>3, <3>4, <3>5 DEF AllCopies
  <2> QED
    BY <1>10, <2>1, <2>2 DEF Saving
<1>11. CASE Unloaded
  <2>1. SavedCopies' = {} /\ orphans' = orphans \cup SavedCopies
    BY <1>11 DEF Unloaded, SavedCopies, InFlight
  <2> QED
    BY <1>11, <2>1 DEF Unloaded, AllCopies
<1>12. CASE Stop
  <2>1. SavedCopies' = {}
    BY <1>12 DEF Stop, SavedCopies, InFlight
  <2> QED
    BY <1>12, <2>1 DEF Stop, AllCopies
<1> QED
  BY <1>1, <1>2, <1>5, <1>6, <1>7, <1>8, <1>9, <1>10, <1>11, <1>12 DEF Next, Forms

LEMMA PeriodInvInit == Init => PeriodInv
<1> SUFFICES ASSUME Init PROVE PeriodInv
  OBVIOUS
<1>1. AllCopies = {Blank}
  BY DEF Init, InFlight, SavedCopies, AllCopies
<1>2. Blank.key.start = 0 /\ Blank.period = 0
  BY DEF Blank, NoKey
<1>3. firstDay \in BilledDays /\ 0 \div TicksPerDay = 0
  BY EnergyAssumption DEF Init
<1>4. 0 <= Today
  BY <1>3, DayFacts DEF Init, Today
<1> QED
  BY <1>1, <1>2, <1>4 DEF PeriodInv, Owned

\* Every way memory changes leaves it a period of its own.
LEMMA PeriodInvStep ==
  ASSUME TypeOK, Lone, EInv, PeriodInv, [Next]_vars
  PROVE  PeriodInv'
<1> USE DEF formVars, history
<1>1. \A c \in AllCopies' : c \in AllCopies \/ c = mem'
  BY CopiesKept
<1>2. \A c \in AllCopies : Owned(c)'
  BY CopiesKept, CopiesTyped, OwnedStays DEF PeriodInv
<1>3. /\ mem \in Copies /\ store \in Copies /\ Owned(mem) /\ Owned(store) /\ mem.ts <= now
      /\ cfg \in Settings /\ settings \in Settings /\ entered \in Settings
  BY DEF TypeOK, PeriodInv, EInv, AllCopies, Fits
<1>4. ASSUME UNCHANGED <<firstDay, now>>, Owned(mem')
      PROVE  PeriodInv'
  <2>1. Owned(mem)'
    BY <1>4 DEF Owned, Today, StartTick
  <2> QED
    BY <1>1, <1>2, <2>1 DEF PeriodInv
<1>5. ASSUME mem' \in AllCopies
      PROVE  PeriodInv'
  BY <1>1, <1>2, <1>5 DEF PeriodInv
<1>6. ASSUME NEW watts \in Wattages \cup {NoPower}, NEW used, Accounts(watts, used)
      PROVE  PeriodInv'
  <2> DEFINE ensured == EnsurePeriod(mem, cfg)
  <2>1. /\ ensured \in Copies /\ ensured.ts <= now
        /\ Owned(ensured) /\ ensured.key = PeriodKey(Today, cfg)
    BY <1>3, EnsureFacts, EnsureOwned
  <2>2. mem' = Updated(ensured, watts) /\ UNCHANGED <<firstDay, now>>
    BY <1>6 DEF Accounts
  <2> HIDE DEF ensured
  <2>3. Owned(mem')
    BY <1>3, <2>1, <2>2, UpdateOwned
  <2> QED
    BY <1>4, <2>2, <2>3
<1>7. CASE Poll \/ OfflinePoll
  <2>1. 0 \in Wattages /\ \A r \in Readings : Billable(r) \in Wattages \cup {NoPower}
    BY EnergyAssumption DEF Billable, Readings, Wattages
  <2> QED
    BY <1>6, <1>7, <2>1 DEF Poll, OfflinePoll
<1>8. CASE Press
  <2>1. Owned(mem')
    BY <1>3, <1>8, ResetOwned DEF Press
  <2> QED
    BY <1>4, <1>8, <2>1 DEF Press
<1>9. CASE SubmitDevice
  <2>1. PICK period \in BOOLEAN, total \in BOOLEAN :
          mem' = LET reset == IF period THEN ResetPeriod(mem, settings) ELSE mem
                 IN  IF total THEN ResetTotal(reset) ELSE reset
    BY <1>9 DEF SubmitDevice
  <2> DEFINE reset == IF period THEN ResetPeriod(mem, settings) ELSE mem
  <2>2. reset \in Copies /\ Owned(reset)
    BY <1>3, ResetFacts, ResetOwned
  <2>3. mem' = IF total THEN ResetTotal(reset) ELSE reset
    BY <2>1
  <2> HIDE DEF reset
  <2>4. Owned(mem')
    BY <1>3, <2>2, <2>3, ResetOwned
  <2> QED
    BY <1>4, <1>9, <2>4 DEF SubmitDevice
<1>10. CASE ApplySettings
  <2>1. Owned(mem')
    BY <1>3, <1>10, EnsureOwned DEF ApplySettings
  <2> QED
    BY <1>4, <1>10, <2>1 DEF ApplySettings
<1>11. CASE LoadTracker
  <2>1. Owned(mem')
    BY <1>3, <1>11, EnsureOwned DEF LoadTracker
  <2> QED
    BY <1>4, <1>11, <2>1 DEF LoadTracker
<1>12. CASE UNCHANGED mem
  BY <1>5, <1>12 DEF AllCopies
<1>13. CASE DeviceFormSaved \/ SubmitHub \/ SettingsSaved \/ Saving \/ Done \/ Tick
  BY <1>12, <1>13
  DEF DeviceFormSaved, SubmitHub, SettingsSaved, Saving, OrphanLands, SaveDone, SaveFails,
      Done, vars, Tick
<1>14. CASE UnloadEntry \/ Unloaded \/ Stop
  BY <1>12, <1>14 DEF UnloadEntry, Unloaded, Stop
<1> QED
  BY <1>7, <1>8, <1>9, <1>10, <1>11, <1>12, <1>13, <1>14 DEF Next, Forms, vars

LEMMA PeriodInvariant == Spec => [](TypeOK /\ PeriodInv)
<1>1. Init => Lone
  BY DEF Init, Lone, Savers
<1> QED
  BY <1>1, EnergyTypes, EInvInit, EInvStep, LoneStep, PeriodInvInit, PeriodInvStep, PTL DEF Spec

\* A period's energy is its own, but for one gap (energy.py 275-298, 304-320).
THEOREM PeriodIsOwn == Spec => []PeriodOwn
<1>1. ASSUME TypeOK, PeriodInv
      PROVE  PeriodOwn
  <2>1. Owned(mem) /\ mem \in Copies
    BY <1>1 DEF PeriodInv, AllCopies, TypeOK
  <2> DEFINE st == StartTick(mem.key)
  <2>2. /\ st \in Nat /\ mem.ts \in Int /\ mem.period \in Nat
        /\ MaxPower \in Nat /\ MaxGap \in Nat
    BY <1>1, <2>1, StartTickType, CopyFields, EnergyAssumption DEF Copies, Never
  <2> DEFINE x == IF mem.ts <= st THEN 0 ELSE mem.ts - st
  <2>3. MaxGap + x \in Nat /\ (st <= mem.ts => x = mem.ts - st)
    BY <2>2
  <2>4. MaxPower * (MaxGap + x) \in Nat
    BY <2>2, <2>3
  <2>5. mem.period # 0 => st <= mem.ts /\ mem.period <= MaxPower * (MaxGap + (mem.ts - st))
    BY <2>1 DEF Owned
  <2>6. PeriodOwn <=> mem.period <= MaxPower * (MaxGap + x)
    BY DEF PeriodOwn
  <2> HIDE DEF st, x
  <2> QED
    BY <2>2, <2>3, <2>4, <2>5, <2>6
<1> QED
  BY <1>1, PeriodInvariant, PTL

\* Whatever the forms offer, a period begins on the latest day that the cycle
\* starts one, and the tracker's has begun (energy.py 61-109, 161-186, 275-298).
THEOREM PeriodsBeginOnTime == Spec => []KeyIsLatestBoundary
<1>1. StartsAreLatest
  BY PeriodBegins, OfferedAssumption DEF StartsAreLatest
<1>2. PeriodInv => KeyIsLatestBoundary
  BY <1>1 DEF PeriodInv, AllCopies, Owned, KeyIsLatestBoundary
<1> QED
  BY <1>2, PeriodInvariant, PTL
=============================================================================
