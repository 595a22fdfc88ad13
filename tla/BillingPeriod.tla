--------------------------- MODULE BillingPeriod ----------------------------
(***************************************************************************)
(* The billing period of a day (energy.py: period_key, _settings_from_raw).*)
(* Days are numbered from _DAYS_EPOCH, 2020-01-01, a Wednesday.  Python's  *)
(* calendar is outside the program: what the code asks of a date, its day  *)
(* of the month and of the year, is a parameter.                           *)
(***************************************************************************)
EXTENDS Integers

CONSTANTS
  LastDay,      \* bound on the days considered
  DayOfMonth,   \* of each day, from 1
  DayOfYear,    \* of each day, from 0
  Offered       \* settings the forms' schemas allow

Days == 0..LastDay

ASSUME CalendarAssumption ==
  /\ LastDay \in Nat
  /\ DayOfMonth \in [Days -> 1..31] /\ DayOfYear \in [Days -> 0..365]
  /\ \A d \in Days : \A k \in 0..(DayOfMonth[d] - 1) :
       d - k \in Days /\ DayOfMonth[d - k] = DayOfMonth[d] - k
  /\ \A d \in Days : \A k \in 0..DayOfYear[d] :
       d - k \in Days /\ DayOfYear[d - k] = DayOfYear[d] - k
  /\ \A d \in Days \ {0} : DayOfMonth[d] = 1 => DayOfMonth[d - 1] >= 28

\* There is a month before these days, so a billing month has a first day.
BilledDays == {d \in Days : d >= 31}

-----------------------------------------------------------------------------
Cycles == {"monthly", "daily", "weekly", "yearly", "days", "none"}
ResetDays == 1..28
Weekdays == 0..6   \* Monday is 0
CycleDays == 1..365

\* EnergySettings, as the forms' schemas and _settings_from_raw leave them.
Settings == [cycle : Cycles, day : ResetDays, weekday : Weekdays, days : CycleDays]

ASSUME OfferedAssumption == Offered \subseteq Settings

Between(low, n, high) == IF n < low THEN low ELSE IF n > high THEN high ELSE n
OrDefault(n, default) == IF n = 0 THEN default ELSE n

\* What async_get_energy_settings makes of a stored dict.
SettingsFromRaw(raw) ==
  [cycle   |-> IF raw.cycle \in Cycles THEN raw.cycle ELSE "monthly",
   day     |-> Between(1, OrDefault(raw.day, 1), 28),
   weekday |-> raw.weekday % 7,
   days    |-> Between(1, OrDefault(raw.days, 30), 365)]

DefaultSettings == [cycle |-> "monthly", day |-> 1, weekday |-> 0, days |-> 30]

-----------------------------------------------------------------------------
Weekday(d) == (d + 2) % 7

\* Mutant: the reset day itself still belongs to the month before.
MonthStartLate(d, day) ==
  LET prevLast == d - DayOfMonth[d]
  IN  IF DayOfMonth[d] > day
      THEN d - DayOfMonth[d] + day ELSE prevLast - DayOfMonth[prevLast] + day

\* First day of the billing month: of this month if the reset day has come.
MonthStart(d, day) ==
  LET prevLast == d - DayOfMonth[d]
  IN  IF DayOfMonth[d] >= day
      THEN d - DayOfMonth[d] + day
      ELSE prevLast - DayOfMonth[prevLast]
             + (IF day < DayOfMonth[prevLast] THEN day ELSE DayOfMonth[prevLast])

StartOf(d, s) ==
  CASE s.cycle = "none"   -> 0
    [] s.cycle = "daily"  -> d
    [] s.cycle = "yearly" -> d - DayOfYear[d]
    [] s.cycle = "weekly" -> d - ((Weekday(d) - s.weekday) % 7)
    [] s.cycle = "days"   -> (d \div s.days) * s.days
    [] OTHER              -> MonthStart(d, s.day)

\* Keys are equal when the code's strings are: a date alone does not tell a
\* daily, a weekly and a monthly period with the same first day apart.
Form(s) == IF s.cycle \in {"daily", "weekly", "monthly"} THEN "date" ELSE s.cycle

PeriodKey(d, s) ==
  [form |-> Form(s), start |-> StartOf(d, s), days |-> IF s.cycle = "days" THEN s.days ELSE 0]

-----------------------------------------------------------------------------
(* What the forms promise: ENERGY_CYCLE_OPTIONS (const.py 122-129). *)

\* Does a period begin on day d?
IsBoundary(d, s) ==
  \/ s.cycle = "daily"
  \/ s.cycle = "weekly" /\ Weekday(d) = s.weekday
  \/ s.cycle = "monthly" /\ DayOfMonth[d] = s.day
  \/ s.cycle = "yearly" /\ DayOfYear[d] = 0
  \/ s.cycle = "days" /\ d % s.days = 0
  \/ s.cycle = "none" /\ d = 0

\* As reckoned after a restart, from the settings stored, the period of day d
\* began on the latest boundary of the settings chosen.
StartsLatest(d, s) ==
  LET start == StartOf(d, SettingsFromRaw(s))
  IN  /\ start <= d
      /\ start >= 0 => IsBoundary(start, s)
      /\ \A e \in (start + 1)..d : ~IsBoundary(e, s)
=============================================================================
