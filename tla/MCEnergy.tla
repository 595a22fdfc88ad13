------------------------------ MODULE MCEnergy ------------------------------
(* EnergyTracker on the last two days of a leap February and on the day     *)
(* after, with the calendar of 2020 and 2021 for the periods.               *)
EXTENDS EnergyTracker, FiniteSetsExt

MonthLengths(leap) == <<31, IF leap THEN 29 ELSE 28, 31, 30, 31, 30, 31, 31, 30, 31, 30, 31>>

\* First days of the months of a year that begins on day first.
MonthStarts(first, leap) ==
  {first + FoldSet(LAMBDA i, n : n + MonthLengths(leap)[i], 0, 1..m) : m \in 0..11}

Last == 730
Januaries == {0, 366}
Firsts == MonthStarts(0, TRUE) \cup MonthStarts(366, FALSE)

OfMonth == [d \in 0..Last |-> d - Max({f \in Firsts : f <= d}) + 1]
OfYear == [d \in 0..Last |-> d - Max({f \in Januaries : f <= d})]

Choice(cycle, day, weekday, days) ==
  [cycle |-> cycle, day |-> day, weekday |-> weekday, days |-> days]

\* Every cycle, with resets at both ends of their ranges.
FormChoices ==
  {Choice("monthly", day, 0, 30) : day \in {1, 2, 15, 28}}
  \cup {Choice("weekly", 1, weekday, 30) : weekday \in 0..6}
  \cup {Choice("days", 1, 0, days) : days \in {1, 7, 30, 365}}
  \cup {Choice(cycle, 1, 0, 30) : cycle \in {"daily", "yearly", "none"}}

\* A daily period and the default, monthly one may begin on the same day.
Daily == {Choice("daily", 1, 0, 30)}
=============================================================================
