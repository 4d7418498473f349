------------------------------ MODULE Calendar ------------------------------
(***************************************************************************)
(* The date arithmetic of family-agile-sync (rules.py): the payday cycles  *)
(* and the recurrences of routines.  A date is its proleptic Gregorian     *)
(* ordinal, as Python's date.toordinal gives it.                           *)
(***************************************************************************)
EXTENDS Integers, Sequences

None == 0 \* for an unset date or day of the month

-----------------------------------------------------------------------------
(* datetime.date and calendar.monthrange *)

IsLeap(year) == year % 4 = 0 /\ (year % 100 # 0 \/ year % 400 = 0)
MonthDays(year, month) ==
  IF month = 2 /\ IsLeap(year) THEN 29
  ELSE <<31, 28, 31, 30, 31, 30, 31, 31, 30, 31, 30, 31>>[month]
YearStart(year) == LET y == year - 1 IN y * 365 + y \div 4 - y \div 100 + y \div 400
MonthStart(year, month) ==
  YearStart(year) + <<0, 31, 59, 90, 120, 151, 181, 212, 243, 273, 304, 334>>[month]
    + (IF month > 2 /\ IsLeap(year) THEN 1 ELSE 0)
DateOf(year, month, day) == MonthStart(year, month) + day

YearOf(date) ==
  LET guess == (date * 400) \div 146097 + 1
  IN CHOOSE y \in {guess - 1, guess, guess + 1} :
       YearStart(y) < date /\ date <= YearStart(y + 1)
MonthOf(date) ==
  LET y == YearOf(date)
  IN CHOOSE m \in 1..12 : MonthStart(y, m) < date
                           /\ date <= MonthStart(y, m) + MonthDays(y, m)
DayOf(date) == date - MonthStart(YearOf(date), MonthOf(date))
Weekday(date) == (date + 6) % 7 \* 0 is Monday
Earliest(dates) == CHOOSE d \in dates : \A e \in dates : d <= e

-----------------------------------------------------------------------------
(* Payday cycles: 14 days that end on their payday, a Friday *)

CycleDays == 14
Friday == 4

cycle_end_for(day, anchor) ==
  anchor - ((anchor - day) \div CycleDays) * CycleDays
cycle_bounds(day, anchor) ==
  LET end == cycle_end_for(day, anchor) IN <<end - (CycleDays - 1), end>>

\* The year of the payday, and the number of the payday in it.
cycle_label(day, anchor) ==
  LET end == cycle_end_for(day, anchor)
  IN <<YearOf(end), (end - DateOf(YearOf(end), 1, 1)) \div CycleDays + 1>>

-----------------------------------------------------------------------------
(* Recurrences.  A routine's schedule is its Recurrencia, Dias (weekdays), *)
(* Vigente desde and Dia del mes.                                          *)

StepMonths(recurrencia) == IF recurrencia = "Mensual" THEN 1 ELSE 3

week_of_month(day) == (DayOf(day) - 1) \div 7 + 1

\* The n-th such weekday of the month, or its last one if there are fewer.
nth_weekday_of_month(year, month, weekday, n) ==
  LET day == 1 + ((weekday - Weekday(DateOf(year, month, 1))) % 7) + (n - 1) * 7
      over == day - MonthDays(year, month)
  IN DateOf(year, month, IF over > 0 THEN day - ((over + 6) \div 7) * 7 ELSE day)

MonthsBetween(from, to) == (YearOf(to) - YearOf(from)) * 12 + MonthOf(to) - MonthOf(from)

Clamped(year, month, dia) ==
  IF dia < MonthDays(year, month) THEN dia ELSE MonthDays(year, month)

\* Mutant of AddMonths: the day of the month is not clamped.
AddMonthsUnclamped(day, months) ==
  LET total == YearOf(day) * 12 + MonthOf(day) - 1 + months
  IN DateOf(total \div 12, (total % 12) + 1, DayOf(day))

AddMonths(day, months) ==
  LET total == YearOf(day) * 12 + MonthOf(day) - 1 + months
      year == total \div 12
      month == (total % 12) + 1
  IN DateOf(year, month, Clamped(year, month, DayOf(day)))

\* Whether a mirror's date can be computed: the code passes over a routine otherwise.
HasOccurrence(s) ==
  CASE s.recurrencia = "Semanal" -> s.dias # {}
    [] s.recurrencia = "Quincenal" -> s.desde # None
    [] s.recurrencia \in {"Mensual", "Trimestral"} -> s.desde # None /\ (s.dia # None \/ s.dias # {})
    [] OTHER -> FALSE

\* The date that the mirror of a non-weekly routine carries.
current_todo_occurrence(s, day) ==
  IF s.recurrencia = "Quincenal"
  THEN IF day < s.desde THEN s.desde ELSE day - ((day - s.desde) % 14)
  ELSE LET step == StepMonths(s.recurrencia)
           months == MonthsBetween(s.desde, day)
           target == IF months < 0 THEN s.desde ELSE AddMonths(s.desde, months - (months % step))
           year == YearOf(target)
           month == MonthOf(target)
       IN IF s.dia # None THEN DateOf(year, month, Clamped(year, month, s.dia))
          ELSE Earliest({nth_weekday_of_month(year, month, w, week_of_month(s.desde)) :
                           w \in s.dias})

next_weekly_occurrence(dias, day) ==
  Earliest({d \in day..(day + 6) : Weekday(d) \in dias})

\* The date on a recreated to-do, of a weekly routine or of another.
MirrorDate(s, day) == IF s.recurrencia = "Semanal" THEN next_weekly_occurrence(s.dias, day)
                      ELSE current_todo_occurrence(s, day)

\* Does the routine have an Agenda row on this day?
occurs_on(day, s) ==
  /\ s.desde # None => day >= s.desde
  /\ CASE s.recurrencia = "Semanal" -> Weekday(day) \in s.dias
       [] s.recurrencia = "Quincenal" ->
            s.desde # None /\ Weekday(day) \in s.dias /\ (day - s.desde) % 14 = 0
       [] s.recurrencia \in {"Mensual", "Trimestral"} ->
            /\ s.desde # None => MonthsBetween(s.desde, day) % StepMonths(s.recurrencia) = 0
            /\ IF s.dia # None THEN DayOf(day) = Clamped(YearOf(day), MonthOf(day), s.dia)
               ELSE /\ s.desde # None
                    /\ \E w \in s.dias : day = nth_weekday_of_month(
                         YearOf(day), MonthOf(day), w, week_of_month(s.desde))
       [] OTHER -> FALSE
=============================================================================
