--------------------------- MODULE MCOccurrences ----------------------------
(* Days and schedules for Occurrences on which calendars go wrong: the turn  *)
(* of a year, the end of a leap February, months of four and of five weeks,  *)
(* a Vigente desde late in its month.                                        *)
EXTENDS Occurrences, TLC

CONSTANTS dishes, bins, m1, m2

MCStarts == {DateOf(2027, 12, 30), DateOf(2028, 2, 27), DateOf(2026, 7, 29)}
Schedule(recurrencia, dias, desde, dia) ==
  [recurrencia |-> recurrencia, dias |-> dias, desde |-> desde, dia |-> dia]
MCSchedules ==
  {Schedule("Semanal", {5, 6}, None, None),
   Schedule("Semanal", {2}, DateOf(2028, 1, 5), None),
   Schedule("Quincenal", {4}, DateOf(2026, 7, 17), None),
   Schedule("Mensual", {}, DateOf(2026, 7, 17), 31),
   Schedule("Mensual", {}, None, 30),
   Schedule("Mensual", {1}, DateOf(2026, 7, 29), 1),
   Schedule("Mensual", {1, 4}, DateOf(2026, 7, 31), None),
   Schedule("Trimestral", {1}, DateOf(2027, 11, 30), None),
   Schedule("Trimestral", {}, DateOf(2026, 7, 1), 1)}
=============================================================================
