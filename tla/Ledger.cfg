\* Two rows of routines before a payday and a tarea that can be credited twice, with parents
\* who edit, record or grant appeals.
\* The days end.
SPECIFICATION Spec
CONSTANTS
  beds = beds
  desk = desk
  shed = shed
  Routines = {beds, desk}
  Tareas = {shed}
  RoutineDefs <- MCRoutineDefs
  TareaDefs <- MCTareaDefs
  AtFirst <- MCAtFirst
  Anchor <- MCAnchor
  Days <- MCDays
  Occurrences <- MCOccurrences
  NoPoints = NoPoints
  Appeals <- MCAppeals
  MaxByParents = 1
  MaxRows = 2
INVARIANTS TypeOK AgendaMatchesCorte WorkNeverCosts
CHECK_DEADLOCK FALSE
