\* Runs that die at any step, at most as often as the backoffLimit allows, and are run
\* again, while people edit and spend. The system stops when no run is left.
SPECIFICATION FairSpec
CONSTANTS
  m1 = m1
  m2 = m2
  s1 = s1
  s2 = s2
  s3 = s3
  Members <- MCMembers
  Sobres <- MCSobres
  Owner <- MCOwner
  Weight <- MCWeight
  Nets = {0, 5}
  Opening = 1
  Distribute = TRUE
  MaxRuns = 2
  MaxCrashes = 2
  MaxEdits = 1
  MaxSpends = 1
INVARIANTS
  TypeOK
  OneCorte
  ShortByCrash
  SaldoExplained
PROPERTIES
  PaysOnce
  EverybodyIsPaid
CHECK_DEADLOCK FALSE
