\* Nights of generate-occurrences, with runs that crash or are missed and edits in between.
SPECIFICATION Spec
CONSTANTS
  dishes = dishes
  bins = bins
  m1 = m1
  m2 = m2
  Routines = {dishes, bins}
  Members = {m1, m2}
  Pool = {bins}
  Schedules <- MCSchedules
  Starts <- MCStarts
  Horizon = 3
  Ahead = 60
  MaxDays = 4
  MaxEdits = 1
  MaxFaults = 1
INVARIANTS TypeOK OneRowPerSlot HorizonIsFilled MirrorFallsOnARow
