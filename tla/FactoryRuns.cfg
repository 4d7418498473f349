\* Two slots, two operators, three requests, nothing fails, and a program may hang.
\* Once every slot is stuck nothing happens any more.
SPECIFICATION FactorySpec
CONSTANTS
  Tasks = {t1}
  BirthStatuses = {"planning"}
  Clients = {s1, s2, o1, o2}
  Slots = {s1, s2}
  Operators = {o1, o2}
  Agents = {w1}
  Worker = w1
  None = None
  Keep = Keep
  NoTask = NoTask
  ArtifactKinds = {"pr"}
  MaxAttempt = 1
  MaxFixes = 1
  MaxQueue = 4
  MaxAsks = 3
  MaxOutages = 0
  MaxCrashes = 0
  MaxHangs = 1
SYMMETRY FactorySymmetry
INVARIANTS
  FactoryTypeOK
  NotStranded
  PinsOnce
CHECK_DEADLOCK FALSE
