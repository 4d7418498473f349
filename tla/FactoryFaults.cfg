\* One slot, one failed call, one process killed, and programs that hang.
\* Once every slot is stuck nothing happens any more.
SPECIFICATION FairFactorySpec
CONSTANTS
  Tasks = {t1}
  BirthStatuses = {"planning"}
  Clients = {s1, o1}
  Slots = {s1}
  Operators = {o1}
  Agents = {w1}
  Worker = w1
  None = None
  Keep = Keep
  NoTask = NoTask
  ArtifactKinds = {"pr"}
  MaxAttempt = 1
  MaxFixes = 1
  MaxQueue = 4
  MaxAsks = 3
  MaxOutages = 1
  MaxCrashes = 1
  MaxHangs = 1
PROPERTIES
  ProposedIsClaimed
  RunEnds
  Quiesces
CHECK_DEADLOCK FALSE
