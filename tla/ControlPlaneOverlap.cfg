\* Two clients whose requests overlap, one task.
SPECIFICATION Spec
CONSTANTS
  Tasks = {t1}
  BirthStatuses = {"planning", "proposed"}
  Clients = {c1, c2}
  Agents = {w1}
  None = None
  Keep = Keep
  NoTask = NoTask
  ArtifactKinds = {"pr"}
  MaxAttempt = 0
  MaxQueue = 1
SYMMETRY ClientSymmetry
INVARIANTS
  TypeOK
  PlanGate
  OneWinner
PROPERTY LawfulUnlessOvertaken
