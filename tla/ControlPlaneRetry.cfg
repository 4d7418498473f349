\* A retry.
SPECIFICATION Spec
CONSTANTS
  Tasks = {t1}
  BirthStatuses = {"planning", "proposed"}
  Clients = {c1}
  Agents = {w1}
  None = None
  Keep = Keep
  NoTask = NoTask
  ArtifactKinds = {}
  MaxAttempt = 0
  MaxQueue = 1
PROPERTIES
  RetryReopens
