\* A tarea whose pull dies between its row and its Estado. The days end.
SPECIFICATION Spec
CONSTANTS
  m1 = m1
  m2 = m2
  t1 = t1
  t2 = t2
  Members = {m1, m2}
  Personal = {"beds"}
  Pool = {}
  Mandatory = {"beds"}
  Tareas = {t1}
  Assigned <- MCAssigned
  DoerOf <- MCDoerOf
  Nobody = Nobody
  MaxDay = 2
  PushDays = {}
  MaxCrashes = 1
  MaxEdits = 0
  MaxEvents = 1
  ByHand = {}
INVARIANT
  TareaPaysOnce
CHECK_DEADLOCK FALSE
