\* A personal and a pool routine and a tarea over two days, a job that dies at any step
\* or a result recorded by hand, a push in the night. The days end.
SPECIFICATION Spec
CONSTANTS
  m1 = m1
  t1 = t1
  t2 = t2
  m2 = m2
  Members = {m1, m2}
  Personal = {"beds"}
  Pool = {"dishes"}
  Mandatory = {"beds"}
  Tareas = {t1}
  Assigned <- MCAssigned
  DoerOf <- MCDoerOf
  Nobody = Nobody
  MaxDay = 2
  PushDays = {1}
  MaxCrashes = 1
  MaxEdits = 1
  MaxEvents = 1
  ByHand = {"beds"}
INVARIANTS
  TypeOK
  WorkIsCredited
  MissesFail
  PaysOnceUnlessTorn
PROPERTIES
  OnlyWorkIsCredited
  DecidedOnce
CHECK_DEADLOCK FALSE
