\* Pushes over a catalogue that is edited, with a call that fails or a pod that dies.
SPECIFICATION Spec
CONSTANTS
  m1 = m1
  m2 = m2
  weekly = weekly
  monthly = monthly
  chore = chore
  Members <- MCMembers
  Routines = {weekly, monthly}
  Tareas = {chore}
  Assignee <- MCAssignee
  AtFirst <- MCAtFirst
  MaxEvents = 3
  MaxFaults = 1
INVARIANTS TypeOK CleanPushConverges NoOrphanWithoutFault
PROPERTY PruneSparesTheLive
