\* Scans of the timer and one by hand over a host that changes, with a fault.
SPECIFICATION Spec
CONSTANTS
  service = service
  build = build
  Procs <- MCProcs
  Ports = {port}
  Peers = {peer}
  Flags <- MCFlags
  Identity <- MCIdentity
  Heavy <- MCProcs
  Allowed <- MCAllowed
  TrustedPeers = {}
  Consecutive = 3
  Runners = {timer, shell}
  Timer = timer
  AtFirst = {port}
  MaxChanges = 2
  MaxFaults = 1
  MaxByHand = 1
INVARIANTS TypeOK AlertedOnce LoadTakesScans
PROPERTY ListenerIsTold
