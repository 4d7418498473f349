\* A session of a few events, with calls that fail and a process that is killed.  It ends.
SPECIFICATION Spec
CONSTANTS
  FlushSize = 3
  MaxTranscript = 4
  Attempts = 2
  Messages = 7
  MaxFaults = 2
INVARIANTS TypeOK TranscriptIsWhole FailureShows
CHECK_DEADLOCK FALSE
