CONSTANTS
  Lines <- MCLines
  LaterLines <- MCLaterLines
  MAXARGS = 3
  NPROC = 6
  MaxLines = 2
  MaxFail = 1
SPECIFICATION FairSpec
INVARIANTS Plumbed ForegroundDone
PROPERTIES ParserAgrees Settles
CHECK_DEADLOCK FALSE
