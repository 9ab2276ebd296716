SPECIFICATION FairSpec

CONSTANTS
  NumFiles = 2
  Callers = {console, net}
  Listers = {net}
  console = console
  net = net
  Tries = 2
  PlayRash = FALSE

INVARIANTS TypeOK StopMeansClosed
PROPERTIES MarkTakenBack OkMeansPlaying CallsEnd
