\* Up to four threads, as many as hThreads has cells; some cannot be started.
CONSTANTS
  MAX_THREADS = 4
  Main = Main
  Nobody = Nobody
  NULL = NULL
  Process = Process
SPECIFICATION FairSpec
INVARIANTS
  OneWriter
  EarlierThreadsDone
PROPERTY
  QuitEnds
