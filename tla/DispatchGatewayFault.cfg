CONSTANTS
  Workers    = {w1, w2}
  NoWorker   = NoWorker
  MaxRetry   = 1
  Package    = "plain"
  Slots      = {s1, s2}
  MaxAnswers = 1
  MaxCancels = 0
  Faults     = {"ivr"}
SYMMETRY Symmetry
SPECIFICATION Spec
INVARIANT SearchAlive
CHECK_DEADLOCK FALSE
