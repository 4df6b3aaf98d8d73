CONSTANTS
  Workers    = {w1, w2}
  NoWorker   = NoWorker
  MaxRetry   = 1
  Package    = "plain"
  Slots      = {s1, s2}
  MaxAnswers = 2
  MaxCancels = 0
  Faults     = {}
SYMMETRY Symmetry
SPECIFICATION Spec
INVARIANT AtMostOnePrimary
CHECK_DEADLOCK FALSE
