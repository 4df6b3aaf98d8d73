CONSTANTS
  Workers    = {w1, w2}
  NoWorker   = NoWorker
  MaxRetry   = 1
  Package    = "plain"
  Slots      = {s1, s2}
  MaxAnswers = 0
  MaxCancels = 1
  Faults     = {}
SYMMETRY Symmetry
SPECIFICATION Spec
INVARIANT CancellationKept
CHECK_DEADLOCK FALSE
