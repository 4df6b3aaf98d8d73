CONSTANTS
  Workers    = {w1, w2}
  NoWorker   = NoWorker
  MaxRetry   = 1
  Package    = "trial"
  Slots      = {s1, s2}
  MaxAnswers = 1
  MaxCancels = 0
  Faults     = {"fcm"}
SPECIFICATION FairSpec
PROPERTY Settles
CHECK_DEADLOCK FALSE
