CONSTANTS
  Workers    = {w1, w2}
  NoWorker   = NoWorker
  MaxRetry   = 1
  Package    = "instant"
  Slots      = {s1, s2}
  MaxAnswers = 1
  MaxCancels = 1
  Faults     = {"ivr", "fcm"}
SYMMETRY Symmetry
SPECIFICATION Spec
INVARIANTS OneTaskPerAssignment FollowUpsQueued CursorBounded AcceptancesAccounted
CHECK_DEADLOCK FALSE
