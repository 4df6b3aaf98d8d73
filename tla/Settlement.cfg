CONSTANTS
  Invoices    = {i1}
  Methods     = {bkash, sslcommerz}
  NoInvoice   = NoInvoice
  NoMethod    = NoMethod
  Slots       = {s1, s2}
  MaxPayments = 2
  MaxNotices  = 2
  MaxCancels  = 1
  MaxRequests = 2
  MaxRows     = 4
  Faults      = {"crash", "finance"}
SYMMETRY Symmetry
SPECIFICATION Spec
INVARIANTS TypeOK ReceivedNotDropped DroppedForAnother CompletedOnlyIfPaid UnpaidWorkReadsPending
PROPERTY KeepsTheBook
CHECK_DEADLOCK FALSE
