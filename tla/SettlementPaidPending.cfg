CONSTANTS
  Invoices    = {i1}
  Methods     = {bkash, sslcommerz}
  NoInvoice   = NoInvoice
  NoMethod    = NoMethod
  Slots       = {s1, s2}
  MaxPayments = 1
  MaxNotices  = 1
  MaxCancels  = 0
  MaxRequests = 1
  MaxRows     = 4
  Faults      = {}
SYMMETRY Symmetry
SPECIFICATION Spec
INVARIANT PaidNotPending
CHECK_DEADLOCK FALSE
