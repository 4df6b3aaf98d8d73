CONSTANTS
  Invoices    = {i1}
  Methods     = {bkash, sslcommerz}
  NoInvoice   = NoInvoice
  NoMethod    = NoMethod
  Slots       = {s1, s2}
  MaxPayments = 2
  MaxNotices  = 2
  MaxCancels  = 0
  MaxRequests = 2
  MaxRows     = 4
  Faults      = {}
SYMMETRY Symmetry
SPECIFICATION Spec
INVARIANT AtMostOneReceived
CHECK_DEADLOCK FALSE
