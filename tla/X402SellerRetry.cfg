SPECIFICATION Spec
CONSTANTS
  Streams = {s1, s2}
  CorrIds = {c1}
  Nonces = {n1, n2}
  Blank = Blank
  Spellings = {lower, upper}
  Plain = {lower}
  Agents = {a1}
  Payers = {p1}
  Amounts = {0, 1}
  Prices = {1, None}
  Inbound <- RestartMessages
  MaxRetries = 2
  MaxRestarts = 0
  FacilitatorIdempotent = FALSE
  Preemptive = Preemptive
  None = None
  a1 = a1
  p1 = p1
  n1 = n1
  n2 = n2
  c1 = c1
  lower = lower
  upper = upper
SYMMETRY Symmetry
INVARIANTS
  SettlementFailedIsSafeToRetry
