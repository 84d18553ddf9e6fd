SPECIFICATION FairSpec
CONSTANTS
  Streams = {s1, s2}
  CorrIds = {c1}
  Nonces = {Blank, n1, n2, n3}
  Blank = Blank
  Spellings = {lower, upper}
  Plain = {lower}
  Agents = {a1}
  Payers = {p1}
  Amounts = {0, 1}
  Prices = {0, 1, None}
  Inbound <- LiveMessages
  MaxRetries = 1
  MaxRestarts = 1
  FacilitatorIdempotent = FALSE
  Preemptive = Preemptive
  None = None
  a1 = a1
  p1 = p1
  n1 = n1
  n2 = n2
  c1 = c1
  lower = lower
  upper = upper
PROPERTIES
  EveryRequestAnswered
  ImplementsPaidService
