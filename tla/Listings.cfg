SPECIFICATION FairSpec
CONSTANTS
  Node = {s, p, q}
  Seller = s
  MaxTerms = 2
  Bytes <- MCBytes
  MaxStops = 1
  MaxConnects = 1
CHECK_DEADLOCK FALSE
INVARIANTS
  TypeOK
PROPERTIES
  TermsSpread
