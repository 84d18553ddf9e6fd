SPECIFICATION Spec
CONSTANTS
  Update = {u1, u2}
  Create = create
  Waiter = {w1, w2}
  None = None
SYMMETRY Symmetry
CHECK_DEADLOCK FALSE
INVARIANTS
  TypeOK
  QuietBooksAgree
  SuccessMeansDelivered
  NoLostWakeup
