SPECIFICATION Spec
CONSTANTS
  Item = {a1, a2}
  MaxVisits = 2
  MaxCalls = 2
  None = None
SYMMETRY Symmetry
INVARIANTS
  TypeOK
  CallsAreReported
  ResultIsOfLastCall
  DetailIsOfSelection
PROPERTIES
  FormsSurviveFailure
  FocusReturns
