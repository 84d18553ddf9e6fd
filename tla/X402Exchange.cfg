SPECIFICATION FairSpec
CONSTANTS
  Call = {c1, c2}
  Agent = {"agent"}
  AgentOf <- MCAgentOf
  Amounts = {1, 2}
  None = None
CHECK_DEADLOCK FALSE
INVARIANTS
  TypeOK
  OutputsArePaidFor
  RecordsAgreeWithChain
  OnlyRacesLoseRecords
PROPERTIES
  ImplementsPurchase
  
