SPECIFICATION FairSpec
CONSTANTS
  Key = {"workflows"}
  create = create
  cancel = cancel
  Call = {create, cancel}
  HookOf <- MCHookOf
  MaxVersion = 2
  MaxFailures = 2
  MaxOffline = 1
INVARIANTS
  TypeOK
  WritesShow
  EmptyMeansEmpty
PROPERTIES
  ImplementsCachedView
  ChangesShow
