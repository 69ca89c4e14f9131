SPECIFICATION EditSpec
CONSTANTS
  Editors = {e1}
  Other = other
  None = none
  MaxTyped = 1
  MaxRevisions = 4
  MaxOther = 3
  MaxCalls = 3
CHECK_DEADLOCK FALSE
INVARIANTS NothingOverwritten
