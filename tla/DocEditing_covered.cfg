SPECIFICATION EditSpec
CONSTANTS
  Editors = {e1}
  Other = other
  None = none
  MaxTyped = 2
  MaxRevisions = 3
  MaxOther = 2
  MaxCalls = 3
PROPERTIES CoveredDraftsOnly
CHECK_DEADLOCK FALSE
