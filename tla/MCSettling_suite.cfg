SPECIFICATION SettlingSpec
CONSTANTS
  \* DocEditing
  Editors = {e1}
  Other = other
  None = none
  MaxTyped = 2
  MaxRevisions = 3
  MaxOther = 2
  MaxCalls = 2
  \* ExecutionDispatch
  Procs = {p1}
  Steady = p1
  MaxAttempts = 2
  MaxGen = 3
PROPERTIES
  SavesSettle
  EventuallyDispatched
CHECK_DEADLOCK FALSE
