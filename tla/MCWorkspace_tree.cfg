SPECIFICATION WorkspaceSpec
CONSTANTS
  \* TaskTree
  Tasks = {t1, t2}
  Collections = {now, later}
  Writes = {q1, q2}
  TopLevel = TopLevel
  NoGroup = NoGroup
  Nothing = Nothing
  MaxDepth = 2
  MembersPerGroup = 2
  MaxTreeVersion = 4
  \* TaskStore
  Lists = {l1, l2}
  Details = {d1}
  LongLists = {l2}
  NoVersion = NoVersion
  MaxWalks = 1
  MaxWrites = 3
  MaxChanges = 1
  MaxDisruptions = 1
  \* DocEditing
  Editors = {e1}
  Other = other
  None = none
  MaxTyped = 2
  MaxRevisions = 3
  MaxOther = 2
  MaxCalls = 2
CONSTRAINTS NotAllAtOnce
SYMMETRY TreeSymmetry
INVARIANTS
  ForestStaysSound
  CacheIsExact
  GroupsStayWhole
  ConfirmedUntilFetched
  BrowserConverges
  SavedIsPublished
PROPERTIES
  NoSaveIsForgotten
CHECK_DEADLOCK FALSE
