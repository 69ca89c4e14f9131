SPECIFICATION TreeSpec
CONSTANTS
  Tasks = {t1, t2, t3}
  Collections = {now}
  Writes = {r1}
  TopLevel = TopLevel
  NoGroup = NoGroup
  Nothing = Nothing
  MaxDepth = 2
  MembersPerGroup = 1
  MaxTreeVersion = 5
INVARIANT GroupsStayWhole
CHECK_DEADLOCK FALSE
SYMMETRY TreeSymmetry
