SPECIFICATION Spec
CONSTANTS
  a = a
  b = b
  s1 = s1
  Symbols = {a, b}
  Levels = {1, 2}
  ListIds = {1, 2}
  AlertIds = {1, 2}
  Slots = {s1, s2}
  Evaluator = ev
  NoData = NoData
  Absent = Absent
  Nobody = Nobody
  Defs <- MCDefs
  Stories <- EachUse
INVARIANTS ListsIntact FiringsAreTrue QuietIsCurrent
PROPERTIES StreamFollows ConditionFires
CHECK_DEADLOCK FALSE
