SPECIFICATION Spec
CONSTANTS
  t1 = t1
  t2 = t2
  Tabs <- TwoTabs
  MaxSession = 3
  MaxSeq = 3
INVARIANTS NothingIsReplayed OwnNumbersAreFresh
PROPERTY NumbersOnlyRise
SYMMETRY Symmetry
CHECK_DEADLOCK FALSE
