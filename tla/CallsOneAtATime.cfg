SPECIFICATION Spec
CONSTANTS
  c1 = c1
  c2 = c2
  c3 = c3
  t1 = t1
  t2 = t2
  NoTool = NoTool
  Call <- ThreeCalls
  Tool <- TwoTools
  MaxUses = 2
  OneAtATime = TRUE
INVARIANTS TypeOK ActsInOwnName
CHECK_DEADLOCK FALSE
