SPECIFICATION Spec
CONSTANTS
  c1 = c1
  c2 = c2
  c3 = c3
  t1 = t1
  t2 = t2
  NoTool = NoTool
  Call <- TwoCalls
  Tool <- OneTool
  MaxUses = 2
  OneAtATime = FALSE
INVARIANTS ActsInOwnName
CHECK_DEADLOCK FALSE
