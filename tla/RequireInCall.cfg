SPECIFICATION FairSpec
CONSTANTS
  a = a
  b = b
  c = c
  d = d
  plugin = plugin
  Plugin <- plugin
  Module <- FourFiles
  Missing <- OnlyD
  Scripts <- RequireFirst
  Bodies <- OneRequire
  SharedMap = TRUE
  MaxDepth = 9
INVARIANTS TypeOK MapIsExact NoFileInsideItself
PROPERTIES LoadingEnds
CHECK_DEADLOCK FALSE
