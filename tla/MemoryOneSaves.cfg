\* Two processes that do not save at the same time, killed or failing at any step.
SPECIFICATION Spec
CONSTANTS
  p1 = p1
  p2 = p2
  k1 = k1
  k2 = k2
  v1 = v1
  v2 = v2
  NoValue = NoValue
  Proc <- TwoProcs
  Key <- TwoKeys
  Value <- TwoValues
  Faults <- AllFaults
CONSTRAINT OneSaves
INVARIANTS TypeOK FileIsWhole
PROPERTIES OnlyNamedKeyChanges
