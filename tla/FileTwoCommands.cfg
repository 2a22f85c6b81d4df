SPECIFICATION Spec
CONSTANTS
  bob = bob
  l1 = l1
  l2 = l2
  c1 = c1
  c2 = c2
  NoLabel = NoLabel
  User <- OneUser
  Label <- OneLabel
  Cli <- TwoClis
  Ttl <- NoTtl
  BlanketTtl <- ZeroTtl
  MaxTime = 2
  FileConfigured = TRUE
INVARIANTS TypeOK
SYMMETRY Symmetry
PROPERTIES SoloCommandIsAtomic
