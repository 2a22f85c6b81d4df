SPECIFICATION Spec
CONSTANTS
  bob = bob
  l1 = l1
  l2 = l2
  c1 = c1
  c2 = c2
  NoLabel = NoLabel
  User <- OneUser
  Label <- TwoLabels
  Cli <- OneCli
  Ttl <- SomeTtl
  BlanketTtl <- NoTtl
  MaxTime = 3
  FileConfigured = TRUE
INVARIANTS MintedTokenIsUsable BarredStaysDenied
PROPERTIES ListIsComplete ImplementsRegister
