\* Two commands of which no two write at the same time: the read of one may
\* still come before the other's rename.
SPECIFICATION Spec
CONSTANTS
  bob = bob
  l1 = l1
  l2 = l2
  c1 = c1
  c2 = c2
  NoLabel = NoLabel
  User <- OneUser
  Label <- TwoLabels
  Cli <- TwoClis
  Ttl <- NoTtl
  BlanketTtl <- NoTtl
  MaxTime = 1
  FileConfigured = TRUE
CONSTRAINT OneWrites
INVARIANTS BarredStaysDenied
