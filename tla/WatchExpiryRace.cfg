SPECIFICATION WSpec
CONSTANTS
  bob = bob
  l1 = l1
  r1 = r1
  NoLabel = NoLabel
  User <- OneUser
  Label <- OneLabel
  Request <- OneRequest
  Ttl <- ZeroTtl
  MaxTime = 2
PROPERTIES CoveredNeverAccepted
