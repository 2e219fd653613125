SPECIFICATION MCSpec
CONSTRAINT Bounded
CONSTANTS
  c1 = c1
  c2 = c2
  o1 = o1
  u1 = u1
  u2 = u2
  u3 = u3
  NoRequest = NoRequest
  Stranger = Stranger
  User <- MCUser
  Call <- MCCall
  Organization <- MCOrganization
SYMMETRY Symmetric
INVARIANTS TypeOK AuditExplainsMembership DecisionIsFresh
PROPERTY OwnersFixed
