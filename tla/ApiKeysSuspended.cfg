SPECIFICATION MCSpec
CONSTRAINT Bounded
CONSTANTS
  c1 = c1
  c2 = c2
  o1 = o1
  o2 = o2
  u1 = u1
  u2 = u2
  k1 = k1
  k2 = k2
  NoRequest = NoRequest
  NoCall = NoCall
  User <- MCUser
  Call <- MCCall
  Key <- MCKey
  Organization <- MCOrganization
SYMMETRY Symmetric
INVARIANT SuspendedHasNoActiveKey
