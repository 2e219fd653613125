SPECIFICATION MCSpec
CONSTRAINT Bounded
CONSTANTS
  c1 = c1
  c2 = c2
  o1 = o1
  NoRequest = NoRequest
  NoWitness = NoWitness
  User <- MCUser
  Client <- MCClient
  Organization <- MCOrganization
  MaxAttempts = 2
SYMMETRY Symmetric
INVARIANTS TypeOK AuditExplainsRole WitnessIsAnother
PROPERTIES DemotionLeavesAdmin ImplementsAtomic
