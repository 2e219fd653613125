SPECIFICATION FairSpec
CONSTANTS
  i1 = i1
  i2 = i2
  i3 = i3
  k1 = k1
  k2 = k2
  app = app
  other = other
  u1 = u1
  u2 = u2
  None = None
  Issuer = {i1, i2, i3}
  Allowed = {i1, i2}
  Kid = {k1, k2}
  Client = {app, other}
  AllowedClient = {app}
  Subject = {u1, u2}
  Token <- MCToken
  Published <- MCPublished
  ProofIsGoogles = TRUE
  Thread = {1, 2}
  KeySetTTL = 1
  Leeway = 1
  TTL = 1
  MaxTime = 2
  MaxMinted = 1
CONSTRAINT Bounded
INVARIANT TypeOK
PROPERTIES
  AcceptedIsGenuine
  UnknownMeansUnpublished
  OwnRolesWereAsked
  ProvisionedIsVerified
  VerificationEnds
CHECK_DEADLOCK FALSE
