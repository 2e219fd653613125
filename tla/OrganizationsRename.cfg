SPECIFICATION ListSpec
CONSTANTS
  c1 = c1
  c2 = c2
  n1 = n1
  n2 = n2
  n3 = n3
  s1 = s1
  s2 = s2
  s3 = s3
  Org <- MCOrg
  Name <- MCName
  Slug <- MCSlug
  SlugOf <- MCSlugOf
  Initial <- MCInitial
  Call <- MCCall
  Query <- MCQuery
  Requested <- MCRequested
  MaxLimit = 2
  ScanBatch = 1
  MaxAttempts = 2
  None = None
SYMMETRY Symmetric
CONSTRAINT Bounded
PROPERTY RenamePersistsBoth
CHECK_DEADLOCK FALSE
