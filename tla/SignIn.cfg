SPECIFICATION FairSpec
CONSTANTS
  j1 = j1
  v1 = v1
  v2 = v2
  r1 = r1
  app = app
  Url <- MCUrl
  Here = Here
  Origins <- MCOrigins
  Journey <- MCJourney
  Visit <- MCVisit
  Request <- MCRequest
  None = None
  MaxUser = 2
  MaxTime = 2
  StateTTL = 1
  SessionTTL = 2
  MaxAttempts = 2
CONSTRAINT Bounded
INVARIANTS
  TypeOK
  StateServesOnce
PROPERTIES
  SessionsAreKept
  ServedBeforeExpiry
  ServedToLivingUser
  WritesCarryToken
  CallbackIsAnswered
CHECK_DEADLOCK FALSE
