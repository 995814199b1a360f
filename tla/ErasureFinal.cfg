SPECIFICATION AccountSpec
CONSTANTS
  Window = 1
  Block = 1
  FailureLimit = 2
  SignupLimit = 1
  Clients = {c1, c2}
  Legacy = legacy
  NewOwners = {o1}
  Emails = {e1}
  Tokens = {t1, t2, t3}
  DeletionKeys = {k1}
  None = None
  SessionTtl = 1
  MaxClock = 2
PROPERTIES
  ErasedStaysErased
CHECK_DEADLOCK FALSE
