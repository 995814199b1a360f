SPECIFICATION Spec
CONSTANTS
  Focuses = {"account", "decision"}
  Window = 1
  Block = 1
  FailureLimit = 2
  SignupLimit = 1
  Clients = {c1, c2}
  Legacy = legacy
  NewOwners = {o1}
  Emails = {e1}
  Tokens = {d1, d2, d3, d4}
  DeletionKeys = {k1}
  None = None
  SessionTtl = 1
  MaxClock = 2
  Pages = {p1}
  Keys = {d1, d2, d3, d4}
  Payloads = {t1}
  MaxEvents = 4
  MaxChanges = 1
  MaxWire = 2
  NoKey = None
  NoRequest = None
SYMMETRY MCSymmetry
INVARIANTS
  AccountsCoherent
  PursuitsAgree
  KeysActOnce
PROPERTIES
  AccountsKeepTheirWord
  ProgressIsKept
CHECK_DEADLOCK FALSE
