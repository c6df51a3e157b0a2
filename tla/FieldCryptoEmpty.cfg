CONSTANTS
  Procs = {p1, p2}
  Requests = {q1}
  Tenants = {t1, t2}
  MaxSessions = 2
  MaxBearer = 2
  MaxKek = 2
  MaxRestarts = 2
  Endpoints <- MCEndpoints
  Routes = {"create", "other"}
  Forms = {"sealed", "tampered", "oversize"}
  ConfTTL = 2
  DefaultTTL = 3
  HardMaxTTL = 1
  Skew = 1
  ReqTime = 1
  BodyTime = 2
  None = None
  Shared = Shared
SYMMETRY MCSymmetry
CONSTRAINT InBounds
SPECIFICATION Spec
INVARIANTS EncryptionFailureIsAnswered
CHECK_DEADLOCK FALSE
