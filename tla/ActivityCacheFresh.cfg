CONSTANTS
  r1 = r1
  r2 = r2
  w1 = w1
  w2 = w2
  l1 = l1
  l2 = l2
  c1 = c1
  None = None
  Tenant = "default"
  Filters = {"all", "gestor", " gestor "}
  KeyText <- MCKeyText
  Passes <- MCPasses
  Readers = {r1}
  Writers = {w1, w2}
  Loans = {l1}
  Clients = {c1}
  ClientOf <- MCClientOf1
  Queries <- LoanAndClient
  Requests <- CreateAndEscalation
  ListTTL = 1
  ReqTimeout = 1
  VerTTL = 3
  RedisMayFail = FALSE
SPECIFICATION Spec
INVARIANTS UnmovedFillIsFresh
PROPERTIES ScopedListsMissImmediately
SYMMETRY WriterSymmetry
CHECK_DEADLOCK FALSE
