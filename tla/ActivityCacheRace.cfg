CONSTANTS
  r1 = r1
  r2 = r2
  w1 = w1
  w2 = w2
  l1 = l1
  l2 = l2
  c1 = c1
  None = None
  Tenant = "default"
  Filters = {"all", "gestor", " gestor "}
  KeyText <- MCKeyText
  Passes <- MCPasses
  Readers = {r1}
  Writers = {w1, w2}
  Loans = {l1}
  Clients = {c1}
  ClientOf <- MCClientOf1
  Queries <- OneLoan
  Requests <- FullCreate
  ListTTL = 2
  ReqTimeout = 1
  VerTTL = 4
  RedisMayFail = FALSE
SPECIFICATION Spec
INVARIANTS CreatedIsListed
CHECK_DEADLOCK FALSE
