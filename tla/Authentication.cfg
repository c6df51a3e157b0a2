CONSTANTS
  e1 = e1
  e2 = e2
  r1 = r1
  r2 = r2
  s1 = s1
  s2 = s2
  s3 = s3
  s4 = s4
  t1 = t1
  t2 = t2
  k1 = k1
  k2 = k2
  Absent = Absent
  NoEmail = NoEmail
  None = None
  Requests = {r1, r2}
  Subjects = {s1, s2, s3, s4}
  Emails = {e1, e2}
  MaxEntries = 2
  EmailTTL = 2
  NegTTL = 1
  LookupTime = 1
  MaxOrder = 4
  MaxChanges = 2
  Tokens = {t1, t2}
  Kids = {k1, k2}
  KeysTTL = 1
  FetchTime = 1
  MaxRotations = 2
SPECIFICATION MCSpec
INVARIANTS TypeOK Bounded JwksTypeOK PublishedKeyIsFound MutexHeldBriefly
PROPERTIES OnlyFullEvicts StoredUnlessLeftover AnswersAreRecent WithdrawnKeyDies
