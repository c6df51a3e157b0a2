CONSTANTS
  r1 = r1
  r2 = r2
  e1 = e1
  e2 = e2
  e3 = e3
  Forever = Forever
  None = None
  Readers = {r1}
  Events = {e1, e2}
  Kinds = {"unread", "page", " page ", "later"}
  Cacheable = {"unread", "page", " page "}
  Counts = {"unread"}
  KeyText <- MCKeyText
  Regards <- MCRegards
  TTL <- MCTTL
  ReqTime = 1
  VerTTL = 3
SPECIFICATION Spec
INVARIANTS TypeOK MarksAreShown
SYMMETRY EventsAlike
CONSTRAINT OneCopy
PROPERTIES ImplementsRecentReads
