CONSTANTS
  r1 = r1
  r2 = r2
  r3 = r3
  g1 = g1
  u1 = u1
  k1 = k1
  None = None
  NoOne = None
  Guests = {g1}
  Users = {u1}
  Cids = {k1}
  LinkedUser <- MCLinked
  Requests = {r1, r2, r3}
  MaxSessions = 3
  DailyQuota = 1
  Threshold = 3
  LastWindow = 1
  AnswerEnds = {"complete"}
  Submissions <- DenialSubmissions
SPECIFICATION Spec
INVARIANT QuotaBound
