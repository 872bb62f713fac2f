SPECIFICATION Spec
CONSTANTS
  Users = {o, u}
  Owner = o
  Tokens = {t1, t2, t3}
  NoUser = NoUser
  NoToken = NoToken
  Unreadable = Unreadable
  Absent = Absent
  Slots = {1, 2}
  RepoIds = {1, 2}
  Blobs = {b1}
  PageLimit = 1
  Families = {"accounts", "repo", "members", "queue", "blob", "index", "keys"}
  MaxFaults = 1
  MaxRequests = 4
CHECK_DEADLOCK FALSE
INVARIANTS
  AnswersDurable
  AckedStay
  AckedBlobWhole
  
