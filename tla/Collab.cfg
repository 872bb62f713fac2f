SPECIFICATION Spec
CONSTANTS
  d1 = d1
  d2 = d2
  p1 = p1
  p2 = p2
  Devices = {d1, d2}
  Procs = {p1, p2}
  Homes <- OneOrTwo
  Topics = {"issue", "pr", "milestone", "label", "gist", "release", "project", "codespace", "run", "secret", "variable"}
  Ids = {1}
  Texts = {t1, t2}
  NoText = NoText
  Absent = Absent
  Unreadable = Unreadable
  FetchLimit = 2
  MaxQueue = 3
  MaxKills <- Kills
  MaxRekeys <- Rekeys
SYMMETRY TextSymmetry
CONSTRAINT PullsApart
CHECK_DEADLOCK FALSE
INVARIANTS
  CacheWhole
  NumbersUnique
  UnaskedMeansStale
  ListingStaleOnly
