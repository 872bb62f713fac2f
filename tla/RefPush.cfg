SPECIFICATION Spec
CONSTANTS
  Clients = {c1, c2}
  Roles <- OneSit
  Refs = {main, v1}
  Tags = {v1}
  MaxCommit = 2
  MaxSeq = 3
  MaxRetries = 1
  Faulty = {"read"}
  NoRef = NoRef
SYMMETRY Symmetry
CONSTRAINT RaceOrRead
INVARIANTS
  TypeOK
  ReplayComplete
  MarkerBacked
PROPERTY RetryKeepsOthersWork
