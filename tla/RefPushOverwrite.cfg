SPECIFICATION Spec
CONSTANTS
  Clients = {c1, c2}
  Roles <- BothSit
  Refs = {main, dev}
  Tags = {}
  MaxCommit = 3
  MaxSeq = 3
  MaxRetries = 1
  Faulty = {}
  NoRef = NoRef
SYMMETRY Symmetry
PROPERTY NoOverwriteRace
