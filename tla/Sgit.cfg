SPECIFICATION Spec
CONSTANTS
  LetterA = 1
  LetterB = 2
  NL = 10
  EditCost = 2
  CharLcsCap = 3
  UvarBase = 2
  Devices = {d1, d2}
  Writers = {d1}
  First = d1
  Files = {f, g}
  Texts <- ToolTexts
  LibTexts <- AllTexts
  Absent = Absent
  NoRepo = NoRepo
  Refused = Refused
  MaxCuts = 1
  Owner = Owner
  Other = Other
  MaxCommits = 3
  MaxUpdates = 2
CHECK_DEADLOCK FALSE
INVARIANTS
  RemoteDecodes
  RemoteVerifies
  PullFaithful
