SPECIFICATION Spec
CONSTANTS
  LetterA = 1
  LetterB = 2
  NL = 10
  EditCost = 2
  CharLcsCap = 3
  UvarBase = 2
  Devices = {d1, d2}
  Writers = {d1, d2}
  First = d1
  Files = {f}
  Texts <- ToolTexts
  LibTexts = {}
  Absent = Absent
  NoRepo = NoRepo
  Refused = Refused
  MaxCuts = 0
  Owner = Owner
  Other = Other
  MaxCommits = 4
  MaxUpdates = 2
CHECK_DEADLOCK FALSE
INVARIANT DiffBaseIsEncoded
