SPECIFICATION Spec
CONSTANTS
  HeadId = {h1, h2}
  Reqs = {r1}
  Readers = {p1}
  ZeroHash = ZeroHash
  NoHead = NoHead
  NoReq = NoReq
  MaxSeq = 2
  Page = 2
  MaxPage = 3
SYMMETRY Symmetry
INVARIANT ListedHeadsStay
