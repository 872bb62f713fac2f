SPECIFICATION FairSpec
CONSTANTS
  HeadId = {h1, h2}
  Reqs = {r1, r2}
  Readers = {}
  ZeroHash = ZeroHash
  NoHead = NoHead
  NoReq = NoReq
  MaxSeq = 2
  Page = 1
  MaxPage = 1
PROPERTY EveryPostAnswered
