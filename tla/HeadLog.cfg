SPECIFICATION Spec
CONSTANTS
  HeadId = {h1, h2, h3}
  Reqs = {r1, r2}
  Readers = {p1}
  ZeroHash = ZeroHash
  NoHead = NoHead
  NoReq = NoReq
  MaxSeq = 3
  Page = 2
  MaxPage = 3
SYMMETRY Symmetry
CONSTRAINT WritersOrReaders
INVARIANTS
  TypeOK
  ChainLinked
  AckedStayCommitted
  BeyondTip
  SinceMissesNothing
  TipReadFresh
PROPERTY ImplementsHeadLogSpec
