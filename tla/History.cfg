SPECIFICATION Spec
CONSTANTS
  c1 = c1
  c2 = c2
  c3 = c3
  Clients = {c1, c2, c3}
  MaxSeq = 3
  MaxEpoch = 1
  MaxHash = 4
  MacKey <- PartitionedKeys
  Admins = {"a1", "a2"}
SYMMETRY Symmetry
CHECK_DEADLOCK FALSE
INVARIANTS
  TypeOK
  HonestViewsAgree
  AgreementReachesBack
  SplitDetected
  CommitmentNeverDecides
  OneHistory
  HonestFetch
  HonestReceipts
  ReceiptBinds
PROPERTY
  ForkedForEver
