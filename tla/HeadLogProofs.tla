--------------------------- MODULE HeadLogProofs ---------------------------
(***************************************************************************)
(* Proofs about HeadLog for every number of requests, readers, heads and   *)
(* for every MaxSeq.                                                       *)
(***************************************************************************)
EXTENDS HeadLog, FiniteSetTheorems, WellFoundedInduction, TLAPS

Writing == {"writeLog", "writeTip", "cleanup", "reply"}

\* Exactly the request that holds the lock is past its checks, and it carries a
\* real head.
LockOK ==
    \A r \in Reqs :
        /\ req[r].pc \in Writing <=> lock = r
        /\ req[r].pc # "idle" => req[r].head \in RefHead

\* What the holder of the lock checked stays true until its tip is written: this
\* is what head_lock is for.
HolderOK ==
    \A r \in Reqs :
        /\ req[r].pc \in {"writeLog", "writeTip"} =>
             req[r].head.prev = TipHash /\ req[r].head.seq = TipSeq + 1
        /\ req[r].pc = "writeTip" => logFile[req[r].head.seq] = req[r].head
        /\ req[r].pc \in {"cleanup", "reply"} => tipBin = req[r].head

LegacyOK == tipJson # NoHead => Committed(tipJson)

IInv == TypeOK /\ LockOK /\ HolderOK /\ ChainLinked /\ LegacyOK /\ AckedStayCommitted

USE HeadLogAssumption

\* Init satisfies the type invariant.
LEMMA InitTypeOK == Init => TypeOK
<1> SUFFICES ASSUME Init PROVE TypeOK
  OBVIOUS
<1>1. IdleReq \in ReqState /\ IdleScan \in ScanState /\ IdleTipRead \in TipReadState
  BY DEF IdleReq, IdleScan, IdleTipRead, ReqState, ScanState, TipReadState, Answered
<1>2. /\ logFile \in [1..MaxSeq -> RefHead \cup {NoHead}]
      /\ tipJson \in RefHead \cup {NoHead}
      /\ sent \subseteq RefHead
  BY DEF Init
<1> QED
  BY <1>1, <1>2 DEF Init, TypeOK

\* The tip is a head or absent, and its number never exceeds MaxSeq.
LEMMA TipType == TypeOK => TipSeq \in 0..MaxSeq /\ Tip \in RefHead \cup {NoHead}
BY DEF TypeOK, TipSeq, Tip, RefHead

\* Reading a directory keeps to the types.
LEMMA SinceTypeOK ==
  ASSUME TypeOK, NEW p \in Readers,
         StartSince(p) \/ ReadEntry(p) \/ ShortPage(p) \/ FullPage(p)
  PROVE  TypeOK'
<1>1. Files \subseteq 1..MaxSeq /\ \A s \in Files : logFile[s] \in RefHead
  BY DEF TypeOK, Files
<1>2. \A cursor : Unread(cursor) \in SUBSET (1..MaxSeq)
  BY <1>1 DEF Unread
<1>3. scan[p] \in ScanState
  BY DEF TypeOK
<1>4. Truncated(scan[p].got) \in SUBSET RefHead
  BY <1>3 DEF Truncated, ScanState
<1>5. \E rec \in ScanState : scan' = [scan EXCEPT ![p] = rec]
  <2>1. CASE StartSince(p)
    <3>1. PICK after \in 0..TipSeq :
            scan' = [scan EXCEPT ![p] =
              [pc |-> "list", after |-> after, cursor |-> after,
               todo |-> Unread(after), got |-> {}, all |-> {}, floor |-> TipSeq]]
      BY <2>1 DEF StartSince
    <3>2. after \in 0..MaxSeq /\ TipSeq \in 0..MaxSeq
      BY TipType
    <3>3. [pc |-> "list", after |-> after, cursor |-> after,
           todo |-> Unread(after), got |-> {}, all |-> {}, floor |-> TipSeq] \in ScanState
      BY <1>2, <3>2 DEF ScanState
    <3> QED
      BY <3>1, <3>3
  <2>2. CASE ReadEntry(p)
    <3>1. PICK s \in Unread(scan[p].cursor) :
            scan' = [scan EXCEPT ![p].todo = @ \ {s}, ![p].got = @ \cup {logFile[s]}]
      BY <2>2 DEF ReadEntry
    <3>2. logFile[s] \in RefHead
      BY <1>1, <3>1 DEF Unread
    <3>3. /\ scan[p].todo \ {s} \in SUBSET (1..MaxSeq)
          /\ scan[p].got \cup {logFile[s]} \in SUBSET RefHead
      BY <1>3, <3>2 DEF ScanState
    <3>4. [scan[p] EXCEPT !.todo = @ \ {s}, !.got = @ \cup {logFile[s]}] \in ScanState
      BY <1>3, <3>3 DEF ScanState
    <3> QED
      BY <3>1, <3>4
  <2>3. CASE ShortPage(p)
    <3>1. scan[p].all \cup Truncated(scan[p].got) \in SUBSET RefHead
      BY <1>3, <1>4 DEF ScanState
    <3>2. [scan[p] EXCEPT !.pc = "done", !.all = @ \cup Truncated(scan[p].got),
                          !.got = {}] \in ScanState
      BY <1>3, <3>1 DEF ScanState
    <3> QED
      BY <2>3, <3>2 DEF ShortPage
  <2>4. CASE FullPage(p)
    <3>1. PICK last \in Truncated(scan[p].got) :
            scan' = [scan EXCEPT ![p].cursor = last.seq, ![p].todo = Unread(last.seq),
                                 ![p].all = @ \cup Truncated(scan[p].got), ![p].got = {}]
      BY <2>4 DEF FullPage
    <3>2. last.seq \in 0..MaxSeq
      BY <1>4, <3>1 DEF RefHead
    <3>3. scan[p].all \cup Truncated(scan[p].got) \in SUBSET RefHead
      BY <1>3, <1>4 DEF ScanState
    <3>4. [scan[p] EXCEPT !.cursor = last.seq, !.todo = Unread(last.seq),
             !.all = @ \cup Truncated(scan[p].got), !.got = {}] \in ScanState
      BY <1>2, <1>3, <3>2, <3>3 DEF ScanState
    <3> QED
      BY <3>1, <3>4
  <2> QED
    BY <2>1, <2>2, <2>3, <2>4
<1>6. UNCHANGED <<disk, lock, req, tipRead, sent, acked>>
  BY DEF StartSince, ReadEntry, ShortPage, FullPage
<1> QED
  BY <1>5, <1>6 DEF TypeOK, disk

\* Reading the tip keeps to the types.
LEMMA TipReadTypeOK ==
  ASSUME TypeOK, NEW p \in Readers, StartTip(p) \/ CheckJson(p) \/ ReadTip(p)
  PROVE  TypeOK'
<1>1. TipSeq \in 0..MaxSeq /\ tipRead[p] \in TipReadState
  BY TipType DEF TypeOK
<1>2. \E rec \in TipReadState : tipRead' = [tipRead EXCEPT ![p] = rec]
  <2>1. CASE StartTip(p)
    BY <1>1, <2>1 DEF StartTip, TipReadState
  <2>2. CASE CheckJson(p)
    <3>1. [tipRead[p] EXCEPT !.pc = IF tipJson # NoHead THEN "readJson" ELSE "done"] \in TipReadState
      BY <1>1 DEF TipReadState
    <3> QED
      BY <2>2, <3>1 DEF CheckJson
  <2>3. CASE ReadTip(p)
    <3> DEFINE file == IF tipRead[p].pc = "readBin" THEN tipBin ELSE tipJson
    <3>1. file \in RefHead \cup {NoHead}
      BY DEF TypeOK
    <3>2. [tipRead[p] EXCEPT !.res = file,
                             !.pc = IF file = NoHead THEN "failed" ELSE "done"] \in TipReadState
      BY <1>1, <3>1 DEF TipReadState
    <3> QED
      BY <2>3, <3>2 DEF ReadTip
  <2> QED
    BY <2>1, <2>2, <2>3
<1>3. UNCHANGED <<disk, lock, req, scan, sent, acked>>
  BY DEF StartTip, CheckJson, ReadTip
<1> QED
  BY <1>2, <1>3 DEF TypeOK, disk

\* A request only ever changes its own place in req, to a state of the right type.
LEMMA ReqType ==
  ASSUME TypeOK, NEW r \in Reqs,
         Submit(r) \/ CasRefuse(r) \/ CasAccept(r) \/ Holder(r) \/ Abort(r)
  PROVE  \E rec \in ReqState : req' = [req EXCEPT ![r] = rec]
<1>1. req[r] \in ReqState
  BY DEF TypeOK
<1>2. CASE Submit(r)
  BY <1>2 DEF Submit, ReqState
<1>3. ASSUME NEW outcome \in Answered \cup {"writeLog", "writeTip", "cleanup", "reply"},
             Answer(r, outcome)
      PROVE  \E rec \in ReqState : req' = [req EXCEPT ![r] = rec]
  <2>1. [req[r] EXCEPT !.pc = outcome] \in ReqState
    BY <1>1, <1>3 DEF ReqState
  <2> QED
    BY <1>3, <2>1 DEF Answer
<1> QED
  BY <1>2, <1>3 DEF CasRefuse, CasAccept, Holder, WriteLog, WriteTip, RemoveLegacyTip,
                    Reply, Abort, Answered

\* The append path keeps to the types.
LEMMA AppendTypeOK ==
  ASSUME TypeOK, LockOK, NEW r \in Reqs,
         Submit(r) \/ CasRefuse(r) \/ CasAccept(r) \/ Holder(r) \/ Abort(r)
  PROVE  TypeOK'
<1>1. req' \in [Reqs -> ReqState]
  BY ReqType DEF TypeOK
<1> USE <1>1 DEF TypeOK, disk
<1>2. CASE Submit(r)
  BY <1>2 DEF Submit
<1>3. CASE CasRefuse(r)
  BY <1>3 DEF CasRefuse
<1>4. CASE CasAccept(r)
  BY <1>4 DEF CasAccept
<1>5. CASE WriteLog(r)
  BY <1>5 DEF WriteLog, LockOK
<1>6. CASE WriteTip(r)
  BY <1>6 DEF WriteTip, LockOK
<1>7. CASE RemoveLegacyTip(r)
  BY <1>7 DEF RemoveLegacyTip
<1>8. CASE Reply(r)
  BY <1>8 DEF Reply, LockOK
<1>9. CASE Abort(r)
  BY <1>9 DEF Abort
<1> QED
  BY <1>2, <1>3, <1>4, <1>5, <1>6, <1>7, <1>8, <1>9 DEF Holder

\* A restart keeps to the types.
LEMMA CrashTypeOK == ASSUME TypeOK, Crash PROVE TypeOK'
<1>1. IdleScan \in ScanState /\ IdleTipRead \in TipReadState
  BY DEF IdleScan, IdleTipRead, ScanState, TipReadState
<1>2. ASSUME NEW r \in Reqs PROVE [req[r] EXCEPT !.pc = "error"] \in ReqState
  BY DEF TypeOK, ReqState, Answered
<1> QED
  BY <1>1, <1>2 DEF TypeOK, Crash, disk

-----------------------------------------------------------------------------
\* Steps that write no file leave the log, its tip and its chain as they are.
LEMMA DiskFrame ==
  ASSUME UNCHANGED disk
  PROVE  /\ TipSeq' = TipSeq /\ TipHash' = TipHash /\ Tip' = Tip
         /\ ChainLinked => ChainLinked'
         /\ LegacyOK => LegacyOK'
         /\ \A h : Committed(h) => Committed(h)'
BY DEF disk, TipSeq, TipHash, Tip, Hash, ChainLinked, LegacyOK, Committed

\* The lock and what its holder checked are untouched by a reader.
LEMMA ReqFrame ==
  ASSUME IInv, TypeOK', UNCHANGED <<disk, lock, req, acked>>
  PROVE  IInv'
<1>1. LockOK' /\ HolderOK'
  BY DiskFrame DEF IInv, LockOK, HolderOK, disk
<1>2. AckedStayCommitted'
  BY DiskFrame DEF IInv, AckedStayCommitted
<1> QED
  BY <1>1, <1>2, DiskFrame DEF IInv

\* The empty store and the legacy store satisfy the invariant.
LEMMA InitIInv == Init => IInv
<1> SUFFICES ASSUME Init PROVE IInv
  OBVIOUS
<1>1. TypeOK
  BY InitTypeOK
<1>2. LockOK /\ HolderOK
  BY DEF Init, LockOK, HolderOK, IdleReq, Writing
<1>3. ChainLinked /\ LegacyOK
  <2>1. CASE tipJson = NoHead
    BY <2>1 DEF Init, ChainLinked, LegacyOK, TipSeq, Tip
  <2>2. CASE tipJson # NoHead
    <3>1. PICK h \in RefHead :
            /\ h.seq = 1
            /\ h.prev = ZeroHash
            /\ logFile = [s \in 1..MaxSeq |-> IF s = 1 THEN h ELSE NoHead]
            /\ tipJson = h
      BY <2>2 DEF Init
    <3>2. Tip = h /\ TipSeq = 1 /\ 1 \in 1..MaxSeq /\ h # NoHead
      BY <3>1, <2>2 DEF Init, Tip, TipSeq, RefHead
    <3>3. logFile[1] = h
      BY <3>1, <3>2
    <3> QED
      BY <3>1, <3>2, <3>3 DEF ChainLinked, LegacyOK, Committed
  <2> QED
    BY <2>1, <2>2
<1>4. AckedStayCommitted
  BY DEF Init, AckedStayCommitted
<1> QED
  BY <1>1, <1>2, <1>3, <1>4 DEF IInv

\* Steps of an append that write no file.
LEMMA AppendFrame ==
  ASSUME IInv, TypeOK', NEW r \in Reqs,
         Submit(r) \/ CasRefuse(r) \/ CasAccept(r) \/ Reply(r) \/ Abort(r)
  PROVE  IInv'
<1>1. UNCHANGED disk
  BY DEF Submit, CasRefuse, CasAccept, Reply, Abort
<1>2. lock # NoReq => lock \in Reqs
  BY DEF IInv, TypeOK
<1>3. req \in [Reqs -> ReqState]
  BY DEF IInv, TypeOK
<1>4. LockOK'
  BY <1>3 DEF IInv, LockOK, Writing, Answered, Answer, ReqState,
                    Submit, CasRefuse, CasAccept, Reply, Abort
<1>5. HolderOK'
  BY <1>1, <1>3, DiskFrame DEF IInv, HolderOK, LockOK, Writing, Answered, Answer, ReqState,
                         Submit, CasRefuse, CasAccept, Reply, Abort, disk
<1>6. AckedStayCommitted'
  <2>1. CASE Reply(r)
    <3>1. Committed(req[r].head)
      BY <2>1 DEF Reply, IInv, HolderOK, LockOK, ChainLinked, Tip, RefHead
    <3> QED
      BY <2>1, <3>1, <1>1, DiskFrame DEF Reply, IInv, AckedStayCommitted
  <2>2. CASE acked' = acked
    BY <2>2, <1>1, DiskFrame DEF IInv, AckedStayCommitted
  <2> QED
    BY <2>1, <2>2 DEF Submit, CasRefuse, CasAccept, Abort
<1> QED
  BY <1>1, <1>4, <1>5, <1>6, DiskFrame DEF IInv

\* The log entry goes to the place above the tip, so no committed head moves.
LEMMA WriteLogIInv ==
  ASSUME IInv, TypeOK', NEW r \in Reqs, WriteLog(r)
  PROVE  IInv'
<1> DEFINE h == req[r].head
<1>1. h \in RefHead /\ h.seq = TipSeq + 1 /\ h.prev = TipHash /\ lock = r
  BY DEF IInv, LockOK, HolderOK, WriteLog, Writing
<1>2. TipSeq \in 0..MaxSeq /\ h.seq \in 1..MaxSeq
  BY <1>1, TipType DEF IInv, RefHead
<1>3. Tip' = Tip /\ TipSeq' = TipSeq /\ TipHash' = TipHash
  BY DEF WriteLog, Tip, TipSeq, TipHash, Hash
<1>4. \A s \in 1..TipSeq : logFile'[s] = logFile[s]
  BY <1>1, <1>2 DEF WriteLog, IInv, TypeOK
<1>5. \A g : Committed(g) => Committed(g)'
  BY <1>3, <1>4 DEF Committed
<1>6. ChainLinked'
  <2>1. Tip' # NoHead => Committed(Tip)'
    BY <1>3, <1>5 DEF IInv, ChainLinked, Committed
  <2>2. ASSUME NEW s \in 1..TipSeq
        PROVE  /\ logFile'[s] # NoHead
               /\ logFile'[s].seq = s
               /\ logFile'[s].prev = IF s = 1 THEN ZeroHash ELSE Hash(logFile'[s - 1])
    <3>1. s # 1 => s - 1 \in 1..TipSeq
      BY <1>2
    <3> QED
      BY <1>4, <3>1 DEF IInv, ChainLinked, Hash
  <2> QED
    BY <1>3, <2>1, <2>2 DEF ChainLinked, Hash
<1>7. LockOK'
  BY DEF IInv, LockOK, WriteLog, Answer, Writing, TypeOK, ReqState
<1>8. HolderOK'
  <2>1. logFile'[h.seq] = h
    BY <1>2 DEF WriteLog, IInv, TypeOK
  <2> QED
    BY <1>1, <1>3, <2>1 DEF IInv, LockOK, HolderOK, WriteLog, Answer, Writing, TypeOK, ReqState
<1>9. LegacyOK' /\ AckedStayCommitted'
  BY <1>5 DEF IInv, LegacyOK, AckedStayCommitted, WriteLog
<1> QED
  BY <1>6, <1>7, <1>8, <1>9 DEF IInv

\* The tip moves to the entry just written, which names the old tip.
LEMMA WriteTipIInv ==
  ASSUME IInv, TypeOK', NEW r \in Reqs, WriteTip(r)
  PROVE  IInv'
<1> DEFINE h == req[r].head
<1>1. h \in RefHead /\ h.seq = TipSeq + 1 /\ h.prev = TipHash /\ lock = r /\ logFile[h.seq] = h
  BY DEF IInv, LockOK, HolderOK, WriteTip, Writing
<1>2. TipSeq \in 0..MaxSeq /\ h # NoHead
  BY <1>1, TipType DEF IInv, RefHead
<1>3. Tip' = h /\ TipSeq' = TipSeq + 1 /\ logFile' = logFile
  BY <1>1, <1>2 DEF WriteTip, Tip, TipSeq
<1>4. \A g : Committed(g) => Committed(g)'
  BY <1>2, <1>3 DEF Committed
<1>5. ChainLinked'
  <2>1. h.seq \in 1..(TipSeq + 1) /\ logFile[h.seq] = h
    BY <1>1, <1>2
  <2>2. TipHash = IF TipSeq + 1 = 1 THEN ZeroHash ELSE Hash(logFile[(TipSeq + 1) - 1])
    <3>1. CASE Tip = NoHead
      BY <3>1 DEF TipHash, TipSeq
    <3>2. CASE Tip # NoHead
      BY <3>2, <1>2 DEF IInv, ChainLinked, Committed, TipHash, TipSeq
    <3> QED
      BY <3>1, <3>2
  <2>3. ASSUME NEW s \in 1..(TipSeq + 1)
        PROVE  /\ logFile[s] # NoHead
               /\ logFile[s].seq = s
               /\ logFile[s].prev = IF s = 1 THEN ZeroHash ELSE Hash(logFile[s - 1])
    <3>1. CASE s = TipSeq + 1
      BY <3>1, <1>1, <1>2, <2>2
    <3>2. CASE s \in 1..TipSeq
      BY <3>2 DEF IInv, ChainLinked
    <3> QED
      BY <1>2, <3>1, <3>2
  <2> QED
    BY <1>3, <2>1, <2>3 DEF ChainLinked, Committed, Hash
<1>6. LockOK'
  BY DEF IInv, LockOK, WriteTip, Answer, Writing, TypeOK, ReqState
<1>7. HolderOK'
  BY <1>1 DEF IInv, LockOK, HolderOK, WriteTip, Answer, Writing, TypeOK, ReqState
<1>8. LegacyOK' /\ AckedStayCommitted'
  BY <1>4 DEF IInv, LegacyOK, AckedStayCommitted, WriteTip
<1> QED
  BY <1>5, <1>6, <1>7, <1>8 DEF IInv

\* Dropping tip.json does not move the tip: tip.bin is there by then.
LEMMA RemoveLegacyTipIInv ==
  ASSUME IInv, TypeOK', NEW r \in Reqs, RemoveLegacyTip(r)
  PROVE  IInv'
<1>1. tipBin = req[r].head /\ tipBin # NoHead /\ lock = r
  BY DEF IInv, LockOK, HolderOK, RemoveLegacyTip, Writing, RefHead
<1>2. Tip' = Tip /\ TipSeq' = TipSeq /\ TipHash' = TipHash /\ logFile' = logFile
  BY <1>1 DEF RemoveLegacyTip, Tip, TipSeq, TipHash, Hash
<1>3. ChainLinked' /\ \A g : Committed(g) => Committed(g)'
  BY <1>2 DEF IInv, ChainLinked, Committed, Hash
<1>4. LockOK' /\ HolderOK'
  BY <1>1, <1>2 DEF IInv, LockOK, HolderOK, RemoveLegacyTip, Answer, Writing, TypeOK, ReqState
<1>5. LegacyOK' /\ AckedStayCommitted'
  BY <1>3 DEF IInv, LegacyOK, AckedStayCommitted, RemoveLegacyTip
<1> QED
  BY <1>3, <1>4, <1>5 DEF IInv

\* A crash frees the lock and every request with it; the files stay.
LEMMA CrashIInv == ASSUME IInv, TypeOK', Crash PROVE IInv'
<1>1. UNCHANGED disk
  BY DEF Crash
<1>2. LockOK' /\ HolderOK'
  BY DEF IInv, LockOK, HolderOK, Crash, Answered, Writing, TypeOK, ReqState
<1>3. AckedStayCommitted'
  BY <1>1, DiskFrame DEF IInv, AckedStayCommitted, Crash
<1> QED
  BY <1>1, <1>2, <1>3, DiskFrame DEF IInv

\* Every step preserves the invariant.
LEMMA NextIInv == IInv /\ [Next]_vars => IInv'
<1> SUFFICES ASSUME IInv, [Next]_vars PROVE IInv'
  OBVIOUS
<1>1. TypeOK /\ LockOK
  BY DEF IInv
<1>2. ASSUME NEW r \in Reqs,
             Submit(r) \/ CasRefuse(r) \/ CasAccept(r) \/ Holder(r) \/ Abort(r)
      PROVE  IInv'
  BY <1>1, <1>2, AppendTypeOK, AppendFrame, WriteLogIInv, WriteTipIInv, RemoveLegacyTipIInv
     DEF Holder
<1>3. ASSUME NEW p \in Readers,
             StartSince(p) \/ ReadEntry(p) \/ ShortPage(p) \/ FullPage(p)
      PROVE  IInv'
  <2>1. UNCHANGED <<disk, lock, req, acked>>
    BY <1>3 DEF StartSince, ReadEntry, ShortPage, FullPage
  <2> QED
    BY <1>1, <1>3, <2>1, SinceTypeOK, ReqFrame
<1>4. ASSUME NEW p \in Readers, StartTip(p) \/ CheckJson(p) \/ ReadTip(p)
      PROVE  IInv'
  <2>1. UNCHANGED <<disk, lock, req, acked>>
    BY <1>4 DEF StartTip, CheckJson, ReadTip
  <2> QED
    BY <1>1, <1>4, <2>1, TipReadTypeOK, ReqFrame
<1>5. CASE Crash
  BY <1>1, <1>5, CrashTypeOK, CrashIInv
<1>6. CASE UNCHANGED vars
  <2>1. TypeOK'
    BY <1>1, <1>6 DEF TypeOK, vars
  <2> QED
    BY <1>6, <2>1, ReqFrame DEF vars, disk
<1> QED
  BY <1>2, <1>3, <1>4, <1>5, <1>6 DEF Next

\* The store keeps to its types, whatever is posted, dropped, read or restarted.
THEOREM TypeCorrect == Spec => []TypeOK
<1>1. IInv => TypeOK
  BY DEF IInv
<1> QED
  BY InitIInv, NextIInv, <1>1, PTL DEF Spec

\* The files up to the tip are one hash chain ending in the tip (cas_append).
THEOREM ChainSafe == Spec => []ChainLinked
<1>1. IInv => ChainLinked
  BY DEF IInv
<1> QED
  BY InitIInv, NextIInv, <1>1, PTL DEF Spec

\* An acknowledged head is never lost or displaced (cas_append, Ok(hash)).
THEOREM AckSafe == Spec => []AckedStayCommitted
<1>1. IInv => AckedStayCommitted
  BY DEF IInv
<1> QED
  BY InitIInv, NextIInv, <1>1, PTL DEF Spec

-----------------------------------------------------------------------------
\* No step moves the tip back, takes a committed head away, or brings back a
\* legacy tip.
LEMMA Monotone ==
  ASSUME IInv, [Next]_vars
  PROVE  /\ TipSeq' >= TipSeq
         /\ \A g : Committed(g) => Committed(g)'
         /\ tipBin # NoHead => tipBin' # NoHead
         /\ tipJson' \in {NoHead, tipJson}
<1>1. TipSeq \in 0..MaxSeq
  BY TipType DEF IInv
<1>2. ASSUME NEW r \in Reqs, WriteLog(r)
      PROVE  /\ TipSeq' = TipSeq
             /\ \A s \in 1..TipSeq : logFile'[s] = logFile[s]
             /\ UNCHANGED <<tipBin, tipJson>>
  <2>1. req[r].head.seq = TipSeq + 1
    BY <1>2 DEF IInv, HolderOK, WriteLog
  <2> QED
    BY <1>1, <1>2, <2>1 DEF WriteLog, TipSeq, Tip, IInv, TypeOK
<1>3. ASSUME NEW r \in Reqs, WriteTip(r)
      PROVE  TipSeq' = TipSeq + 1 /\ tipBin' # NoHead /\ UNCHANGED <<logFile, tipJson>>
  BY <1>3 DEF IInv, LockOK, HolderOK, WriteTip, TipSeq, Tip, Writing, RefHead
<1>4. ASSUME NEW r \in Reqs, RemoveLegacyTip(r)
      PROVE  TipSeq' = TipSeq /\ tipJson' \in {NoHead, tipJson} /\ UNCHANGED <<logFile, tipBin>>
  BY <1>4 DEF IInv, LockOK, HolderOK, RemoveLegacyTip, TipSeq, Tip, Writing, RefHead
<1>5. CASE UNCHANGED disk
  BY <1>1, <1>5, DiskFrame DEF disk
<1>6. \/ UNCHANGED disk
      \/ \E r \in Reqs : WriteLog(r) \/ WriteTip(r) \/ RemoveLegacyTip(r)
  BY DEF Next, vars, disk, Holder, Submit, CasRefuse, CasAccept, Reply, Abort, StartSince,
         ReadEntry, ShortPage, FullPage, StartTip, CheckJson, ReadTip, Crash
<1> QED
  BY <1>1, <1>2, <1>3, <1>4, <1>5, <1>6 DEF Committed

\* A store that was just opened has no file beyond its tip.
LEMMA InitBeyondTip == Init => BeyondTip
<1> SUFFICES ASSUME Init PROVE BeyondTip
  OBVIOUS
<1>1. CASE logFile = [s \in 1..MaxSeq |-> NoHead]
  BY <1>1 DEF BeyondTip, Files
<1>2. CASE \E h \in RefHead : /\ h.seq = 1
                              /\ logFile = [s \in 1..MaxSeq |-> IF s = 1 THEN h ELSE NoHead]
                              /\ tipJson = h
  <2>1. TipSeq = 1
    BY <1>2 DEF Init, TipSeq, Tip, RefHead
  <2>2. \A s \in Files : s = 1
    BY <1>2 DEF Files
  <2> QED
    BY <2>1, <2>2 DEF BeyondTip
<1> QED
  BY <1>1, <1>2 DEF Init

\* The one file beyond the tip is what the holder of the lock just wrote, or what
\* such a holder left behind.
LEMMA NextBeyondTip == IInv /\ BeyondTip /\ [Next]_vars => BeyondTip'
<1> SUFFICES ASSUME IInv, BeyondTip, [Next]_vars PROVE BeyondTip'
  OBVIOUS
<1>1. TipSeq \in 0..MaxSeq
  BY TipType DEF IInv
<1>2. ASSUME NEW r \in Reqs, WriteLog(r) PROVE BeyondTip'
  <2>1. /\ req[r].head.seq = TipSeq + 1
        /\ req[r].head.prev = TipHash
    BY <1>2 DEF IInv, HolderOK, WriteLog
  <2>2. TipSeq' = TipSeq /\ TipHash' = TipHash
    BY <1>2 DEF WriteLog, TipSeq, TipHash, Tip, Hash
  <2>3. /\ \A s \in 1..MaxSeq : s # TipSeq + 1 => logFile'[s] = logFile[s]
        /\ TipSeq + 1 \in 1..MaxSeq => logFile'[TipSeq + 1] = req[r].head
    BY <1>2, <2>1 DEF WriteLog, IInv, TypeOK
  <2>4. ASSUME NEW s \in Files', s > TipSeq
        PROVE  s = TipSeq + 1 /\ logFile'[s].seq = s /\ logFile'[s].prev = TipHash
    <3>1. CASE s = TipSeq + 1
      BY <2>1, <2>3, <2>4, <3>1 DEF Files
    <3>2. CASE s # TipSeq + 1
      BY <2>3, <2>4, <3>2 DEF Files, BeyondTip
    <3> QED
      BY <3>1, <3>2
  <2> QED
    BY <2>2, <2>4 DEF BeyondTip
<1>3. ASSUME NEW r \in Reqs, WriteTip(r) PROVE BeyondTip'
  <2>1. TipSeq' = TipSeq + 1 /\ UNCHANGED logFile
    BY <1>3 DEF IInv, LockOK, HolderOK, WriteTip, TipSeq, Tip, Writing, RefHead
  <2>2. Files' = Files /\ \A s \in Files : s > TipSeq => s = TipSeq + 1
    BY <2>1 DEF Files, BeyondTip
  <2>3. \A s \in Files' : ~(s > TipSeq')
    BY <1>1, <2>1, <2>2 DEF Files
  <2> QED
    BY <2>3 DEF BeyondTip
<1>4. ASSUME NEW r \in Reqs, RemoveLegacyTip(r) PROVE BeyondTip'
  <2>1. UNCHANGED logFile /\ Tip' = Tip
    BY <1>4 DEF IInv, LockOK, HolderOK, RemoveLegacyTip, Tip, Writing, RefHead
  <2> QED
    BY <2>1 DEF BeyondTip, Files, TipSeq, TipHash, Hash
<1>5. CASE UNCHANGED disk
  BY <1>5, DiskFrame DEF BeyondTip, Files, disk
<1>6. \/ UNCHANGED disk
      \/ \E r \in Reqs : WriteLog(r) \/ WriteTip(r) \/ RemoveLegacyTip(r)
  BY DEF Next, vars, disk, Holder, Submit, CasRefuse, CasAccept, Reply, Abort, StartSince,
         ReadEntry, ShortPage, FullPage, StartTip, CheckJson, ReadTip, Crash
<1> QED
  BY <1>2, <1>3, <1>4, <1>5, <1>6

\* A crash between the two writes of cas_append leaves at most one head beyond the
\* tip, and one that continues the chain.
THEOREM BeyondTipSafe == Spec => []BeyondTip
BY InitIInv, NextIInv, InitBeyondTip, NextBeyondTip, PTL DEF Spec

\* What a tip request has seen so far.
TipReadSeen(p) ==
    /\ tipRead[p].floor <= TipSeq
    /\ tipRead[p].pc = "readBin" => tipBin # NoHead
    /\ tipRead[p].pc = "checkJson" => tipRead[p].res = NoHead
    /\ tipRead[p].pc \in {"checkJson", "readJson"} /\ tipJson # NoHead =>
         tipJson.seq >= tipRead[p].floor
    /\ tipRead[p].pc = "done" /\ tipRead[p].res # NoHead =>
         Committed(tipRead[p].res) /\ tipRead[p].res.seq >= tipRead[p].floor

TipReadOK == \A p \in Readers : TipReadSeen(p)

\* Every step preserves what tip requests have seen.
LEMMA NextTipReadOK ==
  ASSUME IInv, TipReadOK, [Next]_vars
  PROVE  TipReadOK'
<1>1. /\ TipSeq' >= TipSeq
      /\ \A g : Committed(g) => Committed(g)'
      /\ tipBin # NoHead => tipBin' # NoHead
      /\ tipJson' \in {NoHead, tipJson}
  BY Monotone
<1>2. TipSeq \in 0..MaxSeq
  BY TipType DEF IInv
<1>3. TipSeq' \in 0..MaxSeq
  <2>1. IInv'
    BY NextIInv
  <2> QED
    BY <2>1 DEF IInv, TypeOK, TipSeq, Tip, RefHead
<1>4. tipRead \in [Readers -> TipReadState]
  BY DEF IInv, TypeOK
<1>5. ASSUME NEW q \in Readers, tipRead'[q] = tipRead[q]
      PROVE  TipReadSeen(q)'
  <2>1. tipRead[q].floor \in 0..MaxSeq
    BY <1>4 DEF TipReadState
  <2>2. TipReadSeen(q)
    BY DEF TipReadOK
  <2> QED
    BY <1>1, <1>2, <1>3, <1>5, <2>1, <2>2 DEF TipReadSeen
<1>6. ASSUME NEW p \in Readers, StartTip(p) \/ CheckJson(p) \/ ReadTip(p)
      PROVE  TipReadOK'
  <2>1. UNCHANGED disk
    BY <1>6 DEF StartTip, CheckJson, ReadTip
  <2>2. \A q \in Readers \ {p} : tipRead'[q] = tipRead[q]
    BY <1>4, <1>6 DEF StartTip, CheckJson, ReadTip
  <2>3. tipRead[p].floor \in 0..MaxSeq
    BY <1>4 DEF TipReadState
  <2>4. TipReadSeen(p)
    BY DEF TipReadOK
  <2>5. TipReadSeen(p)'
    <3>1. CASE StartTip(p)
      <4>1. tipRead'[p] = [pc |-> IF tipBin # NoHead THEN "readBin" ELSE "checkJson",
                           res |-> NoHead, floor |-> TipSeq]
        BY <1>4, <3>1 DEF StartTip
      <4>2. tipBin = NoHead /\ tipJson # NoHead => tipJson.seq = TipSeq
        BY DEF TipSeq, Tip
      <4> QED
        BY <1>1, <1>2, <1>3, <2>1, <4>1, <4>2 DEF TipReadSeen, disk
    <3>2. CASE CheckJson(p)
      <4>1. /\ tipRead'[p].pc \in {"readJson", "done"}
            /\ tipRead'[p].floor = tipRead[p].floor
            /\ tipRead'[p].res = tipRead[p].res
            /\ tipRead[p].pc = "checkJson"
        BY <1>4, <3>2 DEF CheckJson, TipReadState
      <4> QED
        BY <1>1, <1>2, <1>3, <2>1, <2>3, <2>4, <4>1 DEF TipReadSeen, disk
    <3>3. CASE ReadTip(p)
      <4> DEFINE file == IF tipRead[p].pc = "readBin" THEN tipBin ELSE tipJson
      <4>1. /\ tipRead'[p].pc = IF file = NoHead THEN "failed" ELSE "done"
            /\ tipRead'[p].floor = tipRead[p].floor
            /\ tipRead'[p].res = file
            /\ tipRead[p].pc \in {"readBin", "readJson"}
        BY <1>4, <3>3 DEF ReadTip, TipReadState
      <4>2. file # NoHead => Committed(file) /\ file.seq >= tipRead[p].floor
        <5>1. CASE tipRead[p].pc = "readBin"
          BY <2>4, <5>1 DEF TipReadSeen, IInv, ChainLinked, Tip, TipSeq
        <5>2. CASE tipRead[p].pc # "readBin"
          BY <2>4, <4>1, <5>2 DEF TipReadSeen, IInv, LegacyOK
        <5> QED
          BY <5>1, <5>2
      <4>3. file # NoHead => Committed(tipRead'[p].res) /\ tipRead'[p].res.seq >= tipRead'[p].floor
        BY <4>1, <4>2
      <4>4. TipSeq' = TipSeq /\ logFile' = logFile
        BY <2>1, DiskFrame DEF disk
      <4> QED
        BY <2>4, <4>1, <4>3, <4>4 DEF TipReadSeen, Committed
    <3> QED
      BY <1>6, <3>1, <3>2, <3>3
  <2> QED
    BY <1>5, <2>2, <2>5 DEF TipReadOK
<1>7. CASE Crash
  <2>1. ASSUME NEW q \in Readers, tipRead'[q] # tipRead[q]
        PROVE  TipReadSeen(q)'
    <3>1. tipRead'[q] = IdleTipRead
      BY <1>7, <2>1 DEF Crash
    <3> QED
      BY <1>3, <3>1 DEF TipReadSeen, IdleTipRead
  <2> QED
    BY <1>5, <2>1 DEF TipReadOK
<1>8. CASE UNCHANGED tipRead
  BY <1>5, <1>8 DEF TipReadOK
<1>9. \/ \E p \in Readers : StartTip(p) \/ CheckJson(p) \/ ReadTip(p)
      \/ Crash
      \/ UNCHANGED tipRead
  BY DEF Next, vars, Holder, Submit, CasRefuse, CasAccept, WriteLog, WriteTip, RemoveLegacyTip,
         Reply, Abort, StartSince, ReadEntry, ShortPage, FullPage
<1> QED
  BY <1>6, <1>7, <1>8, <1>9

\* A tip that is found is committed for good and is not stale (LocalStore::tip).
THEOREM TipReadSafe == Spec => []TipReadFresh
<1>1. Init => TipReadOK
  <2> SUFFICES ASSUME Init PROVE TipReadOK
    OBVIOUS
  <2>1. TipSeq \in 0..MaxSeq
    BY InitTypeOK, TipType
  <2> QED
    BY <2>1 DEF Init, TipReadOK, TipReadSeen, IdleTipRead
<1>2. IInv /\ TipReadOK /\ [Next]_vars => TipReadOK'
  BY NextTipReadOK
<1>3. TipReadOK => TipReadFresh
  BY DEF TipReadOK, TipReadSeen, TipReadFresh
<1> QED
  BY InitIInv, NextIInv, <1>1, <1>2, <1>3, PTL DEF Spec

-----------------------------------------------------------------------------
\* What a listing has so far: every head that was in the log when it began is in the
\* pages before the cursor, read for the page after it, or still to be read.
ScanSeen(p) ==
    LET c == scan[p] IN
    /\ IsFiniteSet(c.got)
    /\ c.pc # "idle" => c.floor <= TipSeq
    /\ c.pc = "list" => \A s \in (c.after + 1)..c.floor :
         IF s <= c.cursor THEN logFile[s] \in c.all ELSE s \in c.todo \/ logFile[s] \in c.got
    /\ c.pc = "done" => \A s \in (c.after + 1)..c.floor : logFile[s] \in c.all

ScanOK == \A p \in Readers : ScanSeen(p)

\* The files up to the tip stay, and hold heads with the number of the file.
LEMMA LogStays ==
  ASSUME IInv, [Next]_vars
  PROVE  \A s \in 1..TipSeq : /\ s \in Files /\ logFile[s].seq = s
                              /\ logFile'[s] = logFile[s] /\ s <= TipSeq'
<1> TAKE s \in 1..TipSeq
<1>0. TipSeq \in 0..MaxSeq
  BY TipType DEF IInv
<1>1. logFile[s] # NoHead /\ logFile[s].seq = s
  BY DEF IInv, ChainLinked
<1>2. Committed(logFile[s])
  BY <1>0, <1>1 DEF Committed
<1>3. TipSeq' \in Nat
  <2>1. IInv'
    BY NextIInv
  <2> QED
    BY <2>1 DEF IInv, TypeOK, TipSeq, Tip, RefHead
<1>4. PICK h : h = logFile[s]
  OBVIOUS
<1>5. Committed(h)'
  BY <1>2, <1>4, Monotone
<1>6. logFile'[s] = logFile[s] /\ s \in 1..TipSeq'
  BY <1>1, <1>4, <1>5 DEF Committed
<1> QED
  BY <1>0, <1>1, <1>3, <1>6 DEF Files

\* A page that comes out short holds every head that was read: `limit` is what the
\* client asked for, since Page <= MaxPage.
LEMMA ShortIsAll ==
  ASSUME NEW heads \in SUBSET RefHead, IsFiniteSet(heads), Cardinality(Truncated(heads)) < Page
  PROVE  Truncated(heads) = heads
<1> SUFFICES ASSUME heads \ Truncated(heads) # {} PROVE FALSE
  BY DEF Truncated
<1> DEFINE Below(h) == {g \in heads : g.seq < h.seq}
           Cut == {h.seq : h \in heads \ Truncated(heads)}
<1>1. PageLimit = Page /\ Page \in Nat
  BY PageAssumption DEF PageLimit
<1>2. Cut # {} /\ \A x \in Cut : x \in Nat
  BY DEF RefHead
<1>3. PICK x \in Cut : \A y \in Cut : ~(<<y, x>> \in OpToRel(<, Nat))
  <2> HIDE DEF Cut
  <2> QED
    BY <1>2, NatLessThanWellFounded, WFMin, Zenon
<1>4. \A y \in Cut : ~(y < x)
  <2> HIDE DEF Cut
  <2> QED
    BY <1>2, <1>3 DEF OpToRel
<1>5. PICK h \in heads \ Truncated(heads) : h.seq = x
  OBVIOUS
<1>6. Below(h) \in SUBSET Truncated(heads)
  BY <1>4, <1>5
<1>7. IsFiniteSet(Truncated(heads)) /\ Truncated(heads) \in SUBSET heads
  BY FS_Subset DEF Truncated
<1>8. Cardinality(Below(h)) <= Cardinality(Truncated(heads))
  <2> HIDE DEF Below
  <2> QED
    BY <1>6, <1>7, FS_Subset
<1>9. Cardinality(Below(h)) \in Nat /\ Cardinality(Truncated(heads)) \in Nat
  <2>1. IsFiniteSet(Below(h))
    BY FS_Subset
  <2> HIDE DEF Below
  <2> QED
    BY <1>7, <2>1, FS_CardinalityType
<1>10. ~(Cardinality(Below(h)) < PageLimit)
  BY <1>5 DEF Truncated
<1> HIDE DEF Below
<1> QED
  BY <1>1, <1>8, <1>9, <1>10

\* With a head of a page, every head that was read and has a smaller number is on it.
LEMMA PageDownward ==
  ASSUME NEW heads \in SUBSET RefHead, IsFiniteSet(heads), NEW last \in Truncated(heads),
         NEW h \in heads, h.seq <= last.seq
  PROVE  h \in Truncated(heads)
<1> DEFINE Below(g) == {f \in heads : f.seq < g.seq}
<1>0. h.seq \in Nat /\ last.seq \in Nat /\ last \in heads
  BY DEF RefHead, Truncated
<1>1. Below(h) \in SUBSET Below(last)
  BY <1>0 DEF RefHead
<1>2. IsFiniteSet(Below(last)) /\ IsFiniteSet(Below(h))
  BY FS_Subset
<1>3. Cardinality(Below(last)) < PageLimit
  BY DEF Truncated
<1>4. /\ Cardinality(Below(h)) <= Cardinality(Below(last))
      /\ Cardinality(Below(h)) \in Nat /\ Cardinality(Below(last)) \in Nat
  <2> HIDE DEF Below
  <2> QED
    BY <1>1, <1>2, FS_Subset, FS_CardinalityType
<1>5. PageLimit \in Nat
  BY PageAssumption DEF PageLimit
<1>6. Cardinality(Below(h)) < PageLimit
  <2> HIDE DEF Below
  <2> QED
    BY <1>3, <1>4, <1>5
<1> QED
  BY <1>6 DEF Truncated

\* A step of the listing itself keeps what it has seen.
LEMMA ScanStep ==
  ASSUME IInv, ScanOK, [Next]_vars, NEW p \in Readers,
         StartSince(p) \/ ReadEntry(p) \/ ShortPage(p) \/ FullPage(p)
  PROVE  ScanSeen(p)'
<1> DEFINE c == scan[p]
<1>0. scan \in [Readers -> ScanState] /\ c \in ScanState /\ ScanSeen(p)
  BY DEF IInv, TypeOK, ScanOK
<1>1. TipSeq \in 0..MaxSeq
  BY TipType DEF IInv
<1>2. TipSeq' = TipSeq /\ logFile' = logFile
  <2>1. UNCHANGED disk
    BY DEF StartSince, ReadEntry, ShortPage, FullPage
  <2> QED
    BY <2>1, DiskFrame DEF disk
<1>3. /\ c.after \in 0..MaxSeq /\ c.cursor \in 0..MaxSeq /\ c.floor \in 0..MaxSeq
      /\ c.got \in SUBSET RefHead /\ IsFiniteSet(c.got)
  BY <1>0 DEF ScanState, ScanSeen
<1>4. CASE StartSince(p)
  <2>1. PICK after \in 0..TipSeq :
          scan'[p] = [pc |-> "list", after |-> after, cursor |-> after,
                      todo |-> Unread(after), got |-> {}, all |-> {}, floor |-> TipSeq]
    BY <1>0, <1>4 DEF StartSince
  <2>2. \A s \in (after + 1)..TipSeq : ~(s <= after) /\ s \in Unread(after)
    BY <1>1, LogStays DEF Unread
  <2>3. PICK un : un = Unread(after)
    OBVIOUS
  <2>4. IsFiniteSet({})
    BY FS_EmptySet
  <2> QED
    BY <1>1, <1>2, <2>1, <2>2, <2>3, <2>4 DEF ScanSeen
<1>5. CASE ReadEntry(p)
  <2>1. PICK s \in Unread(c.cursor) :
          scan' = [scan EXCEPT ![p].todo = @ \ {s}, ![p].got = @ \cup {logFile[s]}]
    BY <1>5 DEF ReadEntry
  <2>2. /\ scan'[p].todo = c.todo \ {s} /\ scan'[p].got = c.got \cup {logFile[s]}
        /\ scan'[p].pc = c.pc /\ scan'[p].after = c.after /\ scan'[p].floor = c.floor
        /\ scan'[p].cursor = c.cursor /\ scan'[p].all = c.all
    BY <1>0, <2>1 DEF ScanState
  <2>3. IsFiniteSet(scan'[p].got)
    BY <1>3, <2>2, FS_AddElement
  <2> QED
    BY <1>0, <1>2, <2>2, <2>3 DEF ScanSeen
<1>6. CASE ShortPage(p)
  <2>1. c.todo = {} /\ c.pc = "list" /\ Cardinality(Truncated(c.got)) < Page
    BY <1>6 DEF ShortPage
  <2>2. Truncated(c.got) = c.got
    BY <1>3, <2>1, ShortIsAll
  <2>3. /\ scan'[p].pc = "done" /\ scan'[p].all = c.all \cup c.got /\ scan'[p].got = {}
        /\ scan'[p].after = c.after /\ scan'[p].floor = c.floor
    BY <1>0, <1>6, <2>2 DEF ShortPage, ScanState
  <2>4. \A s \in (c.after + 1)..c.floor : logFile[s] \in c.all \cup c.got
    BY <1>0, <1>3, <2>1 DEF ScanSeen
  <2>5. IsFiniteSet({})
    BY FS_EmptySet
  <2> QED
    BY <1>0, <1>2, <2>1, <2>3, <2>4, <2>5 DEF ScanSeen
<1>7. CASE FullPage(p)
  <2> DEFINE page == Truncated(c.got)
  <2>1. c.todo = {} /\ c.pc = "list"
    BY <1>7 DEF FullPage
  <2>2. PICK last \in page :
          scan' = [scan EXCEPT ![p].cursor = last.seq, ![p].todo = Unread(last.seq),
                               ![p].all = @ \cup page, ![p].got = {}]
    BY <1>7 DEF FullPage
  <2>3. PICK un, pg : un = Unread(last.seq) /\ pg = page
    OBVIOUS
  <2>4. /\ scan'[p].pc = "list" /\ scan'[p].all = c.all \cup pg /\ scan'[p].got = {}
        /\ scan'[p].after = c.after /\ scan'[p].floor = c.floor
        /\ scan'[p].cursor = last.seq /\ scan'[p].todo = un
    <3> HIDE DEF page
    <3> QED
      BY <1>0, <2>1, <2>2, <2>3 DEF ScanState
  <2>5. last \in c.got /\ last.seq \in Nat
    BY <1>3 DEF Truncated, RefHead
  <2>6. ASSUME NEW s \in (c.after + 1)..c.floor
        PROVE  IF s <= last.seq THEN logFile[s] \in c.all \cup pg ELSE s \in un
    <3>1. s \in 1..TipSeq /\ c.floor <= TipSeq
      BY <1>0, <1>1, <1>3, <2>1 DEF ScanSeen
    <3>2. s \in Files /\ logFile[s].seq = s
      BY <3>1, LogStays
    <3>3. s <= c.cursor => logFile[s] \in c.all
      BY <1>0, <2>1 DEF ScanSeen
    <3>4. ~(s <= c.cursor) => logFile[s] \in c.got
      BY <1>0, <2>1 DEF ScanSeen
    <3>5. s <= last.seq /\ logFile[s] \in c.got => logFile[s] \in pg
      <4> HAVE s <= last.seq /\ logFile[s] \in c.got
      <4>1. logFile[s].seq <= last.seq
        BY <3>2
      <4> QED
        BY <1>3, <2>3, <4>1, PageDownward
    <3>6. ~(s <= last.seq) => s \in un
      BY <2>3, <2>5, <3>1, <3>2 DEF Unread
    <3> QED
      BY <3>3, <3>4, <3>5, <3>6
  <2>7. IsFiniteSet({})
    BY FS_EmptySet
  <2> QED
    BY <1>0, <1>2, <2>1, <2>4, <2>6, <2>7 DEF ScanSeen
<1> QED
  BY <1>4, <1>5, <1>6, <1>7

\* Every step preserves what the listings have seen.
LEMMA NextScanOK ==
  ASSUME IInv, ScanOK, [Next]_vars
  PROVE  ScanOK'
<1>1. scan \in [Readers -> ScanState] /\ TipSeq \in 0..MaxSeq
  BY TipType DEF IInv, TypeOK
<1>2. ASSUME NEW q \in Readers, scan'[q] = scan[q]
      PROVE  ScanSeen(q)'
  <2>1. scan[q].floor \in 0..MaxSeq /\ scan[q].after \in 0..MaxSeq /\ ScanSeen(q)
    BY <1>1 DEF ScanState, ScanOK
  <2>2. TipSeq' \in Nat /\ TipSeq' >= TipSeq
    <3>1. IInv'
      BY NextIInv
    <3>2. TipSeq' \in 0..MaxSeq
      BY <3>1 DEF IInv, TypeOK, TipSeq, Tip, RefHead
    <3> QED
      BY <3>2, Monotone
  <2>3. scan[q].pc # "idle" => \A s \in (scan[q].after + 1)..scan[q].floor : logFile'[s] = logFile[s]
    BY <1>1, <2>1, LogStays DEF ScanSeen
  <2> QED
    BY <1>1, <1>2, <2>1, <2>2, <2>3 DEF ScanSeen
<1>3. ASSUME NEW p \in Readers, StartSince(p) \/ ReadEntry(p) \/ ShortPage(p) \/ FullPage(p)
      PROVE  ScanOK'
  <2>1. \A q \in Readers \ {p} : scan'[q] = scan[q]
    BY <1>1, <1>3 DEF StartSince, ReadEntry, ShortPage, FullPage
  <2>2. ScanSeen(p)'
    BY <1>3, ScanStep
  <2> QED
    BY <1>2, <2>1, <2>2 DEF ScanOK
<1>4. CASE Crash
  <2>1. ASSUME NEW q \in Readers, scan'[q] # scan[q]
        PROVE  ScanSeen(q)'
    <3>1. scan'[q] = IdleScan
      BY <1>4, <2>1 DEF Crash
    <3> QED
      BY <3>1, FS_EmptySet DEF ScanSeen, IdleScan
  <2> QED
    BY <1>2, <2>1 DEF ScanOK
<1>5. CASE UNCHANGED scan
  BY <1>2, <1>5 DEF ScanOK
<1>6. \/ \E p \in Readers : StartSince(p) \/ ReadEntry(p) \/ ShortPage(p) \/ FullPage(p)
      \/ Crash
      \/ UNCHANGED scan
  BY DEF Next, vars, Holder, Submit, CasRefuse, CasAccept, WriteLog, WriteTip, RemoveLegacyTip,
         Reply, Abort, StartTip, CheckJson, ReadTip
<1> QED
  BY <1>3, <1>4, <1>5, <1>6

\* heads_since misses no head that was in the log when it was called, for every page
\* size and every interleaving with appends (HttpClient::heads_since, LocalStore::since).
THEOREM SinceSafe == Spec => []SinceMissesNothing
<1>1. Init => ScanOK
  <2> SUFFICES ASSUME Init, NEW p \in Readers PROVE ScanSeen(p)
    BY DEF ScanOK
  <2>1. scan[p] = IdleScan
    BY DEF Init
  <2> QED
    BY <2>1, FS_EmptySet DEF ScanSeen, IdleScan
<1>2. IInv /\ ScanOK /\ [Next]_vars => ScanOK'
  BY NextScanOK
<1>3. ScanOK => SinceMissesNothing
  BY DEF ScanOK, ScanSeen, SinceMissesNothing
<1> QED
  BY InitIInv, NextIInv, <1>1, <1>2, <1>3, PTL DEF Spec

-----------------------------------------------------------------------------
\* The log up to the tip, as a sequence.
LEMMA ChainSeq ==
  ASSUME IInv
  PROVE  /\ [s \in 1..TipSeq |-> logFile[s]] \in Seq(RefHead)
         /\ Len([s \in 1..TipSeq |-> logFile[s]]) = TipSeq
<1>1. TipSeq \in Nat /\ \A s \in 1..TipSeq : logFile[s] \in RefHead
  BY TipType DEF IInv, TypeOK, ChainLinked
<1> QED
  BY <1>1

\* A step of the store is a step of the promised log, or none.
LEMMA StepRefines ==
  ASSUME IInv, IInv', [Next]_vars
  PROVE  [Abstract!SpecNext]_(Abstract!specVars)
<1> DEFINE C == [s \in 1..TipSeq |-> logFile[s]]
<1>1. TipSeq \in 0..MaxSeq
  BY TipType DEF IInv
<1>2. C \in Seq(RefHead) /\ Len(C) = TipSeq
  BY ChainSeq
<1>3. ASSUME NEW r \in Reqs, WriteTip(r)
      PROVE  \E h \in RefHead : Abstract!AppendHead(h)
  <2> DEFINE h == req[r].head
  <2>1. /\ h \in RefHead /\ h.seq = TipSeq + 1 /\ h.prev = TipHash /\ logFile[h.seq] = h
        /\ h # NoHead
    BY <1>3 DEF IInv, LockOK, HolderOK, WriteTip, Writing, RefHead
  <2>2. TipSeq' = TipSeq + 1 /\ logFile' = logFile /\ acked' = acked
    BY <1>1, <1>3, <2>1 DEF WriteTip, Tip, TipSeq
  <2>3. TipHash = IF Len(C) = 0 THEN ZeroHash ELSE Hash(C[Len(C)])
    <3>1. CASE Tip = NoHead
      BY <1>2, <3>1 DEF TipHash, TipSeq
    <3>2. CASE Tip # NoHead
      BY <1>1, <1>2, <3>2 DEF IInv, ChainLinked, Committed, TipHash, TipSeq
    <3> QED
      BY <3>1, <3>2
  <2>4. [s \in 1..TipSeq' |-> logFile'[s]] = Append(C, h)
    BY <1>1, <1>2, <2>1, <2>2
  <2> QED
    BY <1>2, <2>1, <2>2, <2>3, <2>4 DEF Abstract!AppendHead, Abstract!TailHash, Abstract!Hash, Hash
<1>4. ASSUME NEW r \in Reqs, Reply(r)
      PROVE  \E h \in RefHead : Abstract!Acknowledge(h)
  <2> DEFINE h == req[r].head
  <2>1. h \in RefHead /\ tipBin = h /\ h # NoHead
    BY <1>4 DEF IInv, LockOK, HolderOK, Reply, Writing, RefHead
  <2>2. h.seq \in 1..TipSeq /\ C[h.seq] = h
    BY <2>1 DEF IInv, ChainLinked, Committed, Tip
  <2>3. TipSeq' = TipSeq /\ logFile' = logFile /\ acked' = acked \cup {h}
    BY <1>4, DiskFrame DEF Reply, disk
  <2> QED
    BY <1>2, <2>1, <2>2, <2>3 DEF Abstract!Acknowledge
<1>5. CASE UNCHANGED <<disk, acked>>
  BY <1>5, DiskFrame DEF Abstract!specVars, disk
<1>6. ASSUME NEW r \in Reqs, WriteLog(r)
      PROVE  UNCHANGED <<[s \in 1..TipSeq |-> logFile[s]], acked>>
  <2>1. req[r].head.seq = TipSeq + 1
    BY <1>6 DEF IInv, HolderOK, WriteLog
  <2>2. TipSeq' = TipSeq /\ acked' = acked
    BY <1>6 DEF WriteLog, TipSeq, Tip
  <2>3. \A s \in 1..TipSeq : logFile'[s] = logFile[s]
    BY <1>1, <1>6, <2>1 DEF WriteLog, IInv, TypeOK
  <2> QED
    BY <2>2, <2>3
<1>7. ASSUME NEW r \in Reqs, RemoveLegacyTip(r)
      PROVE  UNCHANGED <<[s \in 1..TipSeq |-> logFile[s]], acked>>
  <2>1. TipSeq' = TipSeq /\ logFile' = logFile /\ acked' = acked
    BY <1>7 DEF IInv, LockOK, HolderOK, RemoveLegacyTip, TipSeq, Tip, Writing, RefHead
  <2> QED
    BY <2>1
<1>8. \/ UNCHANGED <<disk, acked>>
      \/ \E r \in Reqs : WriteLog(r) \/ WriteTip(r) \/ RemoveLegacyTip(r) \/ Reply(r)
  BY DEF Next, vars, disk, Holder, Submit, CasRefuse, CasAccept, Abort, StartSince,
         ReadEntry, ShortPage, FullPage, StartTip, CheckJson, ReadTip, Crash
<1> QED
  BY <1>3, <1>4, <1>5, <1>6, <1>7, <1>8
     DEF Abstract!SpecNext, Abstract!specVars, Abstract!RefHead, RefHead

\* The first state of the store is a first state of the promised log.
LEMMA InitRefines == Init => Abstract!SpecInit
<1> SUFFICES ASSUME Init PROVE Abstract!SpecInit
  OBVIOUS
<1> DEFINE C == [s \in 1..TipSeq |-> logFile[s]]
<1>1. Len(C) = TipSeq
  BY InitIInv, ChainSeq
<1>2. acked = {}
  BY DEF Init
<1>3. TipSeq = 0 \/ (TipSeq = 1 /\ C[1].seq = 1 /\ C[1].prev = ZeroHash)
  <2>1. CASE tipJson = NoHead
    BY <2>1 DEF Init, TipSeq, Tip
  <2>2. CASE tipJson # NoHead
    <3>1. TipSeq = 1
      BY <2>2 DEF Init, TipSeq, Tip
    <3>2. 1 \in 1..TipSeq
      BY <3>1
    <3>3. logFile[1].seq = 1 /\ logFile[1].prev = ZeroHash
      BY <3>1, InitIInv DEF IInv, ChainLinked
    <3> QED
      BY <3>1, <3>2, <3>3
  <2> QED
    BY <2>1, <2>2
<1> QED
  BY <1>1, <1>2, <1>3 DEF Abstract!SpecInit

\* The store implements the append-only log that `trait HeadLog` promises.
THEOREM Refinement == Spec => ImplementsHeadLogSpec
<1>1. Init => Abstract!SpecInit
  BY InitRefines
<1>2. IInv /\ IInv' /\ [Next]_vars => [Abstract!SpecNext]_(Abstract!specVars)
  BY StepRefines
<1> QED
  BY InitIInv, NextIInv, <1>1, <1>2, PTL DEF Spec, ImplementsHeadLogSpec, Abstract!LogSpec
=============================================================================
