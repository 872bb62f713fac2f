------------------------------ MODULE HeadLog ------------------------------
(***************************************************************************)
(* The head log of one repository as LocalStore keeps it on disk           *)
(* (safehub-storage/src/local.rs) and as the server's routes and the       *)
(* client's paging loop use it.                                            *)
(*                                                                         *)
(*   logFile[n]  heads/{repo}/log/{n}.bin (or a legacy .json)              *)
(*   tipBin      heads/{repo}/tip.bin                                      *)
(*   tipJson     heads/{repo}/tip.json, left by an older layout            *)
(*   lock        LocalStore::head_lock                                     *)
(*   req[r]      one append_head request in flight                         *)
(*   scan[p]     one HttpClient::heads_since call, page by page            *)
(*   tipRead[p]  one head_tip request                                      *)
(*                                                                         *)
(* Only cas_append takes the lock, and only it writes; `since` and `tip`   *)
(* read the files with no lock, one file at a time.  atomic_write_sync is  *)
(* one step: a reader sees the old file or the new one.  A crash, a        *)
(* disconnect (the handler's future is dropped at an await) or an I/O      *)
(* error may fall between any two of the writes.                           *)
(*                                                                         *)
(* Left out: the heads' sealed contents, and a file operation that the     *)
(* blocking pool completes after its request was dropped.                  *)
(***************************************************************************)
EXTENDS Naturals, FiniteSets, Sequences

CONSTANTS HeadId, ZeroHash, MaxSeq,
          NoHead,   \* an absent file
          NoReq,    \* nobody holds the lock
          Reqs,     \* slots for append_head requests in flight
          Readers,  \* slots for readers
          Page,     \* heads a client asks for in one page (PAGE)
          MaxPage   \* heads the server returns at most (MAX_HEADS_PAGE)

ASSUME HeadLogAssumption ==
    /\ ZeroHash \notin HeadId
    /\ MaxSeq \in Nat
    /\ NoReq \notin Reqs
    /\ NoHead \notin [id : HeadId, seq : 0..MaxSeq, prev : HeadId \cup {ZeroHash}]

\* What heads_since (client) relies on when it takes a short page for the end.
ASSUME PageAssumption == Page \in Nat \ {0} /\ MaxPage \in Nat /\ Page <= MaxPage

VARIABLES logFile, tipBin, tipJson, lock, req, scan, tipRead,
          sent,  \* history: the heads that were ever submitted
          acked  \* history: the heads answered with Ok

disk == <<logFile, tipBin, tipJson>>
vars == <<logFile, tipBin, tipJson, lock, req, scan, tipRead, sent, acked>>

RefHead == [id : HeadId, seq : 0..MaxSeq, prev : HeadId \cup {ZeroHash}]
Hash(h) == h.id

-----------------------------------------------------------------------------
\* LocalStore::tip: tip.bin, else the legacy tip.json, else no tip.
Tip == IF tipBin # NoHead THEN tipBin ELSE tipJson
TipSeq == IF Tip = NoHead THEN 0 ELSE Tip.seq
TipHash == IF Tip = NoHead THEN ZeroHash ELSE Hash(Tip)

Files == {s \in 1..MaxSeq : logFile[s] # NoHead}

IdleReq == [pc |-> "idle", head |-> NoHead]
IdleScan == [pc |-> "idle", after |-> 0, cursor |-> 0, todo |-> {}, got |-> {},
             all |-> {}, floor |-> 0]
IdleTipRead == [pc |-> "idle", res |-> NoHead, floor |-> 0]

\* LocalStore::open on an empty root, or on one an older version left behind,
\* which holds one head and names it in tip.json.
Init ==
    /\ \/ /\ logFile = [s \in 1..MaxSeq |-> NoHead]
          /\ tipJson = NoHead
          /\ sent = {}
       \/ \E h \in RefHead :
            /\ h.seq = 1
            /\ h.prev = ZeroHash
            /\ logFile = [s \in 1..MaxSeq |-> IF s = 1 THEN h ELSE NoHead]
            /\ tipJson = h
            /\ sent = {h}
    /\ tipBin = NoHead
    /\ lock = NoReq
    /\ req = [r \in Reqs |-> IdleReq]
    /\ scan = [p \in Readers |-> IdleScan]
    /\ tipRead = [p \in Readers |-> IdleTipRead]
    /\ acked = {}

-----------------------------------------------------------------------------
(* append_head: POST /repos/{repo}/heads *)

Answered == {"idle", "ok", "conflict", "error"}

\* A client posts a head.  The server has no say in what it contains; a head
\* already posted may arrive again, and otherwise its identity is new.
Submit(r) ==
    /\ req[r].pc \in Answered
    /\ \E h \in RefHead :
        /\ h \in sent \/ \A g \in sent : g.id # h.id
        /\ req' = [req EXCEPT ![r] = [pc |-> "waiting", head |-> h]]
        /\ sent' = sent \cup {h}
    /\ UNCHANGED <<disk, lock, scan, tipRead, acked>>

Answer(r, outcome) == req' = [req EXCEPT ![r].pc = outcome]

\* cas_append up to its first write: take the lock, read the tip, compare.
CasRefuse(r) ==
    LET h == req[r].head IN
    /\ req[r].pc = "waiting"
    /\ lock = NoReq
    /\ \/ h.prev # TipHash /\ Answer(r, "conflict")
       \/ h.prev = TipHash /\ h.seq # TipSeq + 1 /\ Answer(r, "error")
    /\ UNCHANGED <<disk, lock, scan, tipRead, sent, acked>>

\* Mutants of CasAccept: any predecessor, any number, no lock.
CasAcceptAnyPrev(r) ==
    LET h == req[r].head IN
    /\ req[r].pc = "waiting"
    /\ lock = NoReq
    /\ h.seq = TipSeq + 1
    /\ lock' = r
    /\ Answer(r, "writeLog")
    /\ UNCHANGED <<disk, scan, tipRead, sent, acked>>

CasAcceptAnySeq(r) ==
    LET h == req[r].head IN
    /\ req[r].pc = "waiting"
    /\ lock = NoReq
    /\ h.prev = TipHash
    /\ h.seq > TipSeq
    /\ lock' = r
    /\ Answer(r, "writeLog")
    /\ UNCHANGED <<disk, scan, tipRead, sent, acked>>

CasAcceptUnlocked(r) ==
    LET h == req[r].head IN
    /\ req[r].pc = "waiting"
    /\ h.prev = TipHash
    /\ h.seq = TipSeq + 1
    /\ lock' = r
    /\ Answer(r, "writeLog")
    /\ UNCHANGED <<disk, scan, tipRead, sent, acked>>

CasAccept(r) ==
    LET h == req[r].head IN
    /\ req[r].pc = "waiting"
    /\ lock = NoReq
    /\ h.prev = TipHash
    /\ h.seq = TipSeq + 1
    /\ lock' = r
    /\ Answer(r, "writeLog")
    /\ UNCHANGED <<disk, scan, tipRead, sent, acked>>

WriteLog(r) ==
    /\ req[r].pc = "writeLog"
    /\ logFile' = [logFile EXCEPT ![req[r].head.seq] = req[r].head]
    /\ Answer(r, "writeTip")
    /\ UNCHANGED <<tipBin, tipJson, lock, scan, tipRead, sent, acked>>

\* Mutant of WriteTip: the tip carries the next number.
WriteTipNext(r) ==
    /\ req[r].pc = "writeTip"
    /\ tipBin' = [req[r].head EXCEPT !.seq = @ + 1]
    /\ Answer(r, "cleanup")
    /\ UNCHANGED <<logFile, tipJson, lock, scan, tipRead, sent, acked>>

WriteTip(r) ==
    /\ req[r].pc = "writeTip"
    /\ tipBin' = req[r].head
    /\ Answer(r, "cleanup")
    /\ UNCHANGED <<logFile, tipJson, lock, scan, tipRead, sent, acked>>

\* Remove the legacy tip; a failure to do so is ignored.
RemoveLegacyTip(r) ==
    /\ req[r].pc = "cleanup"
    /\ tipJson' \in {NoHead, tipJson}
    /\ Answer(r, "reply")
    /\ UNCHANGED <<logFile, tipBin, lock, scan, tipRead, sent, acked>>

Reply(r) ==
    /\ req[r].pc = "reply"
    /\ lock' = NoReq
    /\ acked' = acked \cup {req[r].head}
    /\ Answer(r, "ok")
    /\ UNCHANGED <<disk, scan, tipRead, sent>>

\* Mutant of Abort: an error path that keeps the lock.
AbortLocked(r) ==
    /\ req[r].pc \notin Answered
    /\ Answer(r, "error")
    /\ UNCHANGED <<disk, lock, scan, tipRead, sent, acked>>

\* A write fails, or the client goes away and the handler is dropped where it
\* awaits.  The lock guard is dropped with it; what is on disk stays.
Abort(r) ==
    /\ req[r].pc \notin Answered
    /\ lock' = IF lock = r THEN NoReq ELSE lock
    /\ Answer(r, "error")
    /\ UNCHANGED <<disk, scan, tipRead, sent, acked>>

-----------------------------------------------------------------------------
(* HttpClient::heads_since over GET /repos/{repo}/heads?after=..&limit=.. *)

\* LocalStore::since opens the directory: the files there now will be listed.
Unread(cursor) == {s \in Files : s > cursor}

StartSince(p) ==
    /\ scan[p].pc \in {"idle", "done"}
    /\ \E after \in 0..TipSeq :
        scan' = [scan EXCEPT ![p] =
            [pc |-> "list", after |-> after, cursor |-> after,
             todo |-> Unread(after), got |-> {}, all |-> {}, floor |-> TipSeq]]
    /\ UNCHANGED <<disk, lock, req, tipRead, sent, acked>>

\* One directory entry is read.  A file created after the directory was opened
\* may be listed or not.
ReadEntry(p) ==
    /\ scan[p].pc = "list"
    /\ \E s \in Unread(scan[p].cursor) :
        /\ \A h \in scan[p].got : h.seq # s
        /\ scan' = [scan EXCEPT ![p].todo = @ \ {s}, ![p].got = @ \cup {logFile[s]}]
    /\ UNCHANGED <<disk, lock, req, tipRead, sent, acked>>

\* limit.clamp(1, MAX_HEADS_PAGE)
PageLimit == IF Page > MaxPage THEN MaxPage ELSE Page

\* sort_by_key(seq), then truncate: the `limit` lowest of the heads read.
Truncated(heads) ==
    {h \in heads : Cardinality({g \in heads : g.seq < h.seq}) < PageLimit}

\* Every listed file is read and the page goes back to the client, which stops at
\* a short one...
ShortPage(p) ==
    LET page == Truncated(scan[p].got) IN
    /\ scan[p].pc = "list"
    /\ scan[p].todo = {}
    /\ Cardinality(page) < Page
    /\ scan' = [scan EXCEPT ![p].pc = "done", ![p].all = @ \cup page, ![p].got = {}]
    /\ UNCHANGED <<disk, lock, req, tipRead, sent, acked>>

\* Mutant of FullPage: the next page starts one head too late.
FullPageSkip(p) ==
    LET page == Truncated(scan[p].got) IN
    /\ scan[p].pc = "list"
    /\ scan[p].todo = {}
    /\ Cardinality(page) >= Page
    /\ \E last \in page :
        /\ \A h \in page : h.seq <= last.seq
        /\ scan' = [scan EXCEPT ![p].cursor = last.seq + 1, ![p].todo = Unread(last.seq + 1),
                                ![p].all = @ \cup page, ![p].got = {}]
    /\ UNCHANGED <<disk, lock, req, tipRead, sent, acked>>

\* ... and asks for the heads after the last one of a full page.
FullPage(p) ==
    LET page == Truncated(scan[p].got) IN
    /\ scan[p].pc = "list"
    /\ scan[p].todo = {}
    /\ Cardinality(page) >= Page
    /\ \E last \in page :
        /\ \A h \in page : h.seq <= last.seq
        /\ scan' = [scan EXCEPT ![p].cursor = last.seq, ![p].todo = Unread(last.seq),
                                ![p].all = @ \cup page, ![p].got = {}]
    /\ UNCHANGED <<disk, lock, req, tipRead, sent, acked>>

-----------------------------------------------------------------------------
(* head_tip: GET /repos/{repo}/heads/tip.  The two existence checks and the
   read are separate system calls with no lock around them. *)

\* Mutant of StartTip: looks for the legacy file first.
StartTipLegacy(p) ==
    /\ tipRead[p].pc \in {"idle", "done", "failed"}
    /\ tipRead' = [tipRead EXCEPT ![p] =
         [pc |-> IF tipJson # NoHead THEN "readJson" ELSE "readBin",
          res |-> NoHead, floor |-> TipSeq]]
    /\ UNCHANGED <<disk, lock, req, scan, sent, acked>>

StartTip(p) ==
    /\ tipRead[p].pc \in {"idle", "done", "failed"}
    /\ tipRead' = [tipRead EXCEPT ![p] =
         [pc |-> IF tipBin # NoHead THEN "readBin" ELSE "checkJson",
          res |-> NoHead, floor |-> TipSeq]]
    /\ UNCHANGED <<disk, lock, req, scan, sent, acked>>

CheckJson(p) ==
    /\ tipRead[p].pc = "checkJson"
    /\ tipRead' = [tipRead EXCEPT ![p].pc = IF tipJson # NoHead THEN "readJson" ELSE "done"]
    /\ UNCHANGED <<disk, lock, req, scan, sent, acked>>

ReadTip(p) ==
    LET file == IF tipRead[p].pc = "readBin" THEN tipBin ELSE tipJson IN
    /\ tipRead[p].pc \in {"readBin", "readJson"}
    /\ tipRead' = [tipRead EXCEPT ![p].res = file,
                                  ![p].pc = IF file = NoHead THEN "failed" ELSE "done"]
    /\ UNCHANGED <<disk, lock, req, scan, sent, acked>>

-----------------------------------------------------------------------------
\* The server stops and is started again: every request in flight fails, the
\* lock is new, and the disk is as the last completed write left it.
Crash ==
    /\ \E r \in Reqs : req[r].pc \notin Answered
    /\ lock' = NoReq
    /\ req' = [r \in Reqs |-> IF req[r].pc \in Answered THEN req[r]
                              ELSE [req[r] EXCEPT !.pc = "error"]]
    /\ scan' = [p \in Readers |-> IF scan[p].pc = "list" THEN IdleScan ELSE scan[p]]
    /\ tipRead' = [p \in Readers |-> IF tipRead[p].pc = "done" THEN tipRead[p] ELSE IdleTipRead]
    /\ UNCHANGED <<disk, sent, acked>>

\* The steps of a handler that holds the lock, up to its answer.
Holder(r) == WriteLog(r) \/ WriteTip(r) \/ RemoveLegacyTip(r) \/ Reply(r)

Next ==
    \/ \E r \in Reqs : Submit(r) \/ CasRefuse(r) \/ CasAccept(r) \/ Holder(r) \/ Abort(r)
    \/ \E p \in Readers : \/ StartSince(p) \/ ReadEntry(p) \/ ShortPage(p) \/ FullPage(p)
                          \/ StartTip(p) \/ CheckJson(p) \/ ReadTip(p)
    \/ Crash

Spec == Init /\ [][Next]_vars

\* The runtime keeps running a handler that can make a step, and tokio's Mutex
\* serves its waiters in order, so a handler that finds the lock free again and
\* again gets it.  Nothing makes a client post, fail or go away.
FairSpec ==
    /\ Spec
    /\ \A r \in Reqs : /\ WF_vars(Holder(r))
                       /\ SF_vars(CasRefuse(r) \/ CasAccept(r))

-----------------------------------------------------------------------------
(* Properties *)

ReqState == [pc : Answered \cup {"waiting", "writeLog", "writeTip", "cleanup", "reply"},
             head : RefHead \cup {NoHead}]
ScanState == [pc : {"idle", "list", "done"}, after : 0..MaxSeq, cursor : 0..MaxSeq,
              todo : SUBSET (1..MaxSeq), got : SUBSET RefHead, all : SUBSET RefHead,
              floor : 0..MaxSeq]
TipReadState == [pc : {"idle", "readBin", "checkJson", "readJson", "done", "failed"},
                 res : RefHead \cup {NoHead}, floor : 0..MaxSeq]

TypeOK ==
    /\ logFile \in [1..MaxSeq -> RefHead \cup {NoHead}]
    /\ tipBin \in RefHead \cup {NoHead}
    /\ tipJson \in RefHead \cup {NoHead}
    /\ lock \in Reqs \cup {NoReq}
    /\ req \in [Reqs -> ReqState]
    /\ scan \in [Readers -> ScanState]
    /\ tipRead \in [Readers -> TipReadState]
    /\ sent \subseteq RefHead
    /\ acked \subseteq RefHead

Committed(h) == h.seq \in 1..TipSeq /\ logFile[h.seq] = h

\* Whatever crashed, failed or raced, the files up to the tip are one unbroken
\* hash chain that ends in the tip (cas_append, local.rs): no gap, no head under
\* another's number, no head that names a predecessor other than the one below it.
ChainLinked ==
    /\ Tip # NoHead => Committed(Tip)
    /\ \A s \in 1..TipSeq :
        /\ logFile[s] # NoHead
        /\ logFile[s].seq = s
        /\ logFile[s].prev = IF s = 1 THEN ZeroHash ELSE Hash(logFile[s - 1])

\* A head cas_append answered Ok for stays in the log under its own number, so no
\* two pushers are ever told they won the same place (the guard of head_lock).
AckedStayCommitted == \A h \in acked : Committed(h)

\* What `since` may show beyond the tip: a crash between the two writes leaves at
\* most one such head, it is the next number, and it continues the chain, so the
\* next append takes its place (cas_append writes the log file before tip.bin).
BeyondTip ==
    \A s \in Files : s > TipSeq =>
        s = TipSeq + 1 /\ logFile[s].seq = s /\ logFile[s].prev = TipHash

\* The log files, read up to the tip, are the append-only log that `trait HeadLog`
\* promises: every step of cas_append, of a reader or of a crash is an append, an
\* acknowledgement or invisible.
Abstract == INSTANCE HeadLogSpec WITH chain <- [s \in 1..TipSeq |-> logFile[s]]
ImplementsHeadLogSpec == Abstract!LogSpec

\* heads_since returns every head that was in the log when it was called, however
\* the listing, the page limit and concurrent appends interleave (the loop of
\* HttpClient::heads_since): "Returning only the first page would silently
\* truncate history".
SinceMissesNothing ==
    \A p \in Readers : scan[p].pc = "done" =>
        \A s \in (scan[p].after + 1)..scan[p].floor : logFile[s] \in scan[p].all

\* trait HeadLog: since returns "heads with `seq` in `(after_seq, tip]`", and those stay:
\* the log never comes to hold another head where a finished listing had one.
ListedHeadsStay ==
    \A p \in Readers : scan[p].pc = "done" =>
        \A h \in scan[p].all : h.seq <= TipSeq => Committed(h)

\* A head that GET tip returns is in the log for good, and is no older than the
\* tip of the moment the request came in (LocalStore::tip takes no lock).
TipReadFresh ==
    \A p \in Readers : tipRead[p].pc = "done" /\ tipRead[p].res # NoHead =>
        /\ Committed(tipRead[p].res)
        /\ tipRead[p].res.seq >= tipRead[p].floor

\* No post waits for ever: whoever holds head_lock gives it back on every path,
\* errors, disconnects and crashes included.
EveryPostAnswered ==
    \A r \in Reqs : req[r].pc = "waiting" ~> req[r].pc \in Answered
=============================================================================
