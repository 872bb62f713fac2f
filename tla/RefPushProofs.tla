--------------------------- MODULE RefPushProofs ---------------------------
(***************************************************************************)
(* Proofs about RefPush for every number of checkouts, refs, commits,      *)
(* heads and retries.                                                      *)
(***************************************************************************)
EXTENDS RefPush, TLAPS

\* A push between its first read of the tip and the server's answer.
UnderWay == {"baseline", "readTip", "append"}

\* A push without --force is a fast-forward of the tip it was checked against, and
\* reconciliation did not refuse it on the tip its head is built on.
Forward(p) ==
    LET old == RefsAt(p.saw)[p.dst] IN
    /\ p.new # NoCommit
    /\ old \in {NoCommit, p.new} \/ (p.dst \notin Tags /\ old \in anc[p.new])
    /\ p.pc = "append" => ~Refused(RefsAt(p.base), Caller(p), RefsAt(p.tip))

\* What a push remembers of the log is in the log, it carries commits that were made,
\* and what it leaves out of its bundle is reached by the refs it first read.
PushOK(p) ==
    /\ {p.saw, p.cli, p.base, p.tip} \subseteq 0..Len(log)
    /\ p.adds \subseteq Made /\ p.new \in Made \cup {NoCommit}
    /\ p.pc \in UnderWay =>
        /\ p.dst \in Refs
        /\ p.new # NoCommit => anc[p.new] \subseteq p.adds \cup Reach(Named(RefsAt(p.cli)))
        /\ ~p.nonff => Forward(p)

\* A reader holds the bundles of the heads through its marker, and of those a running
\* fetch has passed.
Imported(c, n) == \A s \in 1..n : log[s].adds \subseteq have[c]
FetchOK(c) ==
    /\ fetch[c].at <= fetch[c].to /\ fetch[c].to <= Len(log)
    /\ fetch[c].pc = "import" => fetch[c].at < fetch[c].to
    /\ appliedSeq[c] <= Len(log) /\ appliedHead[c] <= Len(log)
    /\ role[c] = "read" =>
        /\ push[c].pc = "idle"
        /\ Imported(c, appliedSeq[c]) /\ Imported(c, fetch[c].at)

\* Only commits that were made are stored, bundled or named.
CommitsOK ==
    /\ \A k \in Commit : anc[k] \subseteq Made
    /\ \A c \in Clients : have[c] \subseteq Made
    /\ \A s \in 1..Len(log) : log[s].adds \subseteq Made /\ Named(log[s].refs) \subseteq Made

IInv ==
    /\ TypeOK
    /\ \A c \in Clients : PushOK(push[c]) /\ FetchOK(c)
    /\ CommitsOK
    /\ ReplayComplete

USE RefPushAssumption

-----------------------------------------------------------------------------
\* The refs of any place of the log are a refs map.
LEMMA RefsAtType ==
  ASSUME TypeOK, NEW s \in 0..Len(log)
  PROVE  RefsAt(s) \in RefsMap
<1>1. CASE s = 0
  BY <1>1 DEF RefsAt, RefsMap
<1>2. CASE s \in 1..Len(log)
  <2>1. log[s] \in HeadRecord
    BY <1>2 DEF TypeOK
  <2> QED
    BY <1>2, <2>1 DEF RefsAt, HeadRecord
<1> QED
  BY <1>1, <1>2 DEF TypeOK

\* What the refs of a place name was made.
LEMMA NamedMade ==
  ASSUME TypeOK, CommitsOK, NEW s \in 0..Len(log), NEW r \in Refs
  PROVE  RefsAt(s)[r] \in Made \cup {NoCommit} /\ Named(RefsAt(s)) \subseteq Made
<1>1. Len(log) \in Nat /\ RefsAt(s) \in RefsMap
  BY RefsAtType DEF TypeOK
<1>2. Named(RefsAt(s)) \subseteq Made
  <2>1. CASE s = 0
    BY <2>1 DEF RefsAt, Named
  <2>2. CASE s \in 1..Len(log)
    BY <2>2 DEF CommitsOK, RefsAt
  <2> QED
    BY <1>1, <2>1, <2>2
<1> QED
  BY <1>1, <1>2 DEF Named, RefsMap

\* An idle push is in order.
LEMMA IdleOK == TypeOK => IdlePush \in PushState /\ PushOK(IdlePush) /\ IdleFetch \in FetchState
<1> SUFFICES ASSUME TypeOK PROVE IdlePush \in PushState /\ PushOK(IdlePush) /\ IdleFetch \in FetchState
  OBVIOUS
<1>1. Len(log) \in Nat
  BY DEF TypeOK
<1> QED
  BY <1>1 DEF IdlePush, PushState, PushOK, UnderWay, IdleFetch, FetchState, NoCommit

\* The log is empty.
LEMMA InitIInv == Init => IInv
<1> SUFFICES ASSUME Init PROVE IInv
  OBVIOUS
<1>1. TypeOK
  BY DEF Init, TypeOK, IdlePush, PushState, IdleFetch, FetchState, NoCommit, Commit
<1>2. \A c \in Clients : PushOK(push[c])
  BY <1>1, IdleOK DEF Init
<1>3. \A c \in Clients : FetchOK(c)
  BY DEF Init, FetchOK, IdlePush, IdleFetch, Imported
<1>4. CommitsOK /\ ReplayComplete
  BY DEF Init, CommitsOK, ReplayComplete
<1> QED
  BY <1>1, <1>2, <1>3, <1>4 DEF IInv

\* A step that changes neither the log nor the ancestors of commits changes nothing of
\* what is said about them.
LEMMA SameLog ==
  ASSUME UNCHANGED <<log, anc>>
  PROVE  /\ Made' = Made
         /\ \A s : RefsAt(s)' = RefsAt(s)
         /\ \A ks : Reach(ks)' = Reach(ks)
         /\ \A p : PushOK(p)' = PushOK(p)
         /\ ReplayComplete' = ReplayComplete
<1>1. Made' = Made /\ (\A s : RefsAt(s)' = RefsAt(s)) /\ \A ks : Reach(ks)' = Reach(ks)
  BY DEF Made, RefsAt, Reach
<1>2. \A p : Forward(p)' = Forward(p)
  BY DEF Forward, RefsAt, Refused, Intended, Caller
<1>3. \A p : PushOK(p)' = PushOK(p)
  BY <1>1, <1>2 DEF PushOK
<1>4. ReplayComplete' = ReplayComplete
  BY DEF ReplayComplete, Reach
<1> QED
  BY <1>1, <1>3, <1>4

\* The record of a checkout's fetch, its object store and its markers fit together.
LocalOK(c, f, objects, a) ==
    /\ f.at <= f.to /\ f.to <= Len(log)
    /\ f.pc = "import" => f.at < f.to
    /\ have[c] \subseteq objects /\ objects \subseteq Made
    /\ role[c] = "read" => \A n \in {a, f.at} : \A s \in 1..n : log[s].adds \subseteq objects

\* A step of one checkout that leaves the log and the commits alone.
LEMMA LocalFrame ==
  ASSUME IInv, NEW c \in Clients, NEW p \in PushState, NEW f \in FetchState,
         NEW objects \in SUBSET Commit, NEW a \in 0..Len(log), NEW b \in 0..Len(log),
         PushOK(p), role[c] # "read" \/ p.pc = "idle", LocalOK(c, f, objects, a),
         push' = [push EXCEPT ![c] = p],
         fetch' = [fetch EXCEPT ![c] = f],
         have' = [have EXCEPT ![c] = objects],
         appliedSeq' = [appliedSeq EXCEPT ![c] = a],
         appliedHead' = [appliedHead EXCEPT ![c] = b],
         UNCHANGED <<log, role, anc>>
  PROVE  IInv'
<1>0. TypeOK /\ Len(log) \in 0..MaxSeq
  BY DEF IInv, TypeOK
<1>1. TypeOK'
  BY <1>0 DEF TypeOK
<1>2. \A d \in Clients : PushOK(push[d])'
  <2> TAKE d \in Clients
  <2>1. push'[d] \in {push[d], p} /\ PushOK(push'[d])
    BY <1>0 DEF IInv, TypeOK
  <2> QED
    BY <2>1, SameLog
<1>3. \A d \in Clients : FetchOK(d)'
  <2> TAKE d \in Clients
  <2>1. CASE d = c
    <3>1. /\ fetch'[c] = f /\ push'[c] = p /\ have'[c] = objects
          /\ appliedSeq'[c] = a /\ appliedHead'[c] = b
      BY <1>0 DEF TypeOK
    <3> QED
      BY <1>0, <2>1, <3>1 DEF FetchOK, LocalOK, Imported
  <2>2. CASE d # c
    <3>1. /\ fetch'[d] = fetch[d] /\ push'[d] = push[d] /\ have'[d] = have[d]
          /\ appliedSeq'[d] = appliedSeq[d] /\ appliedHead'[d] = appliedHead[d]
      BY <1>0, <2>2 DEF TypeOK
    <3> QED
      BY <3>1 DEF IInv, FetchOK, Imported
  <2> QED
    BY <2>1, <2>2
<1>4. CommitsOK' /\ ReplayComplete'
  <2>1. \A d \in Clients : have'[d] \subseteq Made
    BY <1>0 DEF IInv, TypeOK, CommitsOK, LocalOK
  <2> QED
    BY <2>1, SameLog DEF IInv, CommitsOK
<1> QED
  BY <1>1, <1>2, <1>3, <1>4 DEF IInv

\* Of the state of a checkout each part may stay as it is.
LEMMA LocalSame ==
  ASSUME IInv, NEW c \in Clients
  PROVE  /\ push[c] \in PushState /\ PushOK(push[c])
         /\ role[c] # "read" \/ push[c].pc = "idle"
         /\ fetch[c] \in FetchState /\ have[c] \in SUBSET Commit
         /\ appliedSeq[c] \in 0..Len(log) /\ appliedHead[c] \in 0..Len(log)
         /\ LocalOK(c, fetch[c], have[c], appliedSeq[c])
         /\ push = [push EXCEPT ![c] = push[c]] /\ fetch = [fetch EXCEPT ![c] = fetch[c]]
         /\ have = [have EXCEPT ![c] = have[c]]
         /\ appliedSeq = [appliedSeq EXCEPT ![c] = appliedSeq[c]]
         /\ appliedHead = [appliedHead EXCEPT ![c] = appliedHead[c]]
<1>1. TypeOK /\ FetchOK(c) /\ PushOK(push[c]) /\ CommitsOK /\ Len(log) \in Nat
  BY DEF IInv, TypeOK
<1>2. /\ push[c] \in PushState /\ fetch[c] \in FetchState /\ have[c] \in SUBSET Commit
      /\ appliedSeq[c] \in 0..Len(log) /\ appliedHead[c] \in 0..Len(log)
  BY <1>1 DEF TypeOK, FetchOK
<1>3. LocalOK(c, fetch[c], have[c], appliedSeq[c])
  BY <1>1 DEF FetchOK, LocalOK, CommitsOK, Imported
<1> QED
  BY <1>1, <1>2, <1>3 DEF TypeOK, FetchOK

\* A step that changes nothing but the push of one checkout.
LEMMA PushFrame ==
  ASSUME IInv, NEW c \in Clients, NEW p \in PushState,
         PushOK(p), role[c] # "read" \/ p.pc = "idle",
         push' = [push EXCEPT ![c] = p],
         UNCHANGED <<log, role, anc, have, marker, fetch>>
  PROVE  IInv'
<1>1. /\ fetch' = [fetch EXCEPT ![c] = fetch[c]] /\ have' = [have EXCEPT ![c] = have[c]]
      /\ appliedSeq' = [appliedSeq EXCEPT ![c] = appliedSeq[c]]
      /\ appliedHead' = [appliedHead EXCEPT ![c] = appliedHead[c]]
  BY LocalSame DEF marker
<1>2. /\ fetch[c] \in FetchState /\ have[c] \in SUBSET Commit
      /\ appliedSeq[c] \in 0..Len(log) /\ appliedHead[c] \in 0..Len(log)
      /\ LocalOK(c, fetch[c], have[c], appliedSeq[c])
  BY LocalSame
<1> QED
  BY <1>1, <1>2, LocalFrame

\* The commits a checkout may push were made, and so was all they reach.
LEMMA WholeMade ==
  ASSUME IInv, NEW c \in Clients, NEW k \in Whole(c)
  PROVE  k \in Made /\ k \in Commit /\ k # NoCommit /\ anc[k] \in SUBSET Commit /\ anc[k] \subseteq Made
<1>1. k \in have[c] /\ have[c] \subseteq Made
  BY DEF IInv, CommitsOK, Whole
<1>2. k \in Commit
  BY <1>1 DEF Made
<1> QED
  BY <1>1, <1>2 DEF IInv, TypeOK, CommitsOK, Commit, NoCommit

\* What FastForward lets pass is a fast-forward of the old value.
LEMMA FastForwardIs ==
  ASSUME NEW c, NEW r, NEW old, NEW new, FastForward(c, r, old, new)
  PROVE  old \in {NoCommit, new} \/ (r \notin Tags /\ old \in anc[new])
BY DEF FastForward

\* A push begins: its bundle leaves out what the refs it read reach.
LEMMA PushStartIInv ==
  ASSUME IInv, NEW c \in Clients, PushStart(c)
  PROVE  IInv'
<1>0. TypeOK /\ Len(log) \in 0..MaxSeq /\ role[c] = "sit"
  BY DEF IInv, TypeOK, PushStart
<1>1. PICK dst \in Refs, new \in Whole(c), force \in BOOLEAN, cli \in {0, Len(log)} :
        /\ FastForward(c, dst, RefsAt(cli)[dst], new) \/ force
        /\ push' = [push EXCEPT ![c] = PushBundle(FALSE, dst, new,
             ~FastForward(c, dst, RefsAt(cli)[dst], new) \/ force,
             Bundle(c, new, RefsAt(cli)), cli, cli)]
  BY DEF PushStart
<1> DEFINE ff == FastForward(c, dst, RefsAt(cli)[dst], new)
           adds == Bundle(c, new, RefsAt(cli))
           p == PushBundle(FALSE, dst, new, ~ff \/ force, adds, cli, cli)
<1>2. /\ cli \in 0..Len(log) /\ cli \in 0..MaxSeq
      /\ new \in Made /\ new \in Commit /\ new # NoCommit /\ anc[new] \in SUBSET Commit
      /\ anc[new] \subseteq Made
  BY <1>0, WholeMade
<1>3. adds \in SUBSET Commit /\ adds \subseteq Made
      /\ anc[new] \subseteq adds \cup Reach(Named(RefsAt(cli)))
  BY <1>2 DEF Bundle, Reach
<1>4. /\ p \in PushState
      /\ p.pc = "baseline" /\ p.dst = dst /\ p.new = new /\ p.adds = adds
      /\ p.nonff = (~ff \/ force) /\ p.saw = cli /\ p.cli = cli /\ p.base = 0 /\ p.tip = 0
  <2>1. (~ff \/ force) \in BOOLEAN
    OBVIOUS
  <2> HIDE DEF ff, adds
  <2> QED
    BY <1>2, <1>3, <2>1 DEF PushBundle, PushState
<1>6. ~p.nonff => Forward(p)
  <2> SUFFICES ASSUME ~p.nonff PROVE Forward(p)
    OBVIOUS
  <2>1. ff
    BY <1>4
  <2>2. RefsAt(cli)[dst] \in {NoCommit, new} \/ (dst \notin Tags /\ RefsAt(cli)[dst] \in anc[new])
    BY <2>1, FastForwardIs
  <2> HIDE DEF p, ff
  <2> QED
    BY <1>2, <1>4, <2>2 DEF Forward
<1>7. PushOK(p)
  <2> HIDE DEF p, ff, adds
  <2> QED
    BY <1>0, <1>2, <1>3, <1>4, <1>6 DEF PushOK
<1> QED
  BY <1>0, <1>1, <1>4, <1>7, PushFrame DEF PushStart

\* A deletion carries no commits.
LEMMA DeleteStartIInv ==
  ASSUME IInv, NEW c \in Clients, DeleteStart(c)
  PROVE  IInv'
<1>0. TypeOK /\ Len(log) \in 0..MaxSeq /\ role[c] # "read"
  BY DEF IInv, TypeOK, DeleteStart
<1>1. PICK dst \in Refs :
        push' = [push EXCEPT ![c] = PushBundle(FALSE, dst, NoCommit, TRUE, {}, Len(log), Len(log))]
  BY DEF DeleteStart
<1> DEFINE p == PushBundle(FALSE, dst, NoCommit, TRUE, {}, Len(log), Len(log))
<1>2. /\ p \in PushState
      /\ p.dst = dst /\ p.new = NoCommit /\ p.adds = {} /\ p.nonff
      /\ p.saw = Len(log) /\ p.cli = Len(log) /\ p.base = 0 /\ p.tip = 0
  BY <1>0 DEF PushBundle, PushState
<1>3. PushOK(p)
  <2> HIDE DEF p
  <2> QED
    BY <1>0, <1>2 DEF PushOK
<1> QED
  BY <1>0, <1>1, <1>2, <1>3, PushFrame DEF DeleteStart

\* A push through the remote helper.
LEMMA HelperPushIInv ==
  ASSUME IInv, NEW c \in Clients, HelperPush(c)
  PROVE  IInv'
<1>0. TypeOK /\ Len(log) \in 0..MaxSeq /\ role[c] = "git"
  BY DEF IInv, TypeOK, HelperPush
<1>1. PICK dst \in Refs, new \in Whole(c), force \in BOOLEAN,
           listed \in 0..Len(log), cli \in {0, Len(log)} :
        /\ FastForward(c, dst, RefsAt(listed)[dst], new) \/ force
        /\ push' = [push EXCEPT ![c] = PushBundle(TRUE, dst, new, force, anc[new], listed, cli)]
  BY DEF HelperPush, HelperList
<1> DEFINE p == PushBundle(TRUE, dst, new, force, anc[new], listed, cli)
<1>2. /\ cli \in 0..Len(log) /\ cli \in 0..MaxSeq /\ listed \in 0..MaxSeq
      /\ new \in Made /\ new \in Commit /\ new # NoCommit /\ anc[new] \in SUBSET Commit
      /\ anc[new] \subseteq Made
  BY <1>0, WholeMade
<1>3. /\ p \in PushState
      /\ p.pc = "baseline" /\ p.dst = dst /\ p.new = new /\ p.adds = anc[new]
      /\ p.nonff = force /\ p.saw = listed /\ p.cli = cli /\ p.base = 0 /\ p.tip = 0
  BY <1>2 DEF PushBundle, PushState
<1>5. ~p.nonff => Forward(p)
  BY <1>1, <1>2, <1>3, FastForwardIs DEF Forward
<1>6. PushOK(p)
  <2> HIDE DEF p
  <2> QED
    BY <1>0, <1>2, <1>3, <1>5 DEF PushOK
<1> QED
  BY <1>0, <1>1, <1>3, <1>6, PushFrame DEF HelperPush

\* The reads of a push, and an append that was refused.
LEMMA PushReadsIInv ==
  ASSUME IInv, NEW c \in Clients, ReadBaseline(c) \/ ReadTip(c) \/ AppendConflict(c)
  PROVE  IInv'
<1> DEFINE p == push[c]
<1>0. /\ TypeOK /\ Len(log) \in 0..MaxSeq /\ p \in PushState /\ PushOK(p)
      /\ p.pc \in UnderWay /\ role[c] # "read"
  BY DEF IInv, TypeOK, ReadBaseline, ReadTip, AppendConflict, UnderWay, FetchOK
<1>1. UNCHANGED <<log, role, anc, have, marker, fetch>>
  BY DEF ReadBaseline, ReadTip, AppendConflict
<1>2. CASE push' = [push EXCEPT ![c] = IdlePush]
  BY <1>0, <1>1, <1>2, IdleOK, PushFrame
<1>3. CASE ReadBaseline(c)
  <2> DEFINE q == [p EXCEPT !.pc = "readTip", !.base = Len(log)]
  <2>1. push' = [push EXCEPT ![c] = q]
    BY <1>0, <1>3 DEF ReadBaseline
  <2>2. q \in PushState
    BY <1>0 DEF PushState
  <2>3. PushOK(q)
    BY <1>0 DEF PushOK, Forward, PushState
  <2> QED
    BY <1>0, <1>1, <2>1, <2>2, <2>3, PushFrame
<1>4. CASE /\ ReadTip(c)
           /\ p.nonff \/ ~Refused(RefsAt(p.base), Caller(p), RefsAt(Len(log)))
  <2> DEFINE q == [p EXCEPT !.pc = "append", !.tip = Len(log)]
  <2>1. push' = [push EXCEPT ![c] = q]
    BY <1>4 DEF ReadTip
  <2>2. q \in PushState
    BY <1>0 DEF PushState
  <2>3. Caller(q) = Caller(p)
    BY <1>0 DEF Caller, PushState
  <2>4. PushOK(q)
    BY <1>0, <1>4, <2>3 DEF PushOK, Forward, PushState
  <2> QED
    BY <1>0, <1>1, <2>1, <2>2, <2>4, PushFrame
<1>5. CASE AppendConflict(c) /\ p.attempt < MaxRetries
  <2> DEFINE q == [p EXCEPT !.pc = "readTip", !.attempt = @ + 1]
  <2>1. push' = [push EXCEPT ![c] = q]
    BY <1>5 DEF AppendConflict
  <2>2. q \in PushState
    <3>1. p.attempt + 1 \in 0..MaxRetries
      BY <1>0, <1>5 DEF PushState
    <3> QED
      BY <1>0, <3>1 DEF PushState
  <2>3. PushOK(q)
    BY <1>0 DEF PushOK, Forward, PushState
  <2> QED
    BY <1>0, <1>1, <2>1, <2>2, <2>3, PushFrame
<1> QED
  BY <1>2, <1>3, <1>4, <1>5 DEF ReadTip, AppendConflict

\* A step that changes the fetch and the object store of one checkout.
LEMMA FetchFrame ==
  ASSUME IInv, NEW c \in Clients, NEW f \in FetchState, NEW objects \in SUBSET Commit,
         LocalOK(c, f, objects, appliedSeq[c]),
         fetch' = [fetch EXCEPT ![c] = f],
         have' = [have EXCEPT ![c] = objects],
         UNCHANGED <<log, role, anc, marker, push>>
  PROVE  IInv'
<1>1. /\ push' = [push EXCEPT ![c] = push[c]]
      /\ appliedSeq' = [appliedSeq EXCEPT ![c] = appliedSeq[c]]
      /\ appliedHead' = [appliedHead EXCEPT ![c] = appliedHead[c]]
  BY LocalSame DEF marker
<1>2. /\ push[c] \in PushState /\ PushOK(push[c]) /\ (role[c] # "read" \/ push[c].pc = "idle")
      /\ appliedSeq[c] \in 0..Len(log) /\ appliedHead[c] \in 0..Len(log)
  BY LocalSame
<1> QED
  BY <1>1, <1>2, LocalFrame

\* A step that changes only the fetch of one checkout and passes no head it has not passed.
LEMMA FetchOnlyFrame ==
  ASSUME IInv, NEW c \in Clients, NEW f \in FetchState,
         f.at \in {0, appliedSeq[c], fetch[c].at}, f.at <= f.to, f.to <= Len(log),
         f.pc = "import" => f.at < f.to,
         fetch' = [fetch EXCEPT ![c] = f],
         UNCHANGED <<log, role, anc, have, marker, push>>
  PROVE  IInv'
<1>1. have[c] \in SUBSET Commit /\ LocalOK(c, fetch[c], have[c], appliedSeq[c])
  BY LocalSame
<1>2. LocalOK(c, f, have[c], appliedSeq[c])
  <2>1. role[c] = "read" => \A n \in {appliedSeq[c], f.at} : \A s \in 1..n : log[s].adds \subseteq have[c]
    <3>1. \A s \in 1..0 : FALSE
      OBVIOUS
    <3> QED
      BY <1>1, <3>1 DEF LocalOK
  <2> QED
    BY <1>1, <2>1 DEF LocalOK
<1>3. have' = [have EXCEPT ![c] = have[c]]
  BY LocalSame
<1> QED
  BY <1>1, <1>2, <1>3, FetchFrame

\* A fetch lists heads, and holds them against the tip.
LEMMA FetchReadsIInv ==
  ASSUME IInv, NEW c \in Clients, FetchStart(c) \/ CloneStart(c) \/ TipCheck(c)
  PROVE  IInv'
<1>0. /\ TypeOK /\ Len(log) \in 0..MaxSeq /\ fetch[c] \in FetchState
      /\ appliedSeq[c] \in 0..Len(log) /\ appliedSeq[c] \in 0..MaxSeq
      /\ fetch[c].at <= fetch[c].to /\ fetch[c].to <= Len(log)
  BY DEF IInv, TypeOK, FetchOK
<1>1. UNCHANGED <<log, role, anc, have, marker, push>>
  BY DEF FetchStart, CloneStart, TipCheck
<1>2. CASE FetchStart(c)
  <2> DEFINE f == [pc |-> "tipCheck", clone |-> FALSE, at |-> appliedSeq[c], to |-> Len(log)]
  <2>1. fetch' = [fetch EXCEPT ![c] = f]
    BY <1>2 DEF FetchStart
  <2>2. f \in FetchState /\ f.at = appliedSeq[c] /\ f.to = Len(log) /\ f.pc = "tipCheck"
    BY <1>0 DEF FetchState
  <2>3. f.at <= f.to /\ f.to <= Len(log) /\ f.pc # "import"
    BY <1>0, <2>2
  <2> HIDE DEF f
  <2> QED
    BY <1>1, <2>1, <2>2, <2>3, FetchOnlyFrame
<1>3. CASE CloneStart(c)
  <2> DEFINE f == [pc |-> "tipCheck", clone |-> TRUE, at |-> 0, to |-> Len(log)]
  <2>1. fetch' = [fetch EXCEPT ![c] = f]
    BY <1>3 DEF CloneStart
  <2>2. f \in FetchState /\ f.at = 0 /\ f.to = Len(log) /\ f.pc = "tipCheck"
    BY <1>0 DEF FetchState
  <2>3. f.at <= f.to /\ f.to <= Len(log) /\ f.pc # "import"
    BY <1>0, <2>2
  <2> HIDE DEF f
  <2> QED
    BY <1>1, <2>1, <2>2, <2>3, FetchOnlyFrame
<1>4. CASE TipCheck(c) /\ fetch' = [fetch EXCEPT ![c] = IdleFetch]
  <2>1. IdleFetch \in FetchState /\ IdleFetch.at = 0 /\ IdleFetch.to = 0 /\ IdleFetch.pc = "idle"
    BY <1>0, IdleOK DEF IdleFetch
  <2>2. IdleFetch.at <= IdleFetch.to /\ IdleFetch.to <= Len(log) /\ IdleFetch.pc # "import"
    BY <1>0, <2>1
  <2> QED
    BY <1>1, <1>4, <2>1, <2>2, FetchOnlyFrame
<1>5. CASE TipCheck(c) /\ fetch[c].at # fetch[c].to /\ fetch' = [fetch EXCEPT ![c] = [fetch[c] EXCEPT !.pc = "import"]]
  <2> DEFINE f == [fetch[c] EXCEPT !.pc = "import"]
  <2>1. f \in FetchState /\ f.at = fetch[c].at /\ f.to = fetch[c].to /\ f.at \in Nat /\ f.to \in Nat
    BY <1>0 DEF FetchState
  <2>2. f.at < f.to
    BY <1>0, <1>5, <2>1
  <2> QED
    BY <1>0, <1>1, <1>5, <2>1, <2>2, FetchOnlyFrame
<1> QED
  BY <1>2, <1>3, <1>4, <1>5 DEF TipCheck

\* The next head of a fetch is one of the log, and the checkout then holds its bundle.
LEMMA ImportIInv ==
  ASSUME IInv, NEW c \in Clients, Import(c)
  PROVE  IInv'
<1> DEFINE next == fetch[c].at + 1
           f == [fetch[c] EXCEPT !.at = next,
                     !.pc = IF fetch[c].clone /\ next < fetch[c].to THEN "import" ELSE "recSeq"]
           objects == have[c] \cup log[next].adds
<1>0. /\ TypeOK /\ Len(log) \in 0..MaxSeq /\ fetch[c] \in FetchState
      /\ fetch[c].at < fetch[c].to /\ fetch[c].to <= Len(log) /\ fetch[c].pc = "import"
  BY DEF IInv, TypeOK, FetchOK, Import
<1>1. fetch[c].at \in Nat /\ fetch[c].to \in Nat /\ next \in 1..Len(log) /\ next <= fetch[c].to
  BY <1>0 DEF FetchState
<1>2. log[next].adds \in SUBSET Commit /\ log[next].adds \subseteq Made
  <2>1. log[next] \in HeadRecord
    BY <1>0, <1>1 DEF TypeOK
  <2> QED
    BY <1>1, <2>1 DEF HeadRecord, IInv, CommitsOK
<1>3. fetch' = [fetch EXCEPT ![c] = f] /\ have' = [have EXCEPT ![c] = objects]
  BY <1>0 DEF Import, ImportBundle, TypeOK
<1>4. /\ f \in FetchState /\ f.at = next /\ f.to = fetch[c].to
      /\ f.pc = "import" => next < fetch[c].to
  <2>1. next \in 0..MaxSeq
    BY <1>0, <1>1
  <2> HIDE DEF next
  <2> QED
    BY <1>0, <2>1 DEF FetchState
<1>5. have[c] \in SUBSET Commit /\ LocalOK(c, fetch[c], have[c], appliedSeq[c])
  BY LocalSame
<1>6. LocalOK(c, f, objects, appliedSeq[c])
  <2>1. role[c] = "read" => \A n \in {appliedSeq[c], f.at} : \A s \in 1..n : log[s].adds \subseteq objects
    <3> SUFFICES ASSUME role[c] = "read", NEW n \in {appliedSeq[c], next}, NEW s \in 1..n
                 PROVE  log[s].adds \subseteq objects
      BY <1>4
    <3>1. CASE n = appliedSeq[c]
      BY <1>5, <3>1 DEF LocalOK
    <3>2. CASE n = next /\ s = next
      BY <3>2
    <3>3. CASE n = next /\ s # next
      <4>1. s \in 1..fetch[c].at
        BY <1>1, <3>3
      <4> QED
        BY <1>5, <4>1 DEF LocalOK
    <3> QED
      BY <3>1, <3>2, <3>3
  <2> HIDE DEF f
  <2> QED
    BY <1>0, <1>1, <1>2, <1>4, <1>5, <2>1 DEF LocalOK
<1>7. objects \in SUBSET Commit /\ UNCHANGED <<log, role, anc, marker, push>>
  BY <1>2, <1>5 DEF Import
<1> HIDE DEF f, objects
<1> QED
  BY <1>3, <1>4, <1>6, <1>7, FetchFrame

\* A marker write leaves the place it is meant to write, the old one, or none.  The
\* place is one whose head a push posted or a fetch has passed.
LEMMA RecordSeqIInv ==
  ASSUME IInv, NEW c \in Clients, PushRecordSeq(c) \/ FetchRecordSeq(c)
  PROVE  IInv'
<1> DEFINE p == IF PushRecordSeq(c) THEN [push[c] EXCEPT !.pc = "recHead"] ELSE push[c]
           f == IF PushRecordSeq(c) THEN fetch[c] ELSE [fetch[c] EXCEPT !.pc = "recHead"]
           v == IF PushRecordSeq(c) THEN push[c].tip ELSE fetch[c].at
<1>0. /\ TypeOK /\ Len(log) \in 0..MaxSeq /\ push[c] \in PushState /\ PushOK(push[c])
      /\ fetch[c] \in FetchState /\ FetchOK(c) /\ have[c] \in SUBSET Commit /\ have[c] \subseteq Made
      /\ appliedSeq[c] \in 0..Len(log) /\ appliedHead[c] \in 0..Len(log)
  BY LocalSame DEF IInv, TypeOK, CommitsOK
<1>1. PICK a \in {v, appliedSeq[c], 0} : appliedSeq' = [appliedSeq EXCEPT ![c] = a]
  BY DEF PushRecordSeq, FetchRecordSeq, WriteMarker
<1>2. /\ push' = [push EXCEPT ![c] = p]
      /\ fetch' = [fetch EXCEPT ![c] = f]
      /\ UNCHANGED <<log, role, anc, have, appliedHead>>
  BY LocalSame DEF PushRecordSeq, FetchRecordSeq
<1>3. p \in PushState /\ f \in FetchState /\ f.at = fetch[c].at /\ f.to = fetch[c].to
      /\ f.pc \in {fetch[c].pc, "recHead"}
  BY <1>0 DEF PushState, FetchState
<1>4. PushOK(p)
  BY <1>0 DEF PushOK, UnderWay, PushState
<1>5. role[c] # "read" \/ p.pc = "idle"
  BY <1>0 DEF FetchOK, PushRecordSeq
<1>6. a \in 0..Len(log)
  BY <1>0 DEF PushOK, FetchOK, FetchState
<1>7. LocalOK(c, f, have[c], a)
  <2>1. role[c] = "read" => \A n \in {a, f.at} : \A s \in 1..n : log[s].adds \subseteq have[c]
    <3>1. role[c] = "read" => a \in {fetch[c].at, appliedSeq[c], 0}
      BY <1>0 DEF FetchOK, PushRecordSeq
    <3>2. \A s \in 1..0 : FALSE
      OBVIOUS
    <3> QED
      BY <1>0, <1>3, <3>1, <3>2 DEF FetchOK, Imported
  <2> HIDE DEF f
  <2> QED
    BY <1>0, <1>3, <2>1 DEF LocalOK, FetchOK
<1>8. have' = [have EXCEPT ![c] = have[c]] /\ appliedHead' = [appliedHead EXCEPT ![c] = appliedHead[c]]
  BY <1>2, LocalSame
<1> HIDE DEF p, f, v
<1> QED
  BY <1>0, <1>1, <1>2, <1>3, <1>4, <1>5, <1>6, <1>7, <1>8, LocalFrame

\* The second marker file.
LEMMA RecordHeadIInv ==
  ASSUME IInv, NEW c \in Clients, PushRecordHead(c) \/ FetchRecordHead(c)
  PROVE  IInv'
<1> DEFINE p == IF PushRecordHead(c) THEN IdlePush ELSE push[c]
           f == IF PushRecordHead(c) THEN fetch[c]
                ELSE IF fetch[c].at < fetch[c].to THEN [fetch[c] EXCEPT !.pc = "import"] ELSE IdleFetch
           v == IF PushRecordHead(c) THEN push[c].tip ELSE fetch[c].at
<1>0. /\ TypeOK /\ Len(log) \in 0..MaxSeq /\ push[c] \in PushState /\ PushOK(push[c])
      /\ fetch[c] \in FetchState /\ FetchOK(c) /\ have[c] \in SUBSET Commit /\ have[c] \subseteq Made
      /\ appliedSeq[c] \in 0..Len(log) /\ appliedHead[c] \in 0..Len(log)
  BY LocalSame DEF IInv, TypeOK, CommitsOK
<1>1. PICK b \in {v, appliedHead[c], 0} : appliedHead' = [appliedHead EXCEPT ![c] = b]
  BY DEF PushRecordHead, FetchRecordHead, WriteMarker
<1>2. /\ push' = [push EXCEPT ![c] = p]
      /\ fetch' = [fetch EXCEPT ![c] = f]
      /\ UNCHANGED <<log, role, anc, have, appliedSeq>>
  BY LocalSame DEF PushRecordHead, FetchRecordHead
<1>3. f \in FetchState /\ f.at \in {0, fetch[c].at} /\ f.at <= f.to /\ f.to <= Len(log)
      /\ (f.pc = "import" => f.at < f.to)
  <2>1. CASE PushRecordHead(c)
    BY <1>0, <2>1 DEF FetchOK
  <2>2. CASE ~PushRecordHead(c) /\ fetch[c].at < fetch[c].to
    BY <1>0, <2>2 DEF FetchOK, FetchState
  <2>3. CASE ~PushRecordHead(c) /\ ~(fetch[c].at < fetch[c].to)
    BY <1>0, <2>3, IdleOK DEF IdleFetch
  <2> QED
    BY <2>1, <2>2, <2>3
<1>4. p \in PushState /\ PushOK(p)
  BY <1>0, IdleOK
<1>5. role[c] # "read" \/ p.pc = "idle"
  BY <1>0 DEF FetchOK, PushRecordHead
<1>6. b \in 0..Len(log)
  BY <1>0 DEF PushOK, FetchOK, FetchState
<1>7. LocalOK(c, f, have[c], appliedSeq[c])
  <2>1. role[c] = "read" => \A n \in {appliedSeq[c], f.at} : \A s \in 1..n : log[s].adds \subseteq have[c]
    <3>2. \A s \in 1..0 : FALSE
      OBVIOUS
    <3> HIDE DEF f
    <3> QED
      BY <1>0, <1>3, <3>2 DEF FetchOK, Imported
  <2> HIDE DEF f
  <2> QED
    BY <1>0, <1>3, <2>1 DEF LocalOK
<1>8. have' = [have EXCEPT ![c] = have[c]] /\ appliedSeq' = [appliedSeq EXCEPT ![c] = appliedSeq[c]]
  BY <1>2, LocalSame
<1> HIDE DEF p, f, v
<1> QED
  BY <1>0, <1>1, <1>2, <1>3, <1>4, <1>5, <1>6, <1>7, <1>8, LocalFrame

\* The helper imports a bundle and writes no marker.
LEMMA HelperFetchIInv ==
  ASSUME IInv, NEW c \in Clients, HelperFetch(c)
  PROVE  IInv'
<1> DEFINE adds == log[Len(log)].adds
           objects == IF Reach(adds) \subseteq have[c] \cup adds THEN have[c] \cup adds ELSE have[c]
<1>1. log[Len(log)] \in HeadRecord /\ Len(log) \in 1..Len(log)
  BY DEF IInv, TypeOK, HelperFetch
<1>2. adds \in SUBSET Commit /\ adds \subseteq Made
  BY <1>1 DEF HeadRecord, IInv, CommitsOK
<1>3. /\ have[c] \in SUBSET Commit /\ LocalOK(c, fetch[c], have[c], appliedSeq[c])
      /\ fetch[c] \in FetchState /\ role[c] = "git"
  BY LocalSame DEF HelperFetch
<1>4. objects \in SUBSET Commit /\ LocalOK(c, fetch[c], objects, appliedSeq[c])
  <2>1. have[c] \subseteq objects /\ objects \subseteq have[c] \cup adds
    OBVIOUS
  <2> HIDE DEF objects, adds
  <2> QED
    BY <1>2, <1>3, <2>1 DEF LocalOK
<1>5. /\ have' = [have EXCEPT ![c] = objects] /\ fetch' = [fetch EXCEPT ![c] = fetch[c]]
      /\ UNCHANGED <<log, role, anc, marker, push>>
  <2>1. have \in [Clients -> SUBSET Commit]
    BY DEF IInv, TypeOK
  <2> QED
    BY <2>1, LocalSame DEF HelperFetch
<1> HIDE DEF objects, adds
<1> QED
  BY <1>3, <1>4, <1>5, FetchFrame

\* A command ends anywhere.
LEMMA StopIInv ==
  ASSUME IInv, NEW c \in Clients, Stop(c)
  PROVE  IInv'
<1>0. TypeOK /\ Len(log) \in 0..MaxSeq
  BY DEF IInv, TypeOK
<1>1. /\ IdlePush \in PushState /\ PushOK(IdlePush) /\ IdlePush.pc = "idle"
      /\ IdleFetch \in FetchState /\ IdleFetch.at = 0 /\ IdleFetch.to = 0 /\ IdleFetch.pc = "idle"
  BY <1>0, IdleOK DEF IdlePush, IdleFetch
<1>2. /\ have[c] \in SUBSET Commit /\ LocalOK(c, fetch[c], have[c], appliedSeq[c])
      /\ appliedSeq[c] \in 0..Len(log) /\ appliedHead[c] \in 0..Len(log)
  BY LocalSame
<1>3. LocalOK(c, IdleFetch, have[c], appliedSeq[c])
  <2>1. \A s \in 1..0 : FALSE
    OBVIOUS
  <2> QED
    BY <1>0, <1>1, <1>2, <2>1 DEF LocalOK
<1>4. /\ have' = [have EXCEPT ![c] = have[c]]
      /\ appliedSeq' = [appliedSeq EXCEPT ![c] = appliedSeq[c]]
      /\ appliedHead' = [appliedHead EXCEPT ![c] = appliedHead[c]]
  BY LocalSame DEF Stop, marker
<1> QED
  BY <1>1, <1>2, <1>3, <1>4, LocalFrame DEF Stop

\* A new commit adds itself to what was made and changes the history of no other.
LEMMA GitCommitIInv ==
  ASSUME IInv, NEW c \in Clients, GitCommit(c)
  PROVE  IInv'
<1>0. TypeOK /\ CommitsOK
  BY DEF IInv
<1>1. PICK k \in Commit, parents \in SUBSET Whole(c) :
        /\ k \notin Made
        /\ anc' = [anc EXCEPT ![k] = {k} \cup Reach(parents)]
        /\ have' = [have EXCEPT ![c] = @ \cup {k}]
  BY DEF GitCommit
<1>2. UNCHANGED <<role, log, appliedSeq, appliedHead, push, fetch>>
  BY DEF GitCommit, marker
<1>3. Reach(parents) \subseteq Made /\ Reach(parents) \subseteq Commit
  <2>1. parents \subseteq Commit
    BY WholeMade
  <2> QED
    BY <1>0, <2>1 DEF Reach, CommitsOK, Made
<1>4. anc' \in [Commit -> SUBSET Commit] /\ anc'[k] = {k} \cup Reach(parents)
      /\ \A j \in Commit : j # k => anc'[j] = anc[j]
  BY <1>0, <1>1, <1>3 DEF TypeOK
<1>5. Made' = Made \cup {k}
  BY <1>1, <1>4 DEF Made
<1>6. \A j \in Made : anc'[j] = anc[j]
  BY <1>1, <1>4 DEF Made
<1>7. \A ks \in SUBSET Made : Reach(ks)' = Reach(ks)
  <2> TAKE ks \in SUBSET Made
  <2>1. \A j \in ks : anc'[j] = anc[j]
    BY <1>6
  <2> QED
    BY <2>1 DEF Reach
<1>8. \A s : RefsAt(s)' = RefsAt(s)
  BY <1>2 DEF RefsAt
<1>9. TypeOK'
  BY <1>0, <1>1, <1>2, <1>4 DEF TypeOK
<1>10. \A d \in Clients : PushOK(push[d])'
  <2> TAKE d \in Clients
  <2> DEFINE p == push[d]
  <2>0. PushOK(p) /\ p' = p /\ p \in PushState /\ Len(log) \in Nat
    BY <1>0, <1>2 DEF IInv, TypeOK
  <2>1. p.new # NoCommit => anc'[p.new] = anc[p.new]
    BY <1>6, <2>0 DEF PushOK
  <2>2. Reach(Named(RefsAt(p.cli)))' = Reach(Named(RefsAt(p.cli)))
    <3>0. p.cli \in 0..Len(log)
      BY <2>0 DEF PushOK
    <3>1. Named(RefsAt(p.cli)) \in SUBSET Made
      <4>1. CASE Refs = {}
        BY <4>1 DEF Named
      <4>2. CASE Refs # {}
        BY <1>0, <3>0, <4>2, NamedMade
      <4> QED
        BY <4>1, <4>2
    <3>2. Named(RefsAt(p.cli))' = Named(RefsAt(p.cli))
      BY <1>2, <1>8 DEF Named
    <3> QED
      BY <1>7, <3>1, <3>2 DEF Reach
  <2>3. Forward(p) => Forward(p)'
    <3>1. Refused(RefsAt(p.base), Caller(p), RefsAt(p.tip))' = Refused(RefsAt(p.base), Caller(p), RefsAt(p.tip))
      BY <1>2 DEF Refused, RefsAt, Caller, Intended
    <3> HIDE DEF p
    <3> QED
      BY <1>8, <2>0, <2>1, <3>1 DEF Forward
  <2> HIDE DEF p
  <2>4. PushOK(p)'
    BY <1>2, <1>5, <2>0, <2>1, <2>2, <2>3 DEF PushOK
  <2> QED
    BY <2>4 DEF p
<1>11. \A d \in Clients : FetchOK(d)'
  <2> TAKE d \in Clients
  <2>1. have[d] \subseteq have'[d] /\ FetchOK(d)
    BY <1>0, <1>1 DEF TypeOK, IInv
  <2> QED
    BY <1>2, <2>1 DEF FetchOK, Imported
<1>12. CommitsOK'
  <2>1. \A j \in Commit : anc'[j] \subseteq Made'
    BY <1>0, <1>3, <1>4, <1>5 DEF CommitsOK
  <2>2. \A d \in Clients : have'[d] \subseteq Made'
    BY <1>0, <1>1, <1>5 DEF TypeOK, CommitsOK
  <2>3. \A s \in 1..Len(log) : log[s].adds \subseteq Made' /\ Named(log[s].refs) \subseteq Made'
    BY <1>0, <1>5 DEF CommitsOK
  <2> QED
    BY <1>2, <2>1, <2>2, <2>3 DEF CommitsOK, Named
<1>13. ReplayComplete'
  <2>1. \A s \in 1..Len(log) : Reach(Named(log[s].refs))' \subseteq UNION {log[j].adds : j \in 1..s}
    <3> TAKE s \in 1..Len(log)
    <3>1. Named(log[s].refs) \in SUBSET Made
      BY <1>0 DEF CommitsOK
    <3>2. Named(log[s].refs)' = Named(log[s].refs)
      BY <1>2 DEF Named
    <3>3. Reach(Named(log[s].refs))' = Reach(Named(log[s].refs))
      BY <1>7, <3>1, <3>2 DEF Reach
    <3> QED
      BY <3>3 DEF IInv, ReplayComplete
  <2> QED
    BY <1>2, <2>1 DEF ReplayComplete
<1> QED
  BY <1>9, <1>10, <1>11, <1>12, <1>13 DEF IInv

-----------------------------------------------------------------------------
\* All bundles of the log hold what the refs of any place of it reach.
LEMMA Covered ==
  ASSUME TypeOK, ReplayComplete, NEW s \in 0..Len(log)
  PROVE  Reach(Named(RefsAt(s))) \subseteq UNION {log[j].adds : j \in 1..Len(log)}
<1>0. Len(log) \in Nat
  BY DEF TypeOK
<1>1. CASE s = 0
  BY <1>1 DEF RefsAt, Named, Reach
<1>2. CASE s \in 1..Len(log)
  <2>1. Reach(Named(log[s].refs)) \subseteq UNION {log[j].adds : j \in 1..s}
    BY <1>2 DEF ReplayComplete
  <2>2. 1..s \subseteq 1..Len(log)
    BY <1>0, <1>2
  <2>3. RefsAt(s) = log[s].refs
    BY <1>2 DEF RefsAt
  <2> QED
    BY <2>1, <2>2, <2>3
<1> QED
  BY <1>0, <1>1, <1>2

\* What the head of an attempt names is the commit pushed, or named by the refs first
\* read or by those of the tip it is built on.
LEMMA PlannedNames ==
  ASSUME IInv, NEW c \in Clients, push[c].pc \in UnderWay, NEW r \in Refs
  PROVE  /\ PlannedHead(push[c]) \in HeadRecord
         /\ PlannedHead(push[c]).adds = push[c].adds
         /\ PlannedHead(push[c]).refs[r] \in
              {NoCommit, push[c].new, RefsAt(push[c].cli)[r], RefsAt(push[c].tip)[r]}
<1> DEFINE p == push[c]
<1>0. TypeOK /\ p \in PushState /\ p.dst \in Refs /\ {p.cli, p.tip, p.base} \subseteq 0..Len(log)
  BY DEF IInv, TypeOK, PushOK
<1>1. RefsAt(p.cli) \in RefsMap /\ RefsAt(p.tip) \in RefsMap /\ p.new \in Commit \cup {NoCommit}
  BY <1>0, RefsAtType DEF PushState
<1>2. Caller(p) \in RefsMap /\ \A q \in Refs : Caller(p)[q] = IF q = p.dst THEN p.new ELSE RefsAt(p.cli)[q]
  BY <1>0, <1>1 DEF Caller, RefsMap
<1> DEFINE m == Merged(RefsAt(p.base), Caller(p), RefsAt(p.tip), p.nonff)
<1>3. m \in RefsMap /\ \A q \in Refs : m[q] \in {NoCommit, Caller(p)[q], RefsAt(p.tip)[q]}
  BY <1>1, <1>2 DEF Merged, RefsMap
<1>4. p.adds \in SUBSET Commit
  BY <1>0 DEF PushState
<1>5. PlannedHead(p) = [refs |-> m, adds |-> p.adds]
  BY DEF PlannedHead
<1> HIDE DEF m, p
<1>6. PlannedHead(p) \in HeadRecord /\ PlannedHead(p).adds = p.adds /\ PlannedHead(p).refs = m
  BY <1>3, <1>4, <1>5 DEF HeadRecord
<1> QED
  BY <1>2, <1>3, <1>6 DEF p

\* Every commit the new head names is made, and its history is in the bundles through it.
LEMMA PlannedCovered ==
  ASSUME IInv, NEW c \in Clients, push[c].pc \in UnderWay
  PROVE  LET h == PlannedHead(push[c]) IN
         /\ Named(h.refs) \subseteq Made
         /\ Reach(Named(h.refs)) \subseteq h.adds \cup UNION {log[j].adds : j \in 1..Len(log)}
<1> DEFINE p == push[c]
           h == PlannedHead(p)
           old == UNION {log[j].adds : j \in 1..Len(log)}
<1>0. /\ TypeOK /\ CommitsOK /\ ReplayComplete /\ PushOK(p)
      /\ p.cli \in 0..Len(log) /\ p.tip \in 0..Len(log)
  BY DEF IInv, PushOK
<1>1. ASSUME NEW k \in Named(h.refs)
      PROVE  k \in Made /\ anc[k] \subseteq h.adds \cup old
  <2>0. PICK r \in Refs : k = h.refs[r]
    BY <1>1 DEF Named
  <2>1. /\ h.adds = p.adds /\ k # NoCommit
        /\ k \in {NoCommit, p.new, RefsAt(p.cli)[r], RefsAt(p.tip)[r]}
    BY <1>1, <2>0, PlannedNames DEF Named
  <2>2. CASE k = p.new
    <3>1. k \in Made /\ anc[k] \subseteq p.adds \cup Reach(Named(RefsAt(p.cli)))
      BY <1>0, <2>1, <2>2 DEF PushOK
    <3>2. Reach(Named(RefsAt(p.cli))) \subseteq old
      BY <1>0, Covered
    <3> QED
      BY <2>1, <3>1, <3>2
  <2>3. ASSUME NEW s \in 0..Len(log), k = RefsAt(s)[r]
        PROVE  k \in Made /\ anc[k] \subseteq old
    <3>1. k \in Made
      BY <1>0, <2>1, <2>3, NamedMade
    <3>2. k \in Named(RefsAt(s))
      BY <2>1, <2>3 DEF Named
    <3>3. anc[k] \subseteq Reach(Named(RefsAt(s)))
      BY <3>2 DEF Reach
    <3>4. Reach(Named(RefsAt(s))) \subseteq old
      BY <1>0, Covered
    <3> QED
      BY <3>1, <3>3, <3>4
  <2> HIDE DEF h, p, old
  <2> QED
    BY <1>0, <2>1, <2>2, <2>3
<1> HIDE DEF old, h
<1>2. Reach(Named(h.refs)) \subseteq h.adds \cup old
  BY <1>1 DEF Reach
<1> QED
  BY <1>1, <1>2 DEF old, h

\* A head that enters the log leaves every earlier one, and what pushes and fetches
\* remember of them, as it was; its own refs are covered by the bundles through it.
LEMMA AppendOkIInv ==
  ASSUME IInv, NEW c \in Clients, AppendOk(c)
  PROVE  IInv'
<1> DEFINE p == push[c]
           h == PlannedHead(p)
<1>0. /\ TypeOK /\ CommitsOK /\ ReplayComplete /\ p \in PushState /\ PushOK(p)
      /\ p.pc = "append" /\ p.pc \in UnderWay /\ p.dst \in Refs
      /\ p.tip = Len(log) /\ Len(log) \in Nat /\ Len(log) < MaxSeq /\ log \in Seq(HeadRecord)
  BY DEF IInv, TypeOK, AppendOk, UnderWay, PushOK
<1>1. h \in HeadRecord /\ h.adds = p.adds
  BY <1>0, PlannedNames
<1>2. Named(h.refs) \subseteq Made /\ Reach(Named(h.refs)) \subseteq h.adds \cup UNION {log[j].adds : j \in 1..Len(log)}
  BY <1>0, PlannedCovered
<1>3. log' = Append(log, h) /\ UNCHANGED <<role, anc, have, appliedSeq, appliedHead, fetch>>
  BY DEF AppendOk, marker
<1> HIDE DEF h
<1>4. /\ log' \in Seq(HeadRecord) /\ Len(log') = Len(log) + 1 /\ log'[Len(log) + 1] = h
      /\ \A s \in 1..Len(log) : log'[s] = log[s]
  BY <1>0, <1>1, <1>3
<1>5. \A s \in 0..Len(log) : RefsAt(s)' = RefsAt(s)
  BY <1>0, <1>4 DEF RefsAt
<1>6. Made' = Made /\ \A ks : Reach(ks)' = Reach(ks)
  BY <1>3 DEF Made, Reach
<1>7. PICK q \in PushState :
        /\ push' = [push EXCEPT ![c] = q]
        /\ q.pc \notin UnderWay /\ q.adds = {} /\ q.new = NoCommit
        /\ q.saw = 0 /\ q.cli = 0 /\ q.base = 0 /\ q.tip \in {0, Len(log) + 1}
  <2> DEFINE w == [IdlePush EXCEPT !.pc = "recSeq", !.tip = p.tip + 1]
  <2>1. p.tip + 1 \in 0..MaxSeq
    BY <1>0
  <2>2. IdlePush \in PushState /\ IdlePush.pc \notin UnderWay /\ IdlePush.adds = {} /\ IdlePush.new = NoCommit
        /\ IdlePush.saw = 0 /\ IdlePush.cli = 0 /\ IdlePush.base = 0 /\ IdlePush.tip = 0
    BY <1>0, IdleOK DEF IdlePush, UnderWay
  <2>3. w \in PushState /\ w.pc \notin UnderWay /\ w.adds = {} /\ w.new = NoCommit
        /\ w.saw = 0 /\ w.cli = 0 /\ w.base = 0 /\ w.tip = Len(log) + 1
    BY <1>0, <2>1, <2>2 DEF PushState, UnderWay
  <2>4. push' = [push EXCEPT ![c] = w] \/ push' = [push EXCEPT ![c] = IdlePush]
    BY DEF AppendOk
  <2> HIDE DEF w
  <2>5. CASE push' = [push EXCEPT ![c] = w]
    BY <2>3, <2>5
  <2>6. CASE push' = [push EXCEPT ![c] = IdlePush]
    BY <2>2, <2>6
  <2> QED
    BY <2>4, <2>5, <2>6
<1> HIDE DEF p
<1>8. TypeOK'
  BY <1>0, <1>3, <1>4, <1>7 DEF TypeOK
<1>9. ASSUME NEW o, PushOK(o)
      PROVE  PushOK(o)'
  <2>1. {o.saw, o.cli, o.base, o.tip} \subseteq 0..Len(log)
    BY <1>9 DEF PushOK
  <2>2. /\ RefsAt(o.saw)' = RefsAt(o.saw) /\ RefsAt(o.cli)' = RefsAt(o.cli)
        /\ RefsAt(o.base)' = RefsAt(o.base) /\ RefsAt(o.tip)' = RefsAt(o.tip)
    BY <1>5, <2>1
  <2>3. Forward(o)' = Forward(o)
    <3>1. Caller(o)' = Caller(o)
      BY <2>2 DEF Caller
    <3>2. Refused(RefsAt(o.base), Caller(o), RefsAt(o.tip))' = Refused(RefsAt(o.base), Caller(o), RefsAt(o.tip))
      BY <2>2, <3>1 DEF Refused, Intended
    <3> QED
      BY <1>3, <2>2, <3>2 DEF Forward
  <2>4. Reach(Named(RefsAt(o.cli)))' = Reach(Named(RefsAt(o.cli)))
    BY <1>3, <2>2 DEF Reach, Named
  <2>5. {o.saw, o.cli, o.base, o.tip} \subseteq 0..Len(log')
    BY <1>0, <1>4, <2>1
  <2> QED
    BY <1>3, <1>6, <1>9, <2>3, <2>4, <2>5 DEF PushOK
<1>10. \A d \in Clients : PushOK(push[d])'
  <2> TAKE d \in Clients
  <2>1. CASE d = c
    <3>1. push'[d] = q
      BY <1>0, <1>7, <2>1 DEF TypeOK
    <3>2. Len(log') \in Nat /\ {q.saw, q.cli, q.base, q.tip} \subseteq 0..Len(log')
      BY <1>0, <1>4, <1>7
    <3>3. PushOK(q)'
      BY <1>7, <3>2 DEF PushOK
    <3> QED
      BY <3>1, <3>3
  <2>2. CASE d # c
    <3>1. push'[d] = push[d] /\ PushOK(push[d])
      BY <1>0, <1>7, <2>2 DEF TypeOK, IInv
    <3> QED
      BY <1>9, <3>1
  <2> QED
    BY <2>1, <2>2
<1>11. \A d \in Clients : FetchOK(d)'
  <2> TAKE d \in Clients
  <2>1. FetchOK(d) /\ fetch[d] \in FetchState /\ appliedSeq[d] \in Nat /\ appliedHead[d] \in Nat
    BY <1>0 DEF IInv, TypeOK
  <2>2. role[d] = "read" => push'[d].pc = "idle"
    <3>1. role[c] # "read"
      BY <1>0 DEF IInv, FetchOK, p
    <3>2. d # c => push'[d] = push[d]
      BY <1>0, <1>7 DEF TypeOK
    <3> QED
      BY <2>1, <3>1, <3>2 DEF FetchOK
  <2>3. \A n \in 0..Len(log) : Imported(d, n)' = Imported(d, n)
    BY <1>0, <1>3, <1>4 DEF Imported
  <2>4. fetch[d].at \in 0..Len(log) /\ fetch[d].to \in 0..Len(log) /\ appliedSeq[d] \in 0..Len(log)
    BY <1>0, <2>1 DEF FetchOK, FetchState
  <2>5. /\ Imported(d, appliedSeq[d]) => Imported(d, appliedSeq[d])'
        /\ Imported(d, fetch[d].at) => Imported(d, fetch[d].at)'
    BY <1>3, <2>3, <2>4
  <2> QED
    BY <1>0, <1>3, <1>4, <2>1, <2>2, <2>4, <2>5 DEF FetchOK
<1>12. CommitsOK'
  <2>1. \A s \in 1..Len(log') : log'[s].adds \subseteq Made /\ Named(log'[s].refs) \subseteq Made
    <3> TAKE s \in 1..Len(log')
    <3>1. CASE s \in 1..Len(log)
      BY <1>0, <1>4, <3>1 DEF CommitsOK
    <3>2. CASE s = Len(log) + 1
      BY <1>0, <1>1, <1>2, <1>4, <3>2 DEF PushOK
    <3> QED
      BY <1>0, <1>4, <3>1, <3>2
  <2> QED
    BY <1>0, <1>3, <1>6, <2>1 DEF CommitsOK, Named
<1>13. ReplayComplete'
  <2>1. \A s \in 1..Len(log') : Reach(Named(log'[s].refs)) \subseteq UNION {log'[j].adds : j \in 1..s}
    <3> TAKE s \in 1..Len(log')
    <3>1. CASE s \in 1..Len(log)
      <4>1. \A j \in 1..s : j \in 1..Len(log) /\ log'[j].adds = log[j].adds
        BY <1>0, <1>4, <3>1
      <4>2. Reach(Named(log[s].refs)) \subseteq UNION {log[j].adds : j \in 1..s}
        BY <1>0, <3>1 DEF ReplayComplete
      <4>3. log'[s] = log[s]
        BY <1>4, <3>1
      <4> QED
        BY <4>1, <4>2, <4>3
    <3>2. CASE s = Len(log) + 1
      <4>1. \A j \in 1..Len(log) : j \in 1..s /\ log'[j].adds = log[j].adds
        BY <1>0, <1>4, <3>2
      <4>2. s \in 1..s /\ log'[s] = h
        BY <1>0, <1>4, <3>2
      <4>3. h.adds \subseteq UNION {log'[j].adds : j \in 1..s}
        BY <4>2
      <4>4. UNION {log[j].adds : j \in 1..Len(log)} \subseteq UNION {log'[j].adds : j \in 1..s}
        BY <4>1
      <4> QED
        BY <1>2, <4>2, <4>3, <4>4
    <3> QED
      BY <1>0, <1>4, <3>1, <3>2
  <2> QED
    BY <1>3, <2>1 DEF ReplayComplete, Reach, Named
<1> QED
  BY <1>8, <1>10, <1>11, <1>12, <1>13 DEF IInv

\* Every step keeps the invariant.
LEMMA NextIInv == IInv /\ [Next]_vars => IInv'
<1> SUFFICES ASSUME IInv, [Next]_vars PROVE IInv'
  OBVIOUS
<1>1. CASE UNCHANGED vars
  <2>1. UNCHANGED <<log, anc>> /\ UNCHANGED <<role, have, appliedSeq, appliedHead, push, fetch>>
    BY <1>1 DEF vars
  <2> QED
    BY <2>1, SameLog DEF IInv, TypeOK, FetchOK, Imported, CommitsOK
<1>2. ASSUME NEW c \in Clients, GitCommit(c) \/ PushStep(c) \/ FetchStep(c) \/ Stop(c)
      PROVE  IInv'
  <2>1. CASE PushStep(c)
    BY <2>1, PushStartIInv, DeleteStartIInv, HelperPushIInv, PushReadsIInv, AppendOkIInv,
       RecordSeqIInv, RecordHeadIInv DEF PushStep
  <2>2. CASE FetchStep(c)
    BY <2>2, FetchReadsIInv, ImportIInv, RecordSeqIInv, RecordHeadIInv, HelperFetchIInv DEF FetchStep
  <2> QED
    BY <1>2, <2>1, <2>2, GitCommitIInv, StopIInv
<1> QED
  BY <1>1, <1>2 DEF Next

\* The invariant holds of every reachable state.
THEOREM Invariant == Spec => []IInv
BY InitIInv, NextIInv, PTL DEF Spec

\* The state keeps its types, whatever the numbers of checkouts, refs, commits and heads.
THEOREM TypeCorrect == Spec => []TypeOK
<1>1. IInv => TypeOK
  BY DEF IInv
<1> QED
  BY <1>1, Invariant, PTL

\* A clone, which replays the bundles of all heads, lacks no commit that the refs of the
\* last one reach (build_bundle_and_refs, reconcile_refs_for_cas).
THEOREM ReplaySafe == Spec => []ReplayComplete
<1>1. IInv => ReplayComplete
  BY DEF IInv
<1> QED
  BY <1>1, Invariant, PTL

\* The applied marker of a checkout that only reads never runs ahead of what it imported
\* (record_applied_seq in pull.rs and clone.rs).
THEOREM MarkerSafe == Spec => []MarkerBacked
<1>1. IInv => MarkerBacked
  <2> SUFFICES ASSUME IInv, NEW c \in Clients, role[c] = "read", NEW s \in 1..appliedSeq[c]
               PROVE  Reach(Named(log[s].refs)) \subseteq have[c]
    BY DEF MarkerBacked
  <2>1. FetchOK(c) /\ Len(log) \in Nat /\ appliedSeq[c] \in Nat
    BY DEF IInv, TypeOK
  <2>2. s \in 1..Len(log) /\ 1..s \subseteq 1..appliedSeq[c]
    BY <2>1 DEF FetchOK
  <2>3. Reach(Named(log[s].refs)) \subseteq UNION {log[j].adds : j \in 1..s}
    BY <2>2 DEF IInv, ReplayComplete
  <2>4. \A j \in 1..s : log[j].adds \subseteq have[c]
    BY <2>1, <2>2 DEF FetchOK, Imported
  <2> QED
    BY <2>3, <2>4
<1> QED
  BY <1>1, Invariant, PTL

\* Only the checkout whose head the server takes changes the log.
LEMMA OnlyAppendPosts ==
  ASSUME IInv, Next, NEW c \in Clients, Posts(c)
  PROVE  AppendOk(c)
<1>1. PICK d \in Clients : AppendOk(d)
  BY DEF Posts, Next, PushStep, FetchStep, GitCommit, PushStart, DeleteStart, HelperPush,
     ReadBaseline, ReadTip, AppendConflict, PushRecordSeq, PushRecordHead, FetchStart,
     CloneStart, TipCheck, Import, FetchRecordSeq, FetchRecordHead, HelperFetch, Stop
<1>2. d # c => push'[c] = push[c]
  BY <1>1 DEF AppendOk, IInv, TypeOK
<1> QED
  BY <1>1, <1>2 DEF Posts

\* A push whose baseline is the tip that its fast-forward check saw changes its own ref
\* alone, and without --force loses no commit of it and moves no tag, however many heads of
\* other pushers its retries meet (reconcile_refs_for_cas).
THEOREM RetrySafe == Spec => RetryKeepsOthersWork
<1> DEFINE A == \A c \in Clients : Posts(c) /\ SameTip(push[c]) =>
                  \A r \in Refs : Touches(r) =>
                      /\ r = push[c].dst
                      /\ push[c].nonff \/ Keeps(r)
<1>1. ASSUME IInv, Next PROVE A
  <2> SUFFICES ASSUME NEW c \in Clients, Posts(c), SameTip(push[c]), NEW r \in Refs, Touches(r)
               PROVE  r = push[c].dst /\ (push[c].nonff \/ Keeps(r))
    OBVIOUS
  <2> DEFINE p == push[c]
             base == RefsAt(p.base)
             remote == RefsAt(Len(log))
             m == Merged(base, Caller(p), remote, p.nonff)
  <2>1. AppendOk(c)
    BY <1>1, OnlyAppendPosts
  <2>2. /\ TypeOK /\ Len(log) \in Nat /\ p \in PushState /\ PushOK(p) /\ p.pc = "append" /\ p.tip = Len(log)
        /\ p.dst \in Refs /\ p.base \in 0..Len(log) /\ (~p.nonff => Forward(p))
    BY <1>1, <2>1 DEF IInv, TypeOK, PushOK, UnderWay, AppendOk
  <2>3. base \in RefsMap /\ remote \in RefsMap
    BY <2>2, RefsAtType
  <2>4. RefsAt(p.saw) = base /\ RefsAt(p.cli) = base
    BY DEF SameTip
  <2>5. \A q \in Refs : Caller(p)[q] = IF q = p.dst THEN p.new ELSE base[q]
    BY <2>2, <2>3, <2>4 DEF Caller, RefsMap
  <2>6. log'[Len(log')].refs = m
    <3>1. log' = Append(log, PlannedHead(p)) /\ PlannedHead(p).refs = m
      BY <2>1, <2>2 DEF AppendOk, PlannedHead
    <3> QED
      BY <2>2, <3>1 DEF TypeOK
  <2>7. m[r] # remote[r]
    BY <2>6 DEF Touches
  <2>8. m[r] = IF r \in Intended(base, Caller(p)) THEN Caller(p)[r]
               ELSE IF p.nonff /\ r \in Deleted(base, Caller(p)) THEN NoCommit
               ELSE remote[r]
    BY DEF Merged
  <2>9. r = p.dst
    BY <2>5, <2>7, <2>8 DEF Intended, Deleted
  <2>10. ASSUME ~p.nonff PROVE Keeps(r)
    <3>1. r \in Intended(base, Caller(p)) /\ m[r] = p.new
      BY <2>5, <2>7, <2>8, <2>9, <2>10
    <3>2. /\ p.new # NoCommit
          /\ base[r] \in {NoCommit, p.new} \/ (r \notin Tags /\ base[r] \in anc[p.new])
          /\ ~Refused(base, Caller(p), remote)
      BY <2>2, <2>4, <2>9, <2>10 DEF Forward
    <3>3. remote[r] \in {NoCommit, base[r], p.new}
      BY <2>5, <2>9, <3>1, <3>2 DEF Refused
    <3> HIDE DEF base, remote, m
    <3>4. \/ remote[r] \in {NoCommit, p.new}
          \/ r \notin Tags /\ p.new # NoCommit /\ remote[r] \in anc[p.new]
      BY <3>2, <3>3
    <3> QED
      BY <2>6, <3>1, <3>4 DEF Keeps, remote
  <2> QED
    BY <2>9, <2>10
<1>2. IInv /\ [Next]_vars => [A]_vars
  BY <1>1
<1> QED
  BY <1>2, Invariant, PTL DEF Spec, RetryKeepsOthersWork
=============================================================================
