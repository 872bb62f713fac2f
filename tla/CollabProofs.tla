---------------------------- MODULE CollabProofs ----------------------------
(***************************************************************************)
(* Proofs about the inbox of Collab, the numbers of issues and pull        *)
(* requests, the folds of the messages and what commands send of them, for *)
(* every number of devices, processes, messages, kills and new keys.       *)
(***************************************************************************)
EXTENDS Collab, FiniteSetTheorems, WellFoundedInduction, TLAPS

USE CollabAssumption

\* Device d has message s, or the history says why it has not.
HeldAt(d, s) == cache[d][s] = queue[s] \/ <<d, s>> \in missed

\* What a process knows of its cache: it read the cursor, so that all before it was
\* there; and of the page it is writing, what it is not still to write is there.
FetchingOK(p) ==
    LET c == cmd[p] IN
    /\ c = [pc |-> "fetch", key |-> c.key, after |-> c.after]
    /\ c.after \in 0..Len(queue)
    /\ \A s \in 1..c.after : HeldAt(home[p], s)
CachingOK(p) ==
    LET c == cmd[p] IN
    /\ c = [pc |-> "cache", key |-> c.key, page |-> c.page, todo |-> c.todo]
    /\ c.page \in SUBSET (1..Len(queue)) /\ c.page # {} /\ c.todo \in SUBSET c.page
    /\ \A s \in 1..Max(c.page) : s \in c.todo \/ HeldAt(home[p], s)
ProcOK(p) ==
    /\ cmd[p].pc = "fetch" => FetchingOK(p)
    /\ cmd[p].pc = "cache" => CachingOK(p)

Shapes ==
    /\ home \in [Procs -> Devices]
    /\ Len(queue) <= MaxQueue /\ \E S : queue \in Seq(S)
    /\ cursor \in [Devices -> Nat] /\ \A d \in Devices : cursor[d] <= Len(queue)
    /\ cache = [d \in Devices |-> [s \in Seqs |-> cache[d][s]]]
    /\ cmd = [p \in Procs |-> cmd[p]]

IInv ==
    /\ Shapes
    /\ \A p \in Procs : ProcOK(p)
    /\ CacheWhole

-----------------------------------------------------------------------------
\* A set of numbers that is not empty has a smallest one.
LEMMA MinIn ==
  ASSUME NEW S, S # {}, \A x \in S : x \in Nat
  PROVE  Min(S) \in S /\ \A y \in S : Min(S) <= y
<1>1. \E x \in S : \A y \in S : ~(<<y, x>> \in OpToRel(<, Nat))
  BY NatLessThanWellFounded, WFMin, Zenon
<1>2. PICK x \in S : \A y \in S : ~(y < x)
  BY <1>1 DEF OpToRel
<1>3. x \in S /\ \A y \in S : x <= y
  BY <1>2
<1> QED
  BY <1>3 DEF Min

\* A set of numbers that is bounded and not empty has a largest one.
LEMMA MaxIn ==
  ASSUME NEW n \in Nat, NEW S \in SUBSET (1..n), S # {}
  PROVE  Max(S) \in S /\ \A k \in S : k <= Max(S)
<1> DEFINE T == {n - i : i \in S}
<1>0. \A i \in S : i \in 1..n /\ n - i \in Nat
  OBVIOUS
<1>1. T # {} /\ \A x \in T : x \in Nat
  BY <1>0
<1>2. PICK x \in T : \A y \in T : x <= y
  <2> HIDE DEF T
  <2> QED
    BY <1>1, MinIn
<1>3. PICK i \in S : x = n - i
  OBVIOUS
<1>4. \A k \in S : k <= i
  <2> TAKE k \in S
  <2>1. n - i <= n - k
    BY <1>2, <1>3
  <2> QED
    BY <2>1
<1>5. i \in S /\ \A k \in S : i >= k
  BY <1>4
<1> QED
  BY <1>5 DEF Max

\* Nothing is queued and nobody is syncing.
LEMMA InitOK ==
  ASSUME Init
  PROVE  IInv
<1>1. queue \in Seq({}) /\ Len(queue) = 0
  BY DEF Init
<1>2. Shapes
  BY <1>1 DEF Shapes, Init
<1>3. \A p \in Procs : cmd[p].pc = "idle"
  BY DEF Init, IdleCmd
<1>4. CacheWhole
  BY DEF CacheWhole, Init
<1> QED
  BY <1>2, <1>3, <1>4 DEF IInv, ProcOK

\* What the types say of the numbers of messages.
LEMMA Numbers ==
  ASSUME Shapes
  PROVE  /\ Len(queue) \in Nat /\ MaxQueue \in Nat /\ Len(queue) <= MaxQueue
         /\ \A p \in Procs : home[p] \in Devices
         /\ \A d \in Devices : cursor[d] \in Nat /\ cursor[d] <= Len(queue)
         /\ \A n \in 0..Len(queue) : \A s \in 1..n : s \in Seqs /\ s \in 1..Len(queue)
<1>1. Len(queue) \in Nat /\ MaxQueue \in Nat /\ Len(queue) <= MaxQueue
  BY DEF Shapes
<1>2. \A p \in Procs : home[p] \in Devices
  BY DEF Shapes
<1>3. \A d \in Devices : cursor[d] \in Nat /\ cursor[d] <= Len(queue)
  BY DEF Shapes
<1> QED
  BY <1>1, <1>2, <1>3 DEF Seqs

\* All that the cursor has passed is in the inbox.
LEMMA CursorHeld ==
  ASSUME IInv, NEW d \in Devices
  PROVE  \A s \in 1..cursor[d] : HeldAt(d, s)
BY DEF IInv, CacheWhole, HeldAt

\* The last message of the page that a process is writing.
LEMMA PageEnd ==
  ASSUME Shapes, NEW p \in Procs, CachingOK(p)
  PROVE  Max(cmd[p].page) \in cmd[p].page /\ Max(cmd[p].page) \in 1..Len(queue)
<1>1. Len(queue) \in Nat
  BY Numbers
<1>2. cmd[p].page \in SUBSET (1..Len(queue)) /\ cmd[p].page # {}
  BY DEF CachingOK
<1>3. Max(cmd[p].page) \in cmd[p].page
  BY <1>1, <1>2, MaxIn
<1> QED
  BY <1>2, <1>3

\* What holds of a process goes on to hold while it takes no step itself.
LEMMA ProcKept ==
  ASSUME Shapes, NEW p \in Procs, ProcOK(p), home' = home, cmd'[p] = cmd[p],
         Len(queue') \in Nat, Len(queue) <= Len(queue'),
         cmd[p].pc = "fetch" => \A s \in 1..cmd[p].after : HeldAt(home[p], s) => HeldAt(home[p], s)',
         cmd[p].pc = "cache" => \A s \in 1..Max(cmd[p].page) :
            s \notin cmd[p].todo /\ HeldAt(home[p], s) => HeldAt(home[p], s)'
  PROVE  ProcOK(p)'
<1>0. Len(queue) \in Nat
  BY DEF Shapes
<1>1. CASE cmd[p].pc = "fetch"
  <2>1. FetchingOK(p)
    BY <1>1 DEF ProcOK
  <2>2. \A s \in 1..cmd[p].after : HeldAt(home[p], s)'
    BY <1>1, <2>1 DEF FetchingOK
  <2>3. FetchingOK(p)'
    BY <1>0, <2>1, <2>2 DEF FetchingOK
  <2> QED
    BY <1>1, <2>3 DEF ProcOK
<1>2. CASE cmd[p].pc = "cache"
  <2>1. CachingOK(p)
    BY <1>2 DEF ProcOK
  <2>2. \A s \in 1..Max(cmd[p].page) : s \in cmd[p].todo \/ HeldAt(home[p], s)'
    BY <1>2, <2>1 DEF CachingOK
  <2>3. CachingOK(p)'
    BY <1>0, <2>1, <2>2 DEF CachingOK
  <2> QED
    BY <1>2, <2>3 DEF ProcOK
<1> QED
  BY <1>1, <1>2 DEF ProcOK

\* A step that changes neither the queue nor an inbox and moves no cursor back keeps
\* what the processes know.
LEMMA Quiet ==
  ASSUME IInv, NEW p \in Procs, NEW c, UNCHANGED <<home, queue, cursor, cache, missed>>,
         cmd' = [cmd EXCEPT ![p] = c], c.pc \notin {"fetch", "cache"}
  PROVE  IInv'
<1>0. Shapes /\ Len(queue) \in Nat
  BY DEF IInv, Shapes
<1>1. cmd' = [q \in Procs |-> cmd'[q]] /\ cmd'[p] = c /\ \A q \in Procs \ {p} : cmd'[q] = cmd[q]
  BY <1>0 DEF Shapes
<1>2. Shapes'
  BY <1>0, <1>1 DEF Shapes
<1>3. \A q \in Procs \ {p} : ProcOK(q)'
  <2> TAKE q \in Procs \ {p}
  <2>1. ProcOK(q) /\ \A s : HeldAt(home[q], s) => HeldAt(home[q], s)'
    BY DEF IInv, HeldAt
  <2> QED
    BY <1>0, <1>1, <2>1, ProcKept
<1>4. ProcOK(p)'
  BY <1>1 DEF ProcOK
<1>5. CacheWhole'
  BY DEF IInv, CacheWhole
<1> QED
  BY <1>2, <1>3, <1>4, <1>5 DEF IInv

\* A new key changes only what later syncs can open.
LEMMA RekeyStep ==
  ASSUME IInv, NEW d \in Devices, Rekey(d)
  PROVE  IInv'
<1>0. Shapes /\ Len(queue) \in Nat
  BY DEF IInv, Shapes
<1>1. UNCHANGED <<home, queue, cursor, cache, cmd, missed>>
  BY DEF Rekey
<1>2. \A q \in Procs : ProcOK(q)'
  <2> TAKE q \in Procs
  <2>1. ProcOK(q) /\ \A s : HeldAt(home[q], s) => HeldAt(home[q], s)'
    BY <1>1 DEF IInv, HeldAt
  <2> QED
    BY <1>0, <1>1, <2>1, ProcKept
<1> QED
  BY <1>0, <1>1, <1>2 DEF IInv, Shapes, CacheWhole

\* A sync begins: all up to the cursor it read is there.
LEMMA LoadStep ==
  ASSUME IInv, NEW p \in Procs, LoadCursor(p)
  PROVE  IInv'
<1> DEFINE d == home[p]
<1>0. Shapes /\ Len(queue) \in Nat /\ d \in Devices
  BY DEF IInv, Shapes
<1>1. PICK after \in {cursor[d], 0} :
        cmd' = [cmd EXCEPT ![p] = [pc |-> "fetch", key |-> key[d], after |-> after]]
  BY DEF LoadCursor
<1>2. UNCHANGED <<home, queue, cursor, cache, missed>>
  BY DEF LoadCursor
<1>3. /\ cmd' = [q \in Procs |-> cmd'[q]] /\ \A q \in Procs \ {p} : cmd'[q] = cmd[q]
      /\ cmd'[p] = [pc |-> "fetch", key |-> key[d], after |-> after]
  BY <1>0, <1>1 DEF Shapes
<1>4. Shapes'
  BY <1>0, <1>2, <1>3 DEF Shapes
<1>5. \A q \in Procs \ {p} : ProcOK(q)'
  <2> TAKE q \in Procs \ {p}
  <2>1. ProcOK(q) /\ \A s : HeldAt(home[q], s) => HeldAt(home[q], s)'
    BY <1>2 DEF IInv, HeldAt
  <2> QED
    BY <1>0, <1>2, <1>3, <2>1, ProcKept
<1>6. after \in 0..Len(queue) /\ \A s \in 1..after : HeldAt(d, s)
  BY <1>0, Numbers, CursorHeld
<1>7. \A s \in 1..after : HeldAt(d, s)'
  BY <1>2, <1>6 DEF HeldAt
<1>8. FetchingOK(p)'
  BY <1>2, <1>3, <1>6, <1>7 DEF FetchingOK
<1>9. CacheWhole'
  BY <1>2 DEF IInv, CacheWhole
<1> QED
  BY <1>3, <1>4, <1>5, <1>8, <1>9 DEF IInv, ProcOK

\* A page begins after the cursor, so that what is not on it and below its end was there.
LEMMA FetchStep ==
  ASSUME IInv, NEW p \in Procs, FetchPage(p)
  PROVE  IInv'
<1> DEFINE d == home[p]
           after == cmd[p].after
           page == PageAfter(after)
           opened == {s \in page : Openable(s, cmd[p].key)}
<1>0. Shapes /\ Len(queue) \in Nat /\ d \in Devices
  BY DEF IInv, Shapes
<1>1. /\ missed' = missed \cup {<<d, s>> : s \in page \ opened}
      /\ UNCHANGED <<home, queue, cursor, cache>>
  BY DEF FetchPage
<1>2. \A e, s : HeldAt(e, s) => HeldAt(e, s)'
  BY <1>1 DEF HeldAt
<1>3. FetchingOK(p)
  BY DEF IInv, ProcOK, FetchPage
<1>4. page \in SUBSET (1..Len(queue)) /\ opened \in SUBSET page
  BY DEF PageAfter
<1>5. CASE page = {}
  <2>1. cmd' = [cmd EXCEPT ![p] = [pc |-> "fold", key |-> cmd[p].key]]
    BY <1>5 DEF FetchPage
  <2>2. missed' = missed
    BY <1>1, <1>5
  <2> HIDE DEF page, opened, after
  <2> QED
    BY <1>1, <2>1, <2>2, Quiet
<1>6. CASE page # {}
  <2>1. cmd' = [cmd EXCEPT ![p] = [pc |-> "cache", key |-> cmd[p].key, page |-> page, todo |-> opened]]
    BY <1>6 DEF FetchPage
  <2>2. PICK pg, op : pg = page /\ op = opened
    OBVIOUS
  <2>3. /\ cmd' = [q \in Procs |-> cmd'[q]] /\ \A q \in Procs \ {p} : cmd'[q] = cmd[q]
        /\ cmd'[p] = [pc |-> "cache", key |-> cmd[p].key, page |-> pg, todo |-> op]
    <3> HIDE DEF page, opened
    <3> QED
      BY <1>0, <2>1, <2>2 DEF Shapes
  <2>4. Shapes'
    BY <1>0, <1>1, <2>3 DEF Shapes
  <2>5. \A q \in Procs \ {p} : ProcOK(q)'
    <3> TAKE q \in Procs \ {p}
    <3>1. ProcOK(q)
      BY DEF IInv
    <3> QED
      BY <1>0, <1>1, <1>2, <2>3, <3>1, ProcKept
  <2>6. Max(pg) \in pg /\ Max(pg) \in 1..Len(queue) /\ Max(pg) <= after + FetchLimit
    <3>1. Max(pg) \in pg
      BY <1>0, <1>4, <1>6, <2>2, MaxIn
    <3> QED
      BY <2>2, <3>1 DEF PageAfter
  <2>7. ASSUME NEW s \in 1..Max(pg)  PROVE s \in op \/ HeldAt(d, s)'
    <3>1. CASE s <= after
      BY <1>1, <1>2, <1>3, <2>6, <3>1 DEF FetchingOK
    <3>2. CASE s > after
      <4>1. s \in pg
        BY <1>0, <1>3, <2>2, <2>6, <3>2 DEF PageAfter, FetchingOK
      <4>2. s \notin op => <<d, s>> \in missed'
        BY <1>1, <2>2, <4>1
      <4> QED
        BY <1>1, <4>2 DEF HeldAt
    <3> QED
      BY <1>3, <2>6, <3>1, <3>2 DEF FetchingOK
  <2>8. CachingOK(p)'
    BY <1>1, <1>4, <1>6, <2>2, <2>3, <2>7 DEF CachingOK
  <2>9. CacheWhole'
    BY <1>1 DEF IInv, CacheWhole
  <2> QED
    BY <2>3, <2>4, <2>5, <2>8, <2>9 DEF IInv, ProcOK
<1> QED
  BY <1>5, <1>6

\* A message of the page is written, or missed for want of a key.
LEMMA CacheStep ==
  ASSUME IInv, NEW p \in Procs, CacheOne(p)
  PROVE  IInv'
<1> DEFINE d == home[p]
<1>0. Shapes /\ Len(queue) \in Nat /\ d \in Devices /\ MaxQueue \in Nat
  BY DEF IInv, Shapes
<1>1. CachingOK(p) /\ cmd[p].todo # {}
  BY DEF IInv, ProcOK, CacheOne
<1>2. PICK s : s = Min(cmd[p].todo)
  OBVIOUS
<1>3. s \in cmd[p].todo /\ s \in Seqs /\ s \in 1..Len(queue)
  <2>1. cmd[p].todo \in SUBSET (1..Len(queue))
    BY <1>1 DEF CachingOK
  <2>2. s \in cmd[p].todo
    BY <1>1, <1>2, <2>1, MinIn
  <2> QED
    BY <1>0, <2>1, <2>2, Numbers
<1>4. /\ cache' = [cache EXCEPT ![d][s] = queue[s]]
      /\ cmd' = [cmd EXCEPT ![p].todo = @ \ {s}]
      /\ missed' = missed \ {<<d, s>>}
      /\ UNCHANGED <<home, queue, cursor>>
  BY <1>2 DEF CacheOne
<1>5. /\ cache' = [e \in Devices |-> [n \in Seqs |-> cache'[e][n]]]
      /\ cache'[d][s] = queue[s]
      /\ \A e \in Devices, n \in Seqs : <<e, n>> # <<d, s>> => cache'[e][n] = cache[e][n]
  BY <1>0, <1>3, <1>4 DEF Shapes
<1>6. /\ cmd' = [q \in Procs |-> cmd'[q]] /\ \A q \in Procs \ {p} : cmd'[q] = cmd[q]
      /\ cmd'[p] = [pc |-> "cache", key |-> cmd[p].key, page |-> cmd[p].page, todo |-> cmd[p].todo \ {s}]
  <2>1. cmd'[p] = [cmd[p] EXCEPT !.todo = cmd[p].todo \ {s}]
    BY <1>0, <1>4 DEF Shapes
  <2>2. PICK k, pg, td : cmd[p] = [pc |-> "cache", key |-> k, page |-> pg, todo |-> td]
    BY <1>1 DEF CachingOK
  <2>3. cmd' = [q \in Procs |-> cmd'[q]] /\ \A q \in Procs \ {p} : cmd'[q] = cmd[q]
    BY <1>0, <1>4 DEF Shapes
  <2>4. cmd'[p] = [[pc |-> "cache", key |-> k, page |-> pg, todo |-> td] EXCEPT !.todo = td \ {s}]
    BY <2>1, <2>2
  <2>5. cmd'[p] = [pc |-> "cache", key |-> k, page |-> pg, todo |-> td \ {s}]
    BY <2>4
  <2> QED
    BY <2>2, <2>3, <2>5
<1>7. Shapes'
  BY <1>0, <1>4, <1>5, <1>6 DEF Shapes
<1>8. HeldAt(d, s)' /\ \A e \in Devices, n \in Seqs : HeldAt(e, n) => HeldAt(e, n)'
  BY <1>4, <1>5 DEF HeldAt
<1>9. \A q \in Procs \ {p} : ProcOK(q)'
  <2> TAKE q \in Procs \ {p}
  <2>1. ProcOK(q) /\ home[q] \in Devices
    BY <1>0 DEF IInv, Shapes
  <2>2. cmd[q].pc = "fetch" => \A n \in 1..cmd[q].after : n \in Seqs
    BY <1>0, <2>1, Numbers DEF ProcOK, FetchingOK
  <2>3. cmd[q].pc = "cache" => \A n \in 1..Max(cmd[q].page) : n \in Seqs
    <3> HAVE cmd[q].pc = "cache"
    <3>1. CachingOK(q)
      BY <2>1 DEF ProcOK
    <3>2. Max(cmd[q].page) \in 1..Len(queue)
      BY <1>0, <3>1, PageEnd
    <3> QED
      BY <1>0, <3>2, Numbers
  <2> QED
    BY <1>0, <1>4, <1>6, <1>8, <2>1, <2>2, <2>3, ProcKept
<1>10. CachingOK(p)'
  <2>1. Max(cmd[p].page) \in 1..Len(queue)
    BY <1>0, <1>1, PageEnd
  <2>2. \A n \in 1..Max(cmd[p].page) : n \in cmd[p].todo \/ HeldAt(d, n)
    BY <1>1 DEF CachingOK
  <2>3. \A n \in 1..Max(cmd[p].page) : n \in Seqs
    BY <1>0, <2>1, Numbers
  <2>4. \A n \in 1..Max(cmd[p].page) : n \in cmd[p].todo \ {s} \/ HeldAt(home[p], n)'
    BY <1>0, <1>4, <1>8, <2>2, <2>3
  <2> QED
    BY <1>1, <1>4, <1>6, <2>4 DEF CachingOK
<1>11. CacheWhole'
  <2>1. \A e \in Devices : \A n \in 1..cursor[e] : n \in Seqs /\ HeldAt(e, n)
    BY <1>0, Numbers, CursorHeld
  <2>2. \A e \in Devices : \A n \in 1..cursor[e] : HeldAt(e, n)'
    BY <1>8, <2>1
  <2> QED
    BY <1>4, <2>2 DEF CacheWhole, HeldAt
<1> QED
  BY <1>6, <1>7, <1>9, <1>10, <1>11 DEF IInv, ProcOK

\* The cursor moves to the end of a page that is written.
LEMMA SaveStep ==
  ASSUME IInv, NEW p \in Procs, SaveCursor(p)
  PROVE  IInv'
<1> DEFINE d == home[p]
<1>0. Shapes /\ Len(queue) \in Nat /\ d \in Devices
  BY Numbers DEF IInv
<1>1. CachingOK(p) /\ cmd[p].todo = {}
  BY DEF IInv, ProcOK, SaveCursor, SavesCursor
<1>2. PICK n : n = Max(cmd[p].page)
  OBVIOUS
<1>3. n \in 1..Len(queue) /\ \A s \in 1..n : HeldAt(d, s)
  BY <1>0, <1>1, <1>2, PageEnd DEF CachingOK
<1>4. /\ cursor' = [cursor EXCEPT ![d] = n]
      /\ cmd' = [cmd EXCEPT ![p] = [pc |-> "fold", key |-> cmd[p].key]]
      /\ UNCHANGED <<home, queue, cache, missed>>
  BY <1>2 DEF SaveCursor
<1>5. /\ cursor' \in [Devices -> Nat] /\ cursor'[d] = n
      /\ \A e \in Devices \ {d} : cursor'[e] = cursor[e]
  BY <1>0, <1>3, <1>4 DEF Shapes
<1>6. /\ cmd' = [q \in Procs |-> cmd'[q]] /\ \A q \in Procs \ {p} : cmd'[q] = cmd[q]
      /\ cmd'[p].pc = "fold"
  BY <1>0, <1>4 DEF Shapes
<1>7. \A e \in Devices : cursor'[e] <= Len(queue)
  BY <1>0, <1>3, <1>5, Numbers
<1>8. Shapes'
  BY <1>0, <1>4, <1>5, <1>6, <1>7 DEF Shapes
<1>9. \A q \in Procs \ {p} : ProcOK(q)'
  <2> TAKE q \in Procs \ {p}
  <2>1. ProcOK(q) /\ \A s : HeldAt(home[q], s) => HeldAt(home[q], s)'
    BY <1>4 DEF IInv, HeldAt
  <2> QED
    BY <1>0, <1>4, <1>6, <2>1, ProcKept
<1>10. CacheWhole'
  <2>1. \A e \in Devices : \A s \in 1..cursor'[e] : HeldAt(e, s)
    <3>1. \A e \in Devices : \A s \in 1..cursor[e] : HeldAt(e, s)
      BY CursorHeld
    <3> TAKE e \in Devices
    <3>2. CASE e = d
      BY <1>3, <1>5, <3>2
    <3>3. CASE e # d
      BY <1>5, <3>1, <3>3
    <3> QED
      BY <3>2, <3>3
  <2> QED
    BY <1>4, <2>1 DEF CacheWhole, HeldAt
<1> QED
  BY <1>6, <1>8, <1>9, <1>10 DEF IInv, ProcOK

\* A message is appended: the messages before it stay where they are.
LEMMA EnqueueStep ==
  ASSUME IInv, NEW p \in Procs, NEW m, NEW k, NEW had, Enqueue(p, m, k, had)
  PROVE  IInv'
<1>0. Shapes /\ Len(queue) \in Nat
  BY Numbers DEF IInv
<1>1. PICK x : queue' = Append(queue, x)
  BY DEF Enqueue
<1>2. PICK S : queue \in Seq(S)
  BY <1>0 DEF Shapes
<1>3. queue \in Seq(S \cup {x})
  BY <1>2
<1>4. /\ queue' \in Seq(S \cup {x}) /\ Len(queue') = Len(queue) + 1
      /\ \A s \in 1..Len(queue) : queue'[s] = queue[s]
  BY <1>1, <1>3
<1>5. /\ Len(queue) < MaxQueue /\ cmd' = [cmd EXCEPT ![p] = IdleCmd]
      /\ UNCHANGED <<home, cursor, cache, missed>>
  BY DEF Enqueue
<1>6. /\ cmd' = [q \in Procs |-> cmd'[q]] /\ \A q \in Procs \ {p} : cmd'[q] = cmd[q]
      /\ cmd'[p].pc = "idle"
  BY <1>0, <1>5 DEF Shapes, IdleCmd
<1>7. Shapes'
  <2>1. Len(queue') <= MaxQueue /\ \A d \in Devices : cursor[d] <= Len(queue')
    BY <1>0, <1>4, <1>5, Numbers
  <2> QED
    BY <1>0, <1>4, <1>5, <1>6, <2>1 DEF Shapes
<1>8. \A e : \A s \in 1..Len(queue) : HeldAt(e, s) => HeldAt(e, s)'
  BY <1>4, <1>5 DEF HeldAt
<1>9. \A q \in Procs \ {p} : ProcOK(q)'
  <2> TAKE q \in Procs \ {p}
  <2>1. ProcOK(q)
    BY DEF IInv
  <2>2. cmd[q].pc = "fetch" => \A n \in 1..cmd[q].after : n \in 1..Len(queue)
    BY <1>0, <2>1, Numbers DEF ProcOK, FetchingOK
  <2>3. cmd[q].pc = "cache" => \A n \in 1..Max(cmd[q].page) : n \in 1..Len(queue)
    <3> HAVE cmd[q].pc = "cache"
    <3>1. Max(cmd[q].page) \in 1..Len(queue)
      BY <1>0, <2>1, PageEnd DEF ProcOK
    <3> QED
      BY <1>0, <3>1, Numbers
  <2> QED
    BY <1>0, <1>4, <1>5, <1>6, <1>8, <2>1, <2>2, <2>3, ProcKept
<1>10. CacheWhole'
  <2>1. \A d \in Devices : \A s \in 1..cursor[d] : s \in 1..Len(queue) /\ HeldAt(d, s)
    BY <1>0, Numbers, CursorHeld
  <2>2. \A d \in Devices : \A s \in 1..cursor[d] : HeldAt(d, s)'
    BY <1>8, <2>1
  <2> QED
    BY <1>5, <2>2 DEF CacheWhole, HeldAt
<1> QED
  BY <1>6, <1>7, <1>9, <1>10 DEF IInv, ProcOK

\* A kill may tear the file that was being written, or the cursor.
LEMMA KillStep ==
  ASSUME IInv, NEW p \in Procs, Kill(p)
  PROVE  IInv'
<1> DEFINE d == home[p]
<1>0. Shapes /\ Len(queue) \in Nat /\ d \in Devices
  BY Numbers DEF IInv
<1>1. cmd' = [cmd EXCEPT ![p] = IdleCmd] /\ UNCHANGED <<home, queue>> /\ IdleCmd.pc = "idle"
  BY DEF Kill, IdleCmd
<1>2. /\ cmd' = [q \in Procs |-> cmd'[q]] /\ \A q \in Procs \ {p} : cmd'[q] = cmd[q]
      /\ cmd'[p].pc = "idle"
  BY <1>0, <1>1 DEF Shapes
<1>3. CASE UNCHANGED <<cache, cursor, missed>>
  BY <1>1, <1>3, Quiet
<1>4. CASE SavesCursor(p) /\ cursor' = [cursor EXCEPT ![d] = 0] /\ UNCHANGED <<cache, missed>>
  <2>1. /\ cursor' \in [Devices -> Nat]
        /\ \A e \in Devices : cursor'[e] \in {0, cursor[e]}
    BY <1>0, <1>4 DEF Shapes
  <2>2. Shapes'
    BY <1>0, <1>1, <1>2, <1>4, <2>1 DEF Shapes
  <2>3. \A q \in Procs \ {p} : ProcOK(q)'
    <3> TAKE q \in Procs \ {p}
    <3>1. ProcOK(q) /\ \A s : HeldAt(home[q], s) => HeldAt(home[q], s)'
      BY <1>1, <1>4 DEF IInv, HeldAt
    <3> QED
      BY <1>0, <1>1, <1>2, <3>1, ProcKept
  <2>4. \A e \in Devices : \A s \in 1..cursor'[e] : HeldAt(e, s)
    <3>1. \A e \in Devices : \A s \in 1..cursor[e] : HeldAt(e, s)
      BY CursorHeld
    <3> TAKE e \in Devices
    <3>2. CASE cursor'[e] = cursor[e]
      BY <3>1, <3>2
    <3>3. CASE cursor'[e] = 0
      BY <3>3
    <3> QED
      BY <2>1, <3>2, <3>3
  <2>5. CacheWhole'
    BY <1>1, <1>4, <2>4 DEF CacheWhole, HeldAt
  <2> QED
    BY <1>2, <2>2, <2>3, <2>5 DEF IInv, ProcOK
<1>5. CASE /\ cmd[p].pc = "cache" /\ cmd[p].todo # {}
           /\ LET s == Min(cmd[p].todo)
                  past == s <= cursor[d] \/ \E q \in Others(p) :
                             \/ cmd[q].pc = "fetch" /\ s <= cmd[q].after
                             \/ cmd[q].pc = "cache" /\ s <= Max(cmd[q].page) /\ s \notin cmd[q].todo
              IN /\ cache' = [cache EXCEPT ![d][s] = Unreadable]
                 /\ missed' = IF past THEN missed \cup {<<d, s>>} ELSE missed
           /\ UNCHANGED cursor
  <2>1. CachingOK(p)
    BY <1>5 DEF IInv, ProcOK
  <2>2. PICK s : s = Min(cmd[p].todo)
    OBVIOUS
  <2>3. s \in Seqs /\ s \in Nat
    <3>1. cmd[p].todo \in SUBSET (1..Len(queue))
      BY <2>1 DEF CachingOK
    <3>2. s \in cmd[p].todo
      BY <1>5, <2>2, <3>1, MinIn
    <3> QED
      BY <1>0, <3>1, <3>2, Numbers
  <2>4. cache' = [cache EXCEPT ![d][s] = Unreadable] /\ cursor' = cursor
    BY <1>5, <2>2
  <2>5. /\ cache' = [e \in Devices |-> [n \in Seqs |-> cache'[e][n]]]
        /\ \A e \in Devices, n \in Seqs : <<e, n>> # <<d, s>> => cache'[e][n] = cache[e][n]
    BY <1>0, <2>3, <2>4 DEF Shapes
  <2>6. \A x : x \in missed => x \in missed'
    BY <1>5, <2>2
  <2>7. /\ s <= cursor[d] => <<d, s>> \in missed'
        /\ \A q \in Procs \ {p} : home[q] = d /\ cmd[q].pc = "fetch" /\ s <= cmd[q].after
              => <<d, s>> \in missed'
        /\ \A q \in Procs \ {p} : home[q] = d /\ cmd[q].pc = "cache"
                                    /\ s <= Max(cmd[q].page) /\ s \notin cmd[q].todo
              => <<d, s>> \in missed'
    BY <1>5, <2>2 DEF Others
  <2>8. \A e \in Devices, n \in Seqs : HeldAt(e, n) => HeldAt(e, n)' \/ <<e, n>> = <<d, s>>
    BY <1>1, <2>5, <2>6 DEF HeldAt
  <2>9. <<d, s>> \in missed' => HeldAt(d, s)'
    BY <1>1 DEF HeldAt
  <2>10. Shapes'
    BY <1>0, <1>1, <1>2, <2>4, <2>5 DEF Shapes
  <2>11. \A q \in Procs \ {p} : ProcOK(q)'
    <3> TAKE q \in Procs \ {p}
    <3>1. ProcOK(q) /\ home[q] \in Devices
      BY <1>0, Numbers DEF IInv
    <3>2. cmd[q].pc = "fetch" => \A n \in 1..cmd[q].after : HeldAt(home[q], n) => HeldAt(home[q], n)'
      <4> SUFFICES ASSUME cmd[q].pc = "fetch", NEW n \in 1..cmd[q].after, HeldAt(home[q], n)
                   PROVE  HeldAt(home[q], n)'
        BY <1>1
      <4>1. n \in Seqs /\ n <= cmd[q].after
        BY <1>0, <3>1, Numbers DEF ProcOK, FetchingOK
      <4> QED
        BY <1>1, <2>7, <2>8, <2>9, <3>1, <4>1
    <3>3. cmd[q].pc = "cache" => \A n \in 1..Max(cmd[q].page) :
            n \notin cmd[q].todo /\ HeldAt(home[q], n) => HeldAt(home[q], n)'
      <4> SUFFICES ASSUME cmd[q].pc = "cache", NEW n \in 1..Max(cmd[q].page),
                          n \notin cmd[q].todo, HeldAt(home[q], n)
                   PROVE  HeldAt(home[q], n)'
        BY <1>1
      <4>1. Max(cmd[q].page) \in 1..Len(queue)
        BY <1>0, <3>1, PageEnd DEF ProcOK
      <4>2. n \in Seqs /\ n <= Max(cmd[q].page)
        BY <1>0, <4>1, Numbers
      <4> QED
        BY <1>1, <2>7, <2>8, <2>9, <3>1, <4>2
    <3> QED
      BY <1>0, <1>1, <1>2, <3>1, <3>2, <3>3, ProcKept
  <2>12. CacheWhole'
    <3>1. ASSUME NEW e \in Devices, NEW n \in 1..cursor[e]  PROVE HeldAt(e, n)'
      <4>1. n \in Seqs /\ n <= cursor[e] /\ HeldAt(e, n)
        BY <1>0, Numbers, CursorHeld
      <4> QED
        BY <1>1, <2>7, <2>8, <2>9, <4>1
    <3> QED
      BY <2>4, <3>1 DEF CacheWhole, HeldAt
  <2> QED
    BY <1>2, <2>10, <2>11, <2>12 DEF IInv, ProcOK
<1> QED
  BY <1>3, <1>4, <1>5 DEF Kill

\* The remaining steps of a command leave queue and inbox alone.
LEMMA FoldStep ==
  ASSUME IInv, NEW p \in Procs, NEW page \in BOOLEAN, Fold(p, page)
  PROVE  IInv'
<1>1. PICK k, had, m : cmd' = [cmd EXCEPT ![p] = [pc |-> "send", key |-> k, had |-> had, msg |-> m]]
  BY DEF Fold
<1>2. UNCHANGED <<home, queue, cursor, cache, missed>>
  BY DEF Fold
<1> QED
  BY <1>1, <1>2, Quiet

\* A command that only shows what it folded, or finds no item, ends.
LEMMA StopStep ==
  ASSUME IInv, NEW p \in Procs, Stop(p)
  PROVE  IInv'
BY Quiet DEF Stop, IdleCmd

\* A message joins the queue, past every cursor.
LEMMA SendSteps ==
  ASSUME IInv, NEW p \in Procs, Send(p) \/ SendDirect(p)
  PROVE  IInv'
<1>1. PICK m, k, had : Enqueue(p, m, k, had)
  BY DEF Send, SendDirect
<1> QED
  BY <1>1, EnqueueStep

\* Every step keeps the invariant.
LEMMA StepOK ==
  ASSUME IInv, [Next]_vars
  PROVE  IInv'
<1>1. ASSUME NEW d \in Devices, Rekey(d)  PROVE IInv'
  BY <1>1, RekeyStep
<1>2. ASSUME NEW p \in Procs,
             \/ LoadCursor(p) \/ FetchPage(p) \/ CacheOne(p) \/ SaveCursor(p) \/ Stop(p)
             \/ Send(p) \/ SendDirect(p) \/ Kill(p)
             \/ \E page \in BOOLEAN : Fold(p, page)
      PROVE  IInv'
  BY <1>2, LoadStep, FetchStep, CacheStep, SaveStep, StopStep, SendSteps, KillStep, FoldStep
<1>3. CASE UNCHANGED vars
  <2>1. UNCHANGED <<home, queue, cursor, cache, cmd, missed>>
    BY <1>3 DEF vars
  <2> QED
    BY <2>1 DEF IInv, Shapes, ProcOK, FetchingOK, CachingOK, HeldAt, CacheWhole, Seqs
<1> QED
  BY <1>1, <1>2, <1>3 DEF Next

\* The state of every command and of every inbox fits the queue, whatever the processes
\* that share an inbox do in between and wherever they are killed.
THEOREM Invariant == Spec => []IInv
<1>1. Init => IInv
  BY InitOK
<1>2. IInv /\ [Next]_vars => IInv'
  BY StepOK
<1> QED
  BY <1>1, <1>2, PTL DEF Spec

\* CacheWhole of every behaviour: sync_inbox never leaves a gap behind the cursor, save
\* what it could not open and what a kill tore while it was written a second time.
THEOREM CacheSafe == Spec => []CacheWhole
<1>1. IInv => CacheWhole
  BY DEF IInv
<1> QED
  BY <1>1, Invariant, PTL

-----------------------------------------------------------------------------
(* Numbers of items *)

\* What a message has; none that makes an item is a comment.
MessageFields ==
    {"act", "id", "title", "body", "state", "asked", "key", "no", "had"}
MsgOK(m) ==
    /\ DOMAIN m = MessageFields /\ m.id \in Nat
    /\ m.asked = Fields => m.act # "comment"

\* A message that makes an item has a number above all that its sender had received.
NewOK(m, had) ==
    topic \in {"issue", "pr"} /\ m.asked = Fields =>
        \A i \in had : i \in 1..Len(queue) /\ (queue[i].act # "comment" => queue[i].id < m.id)

\* The cache holds what is in the queue.
CacheOK ==
    \A d \in Devices : \A s \in Seqs : cache[d][s] \notin {Absent, Unreadable} =>
        s \in 1..Len(queue) /\ cache[d][s] = queue[s]

\* All messages, sent and about to be sent, are newer than what their sender had.
NumbersInv ==
    /\ CacheOK
    /\ \A i \in 1..Len(queue) : MsgOK(queue[i]) /\ NewOK(queue[i], queue[i].had)
    /\ \A p \in Procs : cmd[p].pc = "send" => MsgOK(cmd[p].msg) /\ NewOK(cmd[p].msg, cmd[p].had)

\* How many numbers of S there are up to x.
Rank(S, x) == Cardinality({y \in S : y <= x})

\* Ranks run from 1 to the size of the set, in the order of the numbers.
LEMMA Ranks ==
  ASSUME NEW S, IsFiniteSet(S), \A x \in S : x \in Nat
  PROVE  /\ Cardinality(S) \in Nat
         /\ \A x \in S : Rank(S, x) \in 1..Cardinality(S)
         /\ \A x, y \in S : x < y => Rank(S, x) < Rank(S, y)
<1> DEFINE upto(x) == {y \in S : y <= x}
<1>1. Cardinality(S) \in Nat
  BY FS_CardinalityType
<1>2. \A x : IsFiniteSet(upto(x)) /\ Cardinality(upto(x)) \in Nat /\ Cardinality(upto(x)) <= Cardinality(S)
  <2> TAKE x
  <2>1. upto(x) \in SUBSET S
    OBVIOUS
  <2> HIDE DEF upto
  <2>2. IsFiniteSet(upto(x)) /\ Cardinality(upto(x)) <= Cardinality(S)
    BY <2>1, FS_Subset
  <2> QED
    BY <2>2, FS_CardinalityType
<1>3. \A x : Rank(S, x) = Cardinality(upto(x))
  BY DEF Rank
<1>4. ASSUME NEW x \in S  PROVE Rank(S, x) \in 1..Cardinality(S)
  <2>1. x \in upto(x)
    OBVIOUS
  <2>2. Cardinality(upto(x)) # 0
    <3> HIDE DEF upto
    <3> QED
      BY <1>2, <2>1, FS_EmptySet
  <2> HIDE DEF upto
  <2> QED
    BY <1>1, <1>2, <1>3, <2>2
<1>5. ASSUME NEW x \in S, NEW y \in S, x < y  PROVE Rank(S, x) < Rank(S, y)
  <2>1. upto(x) \in SUBSET upto(y) /\ y \in upto(y) /\ y \notin upto(x)
    BY <1>5
  <2> HIDE DEF upto
  <2>2. /\ Cardinality(upto(x)) <= Cardinality(upto(y))
        /\ Cardinality(upto(x)) # Cardinality(upto(y))
    BY <1>2, <2>1, FS_Subset
  <2> QED
    BY <1>2, <1>3, <2>2
<1> HIDE DEF upto
<1> QED
  BY <1>1, <1>4, <1>5

\* A finite set of numbers that is not empty has a largest one: the one with the most
\* others up to it.
LEMMA MaxOfFinite ==
  ASSUME NEW S, IsFiniteSet(S), S # {}, \A x \in S : x \in Nat
  PROVE  Max(S) \in S /\ \A y \in S : y <= Max(S)
<1>1. PICK R : R = {Rank(S, x) : x \in S}
  OBVIOUS
<1>2. PICK n \in Nat : n = Cardinality(S)
  BY Ranks
<1>3. R \in SUBSET (1..n) /\ R # {}
  BY <1>1, <1>2, Ranks
<1>4. Max(R) \in R /\ \A k \in R : k <= Max(R)
  BY <1>2, <1>3, MaxIn
<1>5. PICK m \in S : Max(R) = Rank(S, m)
  BY <1>1, <1>4
<1>6. ASSUME NEW y \in S  PROVE y <= m
  <2>1. Rank(S, y) <= Rank(S, m)
    BY <1>1, <1>4, <1>5
  <2>2. Rank(S, y) \in Nat /\ Rank(S, m) \in Nat /\ (m < y => Rank(S, m) < Rank(S, y))
    BY <1>2, Ranks
  <2> QED
    BY <2>1, <2>2
<1>7. m \in S /\ \A y \in S : m >= y
  BY <1>6
<1> QED
  BY <1>7 DEF Max

\* The messages are those at the places `at` of the cache, in order.
MessagesFrom(d, at) ==
    LET n == Cardinality(Cached(d)) IN
    /\ n \in Nat /\ DOMAIN Messages(d) = 1..n
    /\ \A i \in 1..n : at[i] \in Cached(d) /\ Messages(d)[i] = cache[d][at[i]]
    /\ \A s \in Cached(d) : \E i \in 1..n : at[i] = s
    /\ \A i, j \in 1..n : i < j => at[i] < at[j]

\* Messages(d) has what is cached, all of it and nothing else, by number.
LEMMA MessagesInOrder ==
  ASSUME NEW d
  PROVE  \E at : MessagesFrom(d, at)
<1>1. PICK S : S = Cached(d)
  OBVIOUS
<1>2. S \in SUBSET (1..MaxQueue) /\ \A x \in S : x \in Nat
  BY <1>1 DEF Cached, Seqs
<1>3. IsFiniteSet(S)
  <2>1. MaxQueue \in Nat
    BY DEF CollabAssumption
  <2>2. S \in SUBSET Nat /\ \A x \in S : x <= MaxQueue
    BY <1>2, <2>1
  <2> QED
    BY <2>1, <2>2, FS_BoundedSetOfNaturals
<1>4. PICK n \in Nat : n = Cardinality(S)
  BY <1>2, <1>3, Ranks
<1>5. PICK rank : rank = [x \in S |-> Rank(S, x)]
  OBVIOUS
<1>6. rank \in [S -> 1..n] /\ \A x, y \in S : x < y => rank[x] < rank[y]
  BY <1>2, <1>3, <1>4, <1>5, Ranks
<1>7. rank \in Injection(S, 1..n)
  <2>1. ASSUME NEW x \in S, NEW y \in S, rank[x] = rank[y]  PROVE x = y
    <3>1. rank[x] \in Nat /\ ~(rank[x] < rank[y]) /\ ~(rank[y] < rank[x])
      BY <1>6, <2>1
    <3> QED
      BY <1>2, <1>6, <3>1
  <2> QED
    BY <1>6, <2>1 DEF Injection, IsInjective
<1>8. rank \in Surjection(S, 1..n)
  <2>1. IsFiniteSet(1..n) /\ Cardinality(1..n) = n
    <3>1. 1 \in Int /\ n \in Int /\ (IF 1 > n THEN 0 ELSE n - 1 + 1) = n
      OBVIOUS
    <3> QED
      BY <3>1, FS_Interval
  <2>2. Cardinality(S) = Cardinality(1..n)
    BY <1>4, <2>1
  <2> QED
    BY <1>3, <1>7, <2>1, <2>2, FS_Injection
<1>9. \A i \in 1..n : \E x \in S : Rank(S, x) = i
  BY <1>5, <1>6, <1>8 DEF Surjection
<1>10. PICK at : at = [i \in 1..n |-> CHOOSE x \in S : Rank(S, x) = i]
  OBVIOUS
<1>11. \A i \in 1..n : at[i] \in S /\ Rank(S, at[i]) = i
  BY <1>9, <1>10
<1>12. \A x \in S : rank[x] \in 1..n /\ at[rank[x]] = x
  <2> TAKE x \in S
  <2>1. rank[x] \in 1..n
    BY <1>6
  <2>2. at[rank[x]] \in S /\ Rank(S, at[rank[x]]) = rank[x]
    BY <1>11, <2>1
  <2>3. rank[at[rank[x]]] = rank[x]
    BY <1>5, <2>2
  <2> QED
    BY <1>7, <2>1, <2>2, <2>3 DEF Injection, IsInjective
<1>13. Messages(d) = [i \in 1..n |-> cache[d][at[i]]]
  BY <1>1, <1>4, <1>10 DEF Messages, Rank
<1>14. ASSUME NEW i \in 1..n, NEW j \in 1..n, i < j  PROVE at[i] < at[j]
  <2>1. /\ at[i] \in Nat /\ at[j] \in Nat /\ at[i] \in S /\ at[j] \in S
        /\ rank[at[i]] = i /\ rank[at[j]] = j
    BY <1>2, <1>5, <1>11
  <2>2. at[i] # at[j] /\ ~(at[j] < at[i])
    <3>1. at[j] < at[i] => rank[at[j]] < rank[at[i]]
      BY <1>6, <2>1
    <3> QED
      BY <1>14, <2>1, <3>1
  <2> QED
    BY <2>1, <2>2
<1>15. \A i \in 1..n : Messages(d)[i] = cache[d][at[i]]
  BY <1>13
<1>16. DOMAIN Messages(d) = 1..n
  BY <1>13
<1> QED
  BY <1>1, <1>4, <1>11, <1>12, <1>14, <1>15, <1>16 DEF MessagesFrom

\* The same, without the order.
LEMMA MessagesIs ==
  ASSUME NEW d
  PROVE  /\ Cardinality(Cached(d)) \in Nat /\ DOMAIN Messages(d) = 1..Cardinality(Cached(d))
         /\ \A i \in DOMAIN Messages(d) : \E s \in Cached(d) : Messages(d)[i] = cache[d][s]
         /\ \A s \in Cached(d) : \E i \in DOMAIN Messages(d) : Messages(d)[i] = cache[d][s]
<1>1. PICK at : MessagesFrom(d, at)
  BY MessagesInOrder
<1> QED
  BY <1>1 DEF MessagesFrom

\* next_collab_number: a number above that of every message but the comments.
LEMMA NextNumberIs ==
  ASSUME NEW messages, NEW n \in Nat, DOMAIN messages = 1..n,
         \A i \in 1..n : messages[i].id \in Nat
  PROVE  /\ NextNumber(messages) \in Nat
         /\ \A i \in 1..n : messages[i].act # "comment" => messages[i].id < NextNumber(messages)
<1>1. PICK I : I = {k \in DOMAIN messages : messages[k].act # "comment"}
  OBVIOUS
<1>2. PICK T : T = {messages[i].id : i \in I}
  OBVIOUS
<1>3. I \in SUBSET (1..n)
  BY <1>1
<1>4. IsFiniteSet(I)
  <2>1. I \in SUBSET Nat /\ \A x \in I : x <= n
    BY <1>3
  <2> QED
    BY <2>1, FS_BoundedSetOfNaturals
<1>5. PICK f : f = [i \in I |-> messages[i].id]
  OBVIOUS
<1>6. f \in Surjection(I, T)
  BY <1>2, <1>5 DEF Surjection
<1>7. IsFiniteSet(T \cup {0})
  BY <1>4, <1>6, FS_Surjection, FS_AddElement
<1>8. PICK U : U = {0} \cup T
  OBVIOUS
<1>9. IsFiniteSet(U) /\ U # {} /\ \A x \in U : x \in Nat
  <2>1. U = T \cup {0}
    BY <1>8
  <2> QED
    BY <1>2, <1>3, <1>7, <2>1
<1>10. Max(U) \in Nat /\ \A x \in U : x <= Max(U)
  BY <1>9, MaxOfFinite
<1>11. NextNumber(messages) = 1 + Max(U)
  BY <1>1, <1>2, <1>8 DEF NextNumber
<1>12. ASSUME NEW i \in 1..n, messages[i].act # "comment"  PROVE messages[i].id \in U
  BY <1>1, <1>2, <1>8, <1>12
<1>13. ASSUME NEW i \in 1..n, messages[i].act # "comment"
       PROVE  messages[i].id < NextNumber(messages)
  <2>1. messages[i].id <= Max(U)
    BY <1>10, <1>12, <1>13
  <2> QED
    BY <1>10, <1>11, <2>1
<1> QED
  BY <1>10, <1>11, <1>13

\* What a command or a page sends: it is a comment, or aimed at an item there is, or it
\* makes an item and then has the next number.
LEMMA ItemCmdIs ==
  ASSUME NEW page \in BOOLEAN, NEW op \in ItemOps, NEW id \in Ids, NEW text, NEW messages,
         topic \in Items, NextNumber(messages) \in Nat,
         NEW m \in ItemCmd(page, op, id, text, messages)
  PROVE  /\ MsgOK(m)
         /\ topic \in {"issue", "pr"} /\ m.asked = Fields => m.id = NextNumber(messages)
<1>1. id \in Nat
  OBVIOUS
<1>2. Fields # {"title"} /\ Fields # {"body"} /\ Fields # {"state"} /\ Fields # {}
  BY DEF Fields
<1>3. PICK view : view = FoldItem(messages, id)
  OBVIOUS
<1>4. ASSUME NEW a, NEW i \in Nat, NEW t, NEW b, NEW s, NEW k,
             m = Message(a, i, t, b, s, k), k = Fields => a # "comment"
      PROVE  MsgOK(m) /\ m.id = i /\ m.asked = k
  BY <1>4 DEF MsgOK, Message, MessageFields
<1>5. ASSUME m \in {Comment(id)}
      PROVE  MsgOK(m) /\ m.asked # Fields
  <2>1. m = Message("comment", id, NoText, NoText, NoText, {})
    BY <1>5 DEF Comment
  <2> QED
    BY <1>1, <1>2, <1>4, <2>1
<1>6. ASSUME m \in ChangeItem(op, id, text, view), op \notin {"create", "comment"}
      PROVE  MsgOK(m) /\ m.asked # Fields
  <2>1. PICK t, b, s, k : /\ m = Message("item", id, t, b, s, k)
                          /\ k \in {{"title"}, {"body"}, {"state"}}
    <3>1. CASE op \in {"closed", "open", "merged"}
      <4>1. m = Message("item", id, view.title, NoText, op, {"state"})
        BY <1>6, <3>1 DEF ChangeItem
      <4> QED
        BY <4>1
    <3>2. CASE op = "title"
      <4>1. m = Message("item", id, text, view.body, view.state, {"title"})
        BY <1>6, <3>2 DEF ChangeItem
      <4> QED
        BY <4>1
    <3>3. CASE op = "body"
      <4>1. m = Message("item", id, view.title, text, view.state, {"body"})
        BY <1>6, <3>3 DEF ChangeItem
      <4> QED
        BY <4>1
    <3> QED
      BY <1>6, <3>1, <3>2, <3>3 DEF ItemOps
  <2> QED
    BY <1>1, <1>2, <1>4, <2>1
<1>7. ASSUME NEW i \in Nat, NEW t, NEW b, m = Message("item", i, t, b, "open", Fields)
      PROVE  MsgOK(m) /\ m.id = i
  BY <1>4, <1>7
<1>8. ASSUME m \in PrCmd(op, id, text, messages)
      PROVE  MsgOK(m) /\ (m.asked = Fields => m.id = NextNumber(messages))
  <2>1. CASE op = "create"
    <3>1. m = Message("item", NextNumber(messages), text, text, "open", Fields)
      BY <1>8, <2>1 DEF PrCmd
    <3> QED
      BY <1>7, <3>1
  <2>2. CASE op = "comment"
    BY <1>5, <1>8, <2>2 DEF PrCmd
  <2>3. CASE op \notin {"create", "comment"}
    BY <1>3, <1>6, <1>8, <2>3 DEF PrCmd
  <2> QED
    BY <2>1, <2>2, <2>3
<1>9. ASSUME m \in PrAction(op, id, text, messages), op # "create"
      PROVE  MsgOK(m) /\ m.asked # Fields
  <2>1. CASE op = "comment"
    BY <1>3, <1>5, <1>9, <2>1 DEF PrAction
  <2>2. CASE op \in {"closed", "open"}
    BY <1>3, <1>6, <1>9, <2>2 DEF PrAction
  <2>3. CASE op \notin {"comment", "closed", "open"}
    BY <1>9, <2>3 DEF PrAction
  <2> QED
    BY <2>1, <2>2, <2>3
<1>10. ASSUME m \in MilestoneCmd(op, id, text, messages)
       PROVE  MsgOK(m)
  <2>1. CASE op = "create"
    <3>1. m = Message("item", 1, NoText, text, "open", Fields)
      BY <1>10, <2>1 DEF MilestoneCmd
    <3> QED
      BY <1>7, <3>1
  <2>2. CASE op \in {"closed", "open"}
    <3>1. m = Message("item", 1, NoText, FoldItem(messages, 1).body, op, {"state"})
      BY <1>10, <2>2 DEF MilestoneCmd
    <3> QED
      BY <1>2, <1>4, <3>1
  <2>3. CASE op \notin {"create", "closed", "open"}
    BY <1>10, <2>3 DEF MilestoneCmd
  <2> QED
    BY <2>1, <2>2, <2>3
<1>11. CASE topic = "milestone"
  BY <1>10, <1>11 DEF ItemCmd
<1>12. CASE topic \in {"issue", "pr"}
  <2>1. CASE page
    <3>1. m \in BrowsePr(op, id, text, messages)
      BY <1>12, <2>1 DEF ItemCmd, BrowseIssue
    <3> QED
      BY <1>8, <1>9, <3>1 DEF BrowsePr
  <2>2. CASE ~page
    <3>1. m \in PrCmd(op, id, text, messages)
      BY <1>12, <2>2 DEF ItemCmd, IssueCmd
    <3> QED
      BY <1>8, <3>1
  <2> QED
    BY <2>1, <2>2
<1> QED
  BY <1>11, <1>12 DEF Items

\* The cache and the queue are empty, and nobody is sending.
LEMMA InitNumbers ==
  ASSUME Init
  PROVE  NumbersInv
<1>1. Len(queue) = 0 /\ \A p \in Procs : cmd[p].pc = "idle"
  BY DEF Init, IdleCmd
<1>2. CacheOK
  BY DEF CacheOK, Init
<1> QED
  BY <1>1, <1>2 DEF NumbersInv

\* Steps that leave the queue alone and begin no sending.
LEMMA NumbersKept ==
  ASSUME NumbersInv, UNCHANGED <<topic, queue>>, CacheOK',
         \A p \in Procs : cmd'[p].pc = "send" => cmd'[p] = cmd[p]
  PROVE  NumbersInv'
<1>1. \A m, had : NewOK(m, had) => NewOK(m, had)'
  BY DEF NewOK
<1>2. \A i \in 1..Len(queue') : (MsgOK(queue[i]) /\ NewOK(queue[i], queue[i].had))'
  BY <1>1 DEF NumbersInv, MsgOK
<1>3. ASSUME NEW p \in Procs, cmd'[p].pc = "send"
      PROVE  (MsgOK(cmd[p].msg) /\ NewOK(cmd[p].msg, cmd[p].had))'
  <2>1. cmd'[p] = cmd[p]
    BY <1>3
  <2>2. MsgOK(cmd[p].msg) /\ NewOK(cmd[p].msg, cmd[p].had)
    BY <1>3, <2>1 DEF NumbersInv
  <2>3. PICK m, had : m = cmd[p].msg /\ had = cmd[p].had
    OBVIOUS
  <2>4. MsgOK(m) /\ NewOK(m, had)'
    BY <1>1, <2>2, <2>3
  <2> QED
    BY <2>1, <2>3, <2>4 DEF MsgOK, NewOK
<1> QED
  BY <1>2, <1>3 DEF NumbersInv

\* A message joins the queue.  Its number is above those that its sender had received,
\* and of these none changes.
LEMMA EnqueueNumbers ==
  ASSUME IInv, NumbersInv, NEW p \in Procs, NEW m, NEW k, NEW had, Enqueue(p, m, k, had),
         MsgOK(m), NewOK(m, had)
  PROVE  NumbersInv'
<1>0. Shapes /\ Len(queue) \in Nat
  BY DEF IInv, Shapes
<1>1. PICK e : e = [m EXCEPT !.key = k, !.no = Len(queue) + 1, !.had = had]
  OBVIOUS
<1>2. /\ queue' = Append(queue, e)
      /\ cmd' = [cmd EXCEPT ![p] = IdleCmd] /\ UNCHANGED <<topic, cache>>
  BY <1>1 DEF Enqueue
<1>3. PICK S : queue \in Seq(S)
  BY <1>0 DEF Shapes
<1>4. /\ Len(queue') = Len(queue) + 1 /\ queue'[Len(queue) + 1] = e
      /\ \A i \in 1..Len(queue) : queue'[i] = queue[i]
  <2>1. queue \in Seq(S \cup {e})
    BY <1>3
  <2> QED
    BY <1>2, <2>1
<1>5. /\ DOMAIN e = MessageFields /\ e.had = had
      /\ e.id = m.id /\ e.act = m.act /\ e.asked = m.asked
  BY <1>1 DEF MsgOK, MessageFields
<1>6. MsgOK(e)
  BY <1>5 DEF MsgOK
<1>7. \A x, h : NewOK(x, h) => NewOK(x, h)'
  BY <1>0, <1>2, <1>4 DEF NewOK
<1>8. NewOK(e, had)'
  <2>1. NewOK(m, had)'
    BY <1>7
  <2> QED
    BY <1>5, <2>1 DEF NewOK
<1>9. ASSUME NEW i \in 1..Len(queue')
      PROVE  (MsgOK(queue[i]) /\ NewOK(queue[i], queue[i].had))'
  <2>1. CASE i = Len(queue) + 1
    <3>1. queue'[i] = e
      BY <1>4, <2>1
    <3> QED
      BY <1>5, <1>6, <1>8, <3>1 DEF MsgOK, NewOK
  <2>2. CASE i \in 1..Len(queue)
    <3>1. PICK x : x = queue[i] /\ x = queue'[i]
      BY <1>4, <2>2
    <3>2. MsgOK(x) /\ NewOK(x, x.had)
      BY <2>2, <3>1 DEF NumbersInv
    <3>3. NewOK(x, x.had)'
      BY <1>7, <3>2
    <3> QED
      BY <3>1, <3>2, <3>3 DEF MsgOK, NewOK
  <2> QED
    BY <1>0, <1>4, <1>9, <2>1, <2>2
<1>10. /\ cmd'[p].pc = "idle" /\ \A q \in Procs \ {p} : cmd'[q] = cmd[q]
  BY <1>0, <1>2 DEF Shapes, IdleCmd
<1>11. ASSUME NEW q \in Procs, cmd'[q].pc = "send"
       PROVE  (MsgOK(cmd[q].msg) /\ NewOK(cmd[q].msg, cmd[q].had))'
  <2>1. cmd'[q] = cmd[q] /\ cmd[q].pc = "send"
    BY <1>10, <1>11
  <2>2. PICK x, h : x = cmd[q].msg /\ h = cmd[q].had
    OBVIOUS
  <2>3. MsgOK(x) /\ NewOK(x, h)
    BY <2>1, <2>2 DEF NumbersInv
  <2>4. NewOK(x, h)'
    BY <1>7, <2>3
  <2> QED
    BY <2>1, <2>2, <2>3, <2>4 DEF MsgOK, NewOK
<1>12. CacheOK'
  <2>1. CacheOK
    BY DEF NumbersInv
  <2> QED
    BY <1>0, <1>2, <1>4, <2>1 DEF CacheOK
<1> QED
  BY <1>9, <1>11, <1>12 DEF NumbersInv

\* The message of a command that has folded its cache is as new as the cache is.
LEMMA FoldNumbers ==
  ASSUME IInv, NumbersInv, NEW p \in Procs, NEW page \in BOOLEAN, Fold(p, page)
  PROVE  NumbersInv'
<1>a. PICK d : d = home[p]
  OBVIOUS
<1>0. Shapes /\ d \in Devices /\ CacheOK
  BY <1>a, Numbers DEF IInv, NumbersInv
<1>1. PICK op \in ItemOps, id \in Ids, text \in Texts :
        \E m \in ItemCmd(page, op, id, text, Messages(d)) :
            cmd' = [cmd EXCEPT ![p] = [pc |-> "send", key |-> cmd[p].key, had |-> Cached(d), msg |-> m]]
  BY <1>a DEF Fold
<1>2. PICK m \in ItemCmd(page, op, id, text, Messages(d)) :
        cmd' = [cmd EXCEPT ![p] = [pc |-> "send", key |-> cmd[p].key, had |-> Cached(d), msg |-> m]]
  BY <1>1
<1>3. topic \in Items /\ UNCHANGED <<topic, queue, cache>>
  BY DEF Fold
<1>4. \A s \in Cached(d) : s \in 1..Len(queue) /\ cache[d][s] = queue[s]
  BY <1>0 DEF CacheOK, Cached
<1>5. PICK msgs, n : msgs = Messages(d) /\ n = Cardinality(Cached(d))
  OBVIOUS
<1>6. /\ n \in Nat /\ DOMAIN msgs = 1..n
      /\ \A i \in 1..n : msgs[i].id \in Nat
      /\ \A s \in Cached(d) : \E i \in 1..n : msgs[i] = queue[s]
  <2>1. /\ n \in Nat /\ DOMAIN msgs = 1..n
        /\ \A i \in 1..n : \E s \in Cached(d) : msgs[i] = cache[d][s]
        /\ \A s \in Cached(d) : \E i \in 1..n : msgs[i] = cache[d][s]
    <3>1. /\ Cardinality(Cached(d)) \in Nat /\ DOMAIN Messages(d) = 1..Cardinality(Cached(d))
          /\ \A i \in DOMAIN Messages(d) : \E s \in Cached(d) : Messages(d)[i] = cache[d][s]
          /\ \A s \in Cached(d) : \E i \in DOMAIN Messages(d) : Messages(d)[i] = cache[d][s]
      BY MessagesIs
    <3>2. n \in Nat /\ DOMAIN msgs = 1..n
      BY <1>5, <3>1
    <3>3. \A i \in DOMAIN msgs : \E s \in Cached(d) : msgs[i] = cache[d][s]
      BY <1>5, <3>1
    <3>4. \A s \in Cached(d) : \E i \in DOMAIN msgs : msgs[i] = cache[d][s]
      BY <1>5, <3>1
    <3> QED
      BY <3>2, <3>3, <3>4
  <2>2. \A i \in 1..Len(queue) : queue[i].id \in Nat
    BY DEF NumbersInv, MsgOK
  <2> QED
    BY <1>4, <2>1, <2>2
<1>7. /\ NextNumber(msgs) \in Nat
      /\ \A i \in 1..n : msgs[i].act # "comment" => msgs[i].id < NextNumber(msgs)
  BY <1>6, NextNumberIs
<1>8. /\ MsgOK(m)
      /\ topic \in {"issue", "pr"} /\ m.asked = Fields => m.id = NextNumber(msgs)
  BY <1>2, <1>3, <1>5, <1>7, ItemCmdIs
<1>9. PICK had : had = Cached(d)
  OBVIOUS
<1>10. NewOK(m, had)
  BY <1>4, <1>6, <1>7, <1>8, <1>9 DEF NewOK
<1>11. /\ cmd'[p] = [pc |-> "send", key |-> cmd[p].key, had |-> had, msg |-> m]
       /\ \A q \in Procs \ {p} : cmd'[q] = cmd[q]
  BY <1>0, <1>2, <1>9 DEF Shapes
<1>12. ASSUME NEW q \in Procs, cmd'[q].pc = "send"
       PROVE  (MsgOK(cmd[q].msg) /\ NewOK(cmd[q].msg, cmd[q].had))'
  <2>1. PICK x, h : x = cmd'[q].msg /\ h = cmd'[q].had
    OBVIOUS
  <2>2. MsgOK(x) /\ NewOK(x, h)
    BY <1>8, <1>10, <1>11, <1>12, <2>1 DEF NumbersInv
  <2> QED
    BY <1>3, <2>1, <2>2 DEF MsgOK, NewOK
<1>13. \A i \in 1..Len(queue') : (MsgOK(queue[i]) /\ NewOK(queue[i], queue[i].had))'
  BY <1>3 DEF NumbersInv, MsgOK, NewOK
<1>14. CacheOK'
  BY <1>0, <1>3 DEF CacheOK
<1> QED
  BY <1>12, <1>13, <1>14 DEF NumbersInv

\* What is written to a cache is the message of the queue.
LEMMA CacheNumbers ==
  ASSUME IInv, NumbersInv, NEW p \in Procs, CacheOne(p)
  PROVE  NumbersInv'
<1>a. PICK d : d = home[p]
  OBVIOUS
<1>0. Shapes /\ d \in Devices /\ CacheOK
  BY <1>a, Numbers DEF IInv, NumbersInv
<1>1. CachingOK(p) /\ cmd[p].todo # {}
  BY DEF IInv, ProcOK, CacheOne
<1>2. PICK s : s = Min(cmd[p].todo)
  OBVIOUS
<1>3. s \in 1..Len(queue)
  <2>1. cmd[p].todo \in SUBSET (1..Len(queue))
    BY <1>1 DEF CachingOK
  <2>2. s \in cmd[p].todo
    BY <1>1, <1>2, <2>1, MinIn
  <2> QED
    BY <2>1, <2>2
<1>4. /\ cache' = [cache EXCEPT ![d][s] = queue[s]]
      /\ cmd' = [cmd EXCEPT ![p].todo = @ \ {s}] /\ UNCHANGED <<topic, queue>>
  BY <1>a, <1>2 DEF CacheOne
<1>5. \A e \in Devices, n \in Seqs :
        cache'[e][n] = cache[e][n] \/ (n = s /\ cache'[e][n] = queue[s])
  BY <1>0, <1>4 DEF Shapes
<1>6. CacheOK'
  BY <1>0, <1>3, <1>4, <1>5 DEF CacheOK
<1>7. \A q \in Procs : cmd'[q].pc = "send" => cmd'[q] = cmd[q]
  <2>1. \A q \in Procs \ {p} : cmd'[q] = cmd[q]
    BY <1>0, <1>4 DEF Shapes
  <2>2. cmd'[p].pc # "send"
    <3>1. PICK k, pg, td : cmd[p] = [pc |-> "cache", key |-> k, page |-> pg, todo |-> td]
      BY <1>1 DEF CachingOK
    <3>2. cmd'[p] = [cmd[p] EXCEPT !.todo = cmd[p].todo \ {s}]
      BY <1>0, <1>4 DEF Shapes
    <3>3. cmd'[p] = [[pc |-> "cache", key |-> k, page |-> pg, todo |-> td] EXCEPT !.todo = td \ {s}]
      BY <3>1, <3>2
    <3> QED
      BY <3>3
  <2> QED
    BY <2>1, <2>2
<1> QED
  BY <1>4, <1>6, <1>7, NumbersKept

\* A kill leaves no file, or one that no longer parses.
LEMMA KillNumbers ==
  ASSUME IInv, NumbersInv, NEW p \in Procs, Kill(p)
  PROVE  NumbersInv'
<1>a. PICK d : d = home[p]
  OBVIOUS
<1>0. Shapes /\ d \in Devices /\ CacheOK
  BY <1>a, Numbers DEF IInv, NumbersInv
<1>1. cmd' = [cmd EXCEPT ![p] = IdleCmd] /\ UNCHANGED <<topic, queue>>
  BY DEF Kill
<1>2. \A q \in Procs : cmd'[q].pc = "send" => cmd'[q] = cmd[q]
  BY <1>0, <1>1 DEF Shapes, IdleCmd
<1>3. PICK s : cache' = cache \/ cache' = [cache EXCEPT ![d][s] = Unreadable]
  BY <1>a DEF Kill
<1>4. \A e \in Devices, n \in Seqs : cache'[e][n] \in {cache[e][n], Unreadable}
  <2>1. CASE cache' = cache
    BY <2>1
  <2>2. CASE cache' = [cache EXCEPT ![d][s] = Unreadable]
    BY <1>0, <2>2 DEF Shapes
  <2> QED
    BY <1>3, <2>1, <2>2
<1>5. CacheOK'
  BY <1>0, <1>1, <1>4 DEF CacheOK
<1> QED
  BY <1>1, <1>2, <1>5, NumbersKept

\* A message is sent: one that was worked out from the cache, or a comment, a milestone
\* or a named thing, which take no number.
LEMMA SendNumbers ==
  ASSUME IInv, NumbersInv, NEW p \in Procs, Send(p) \/ SendDirect(p)
  PROVE  NumbersInv'
<1>1. CASE Send(p)
  <2>1. PICK m, k, had : m = cmd[p].msg /\ k = cmd[p].key /\ had = cmd[p].had
    OBVIOUS
  <2>2. Enqueue(p, m, k, had) /\ cmd[p].pc = "send"
    BY <1>1, <2>1 DEF Send
  <2>3. MsgOK(m) /\ NewOK(m, had)
    BY <2>1, <2>2 DEF NumbersInv
  <2> QED
    BY <2>2, <2>3, EnqueueNumbers
<1>2. CASE SendDirect(p)
  <2>1. PICK m, k, had : MsgOK(m) /\ had = {} /\ Enqueue(p, m, k, had)
    <3>1. CASE topic \in Items
      <4>1. PICK op \in ItemOps, id \in Ids, text \in Texts :
              \E m \in ItemCmd(FALSE, op, id, text, <<>>) : Enqueue(p, m, key[home[p]], {})
        BY <1>2, <3>1 DEF SendDirect
      <4>2. PICK m \in ItemCmd(FALSE, op, id, text, <<>>) : Enqueue(p, m, key[home[p]], {})
        BY <4>1
      <4>3. PICK none : none = <<>>
        OBVIOUS
      <4>4. DOMAIN none = 1..0 /\ \A i \in 1..0 : none[i].id \in Nat
        BY <4>3
      <4>5. NextNumber(none) \in Nat
        BY <4>4, NextNumberIs
      <4>6. MsgOK(m)
        BY <3>1, <4>2, <4>3, <4>5, ItemCmdIs
      <4> QED
        BY <4>2, <4>6
    <3>2. CASE topic \notin Items
      <4>1. PICK act : Enqueue(p, Message(act, 1, NoText, NoText, NoText, {}), key[home[p]], {})
        BY <1>2, <3>2 DEF SendDirect
      <4>2. MsgOK(Message(act, 1, NoText, NoText, NoText, {}))
        BY DEF MsgOK, Message, MessageFields, Fields
      <4> QED
        BY <4>1, <4>2
    <3> QED
      BY <3>1, <3>2
  <2>2. NewOK(m, had)
    BY <2>1 DEF NewOK
  <2> QED
    BY <2>1, <2>2, EnqueueNumbers
<1> QED
  BY <1>1, <1>2

\* Every step keeps what is known of the numbers.
LEMMA StepNumbers ==
  ASSUME IInv, NumbersInv, [Next]_vars
  PROVE  NumbersInv'
<1>0. Shapes /\ CacheOK
  BY DEF IInv, NumbersInv
<1>1. ASSUME UNCHANGED <<topic, queue, cache>>,
             \A p \in Procs : cmd'[p].pc = "send" => cmd'[p] = cmd[p]
      PROVE  NumbersInv'
  <2>1. CacheOK'
    BY <1>0, <1>1 DEF CacheOK
  <2> QED
    BY <1>1, <2>1, NumbersKept
<1>2. ASSUME NEW d \in Devices, Rekey(d)  PROVE NumbersInv'
  BY <1>1, <1>2 DEF Rekey
<1>3. ASSUME NEW p \in Procs, LoadCursor(p) \/ FetchPage(p) \/ SaveCursor(p) \/ Stop(p)
      PROVE  NumbersInv'
  <2>1. cmd'[p].pc # "send" /\ \A q \in Procs \ {p} : cmd'[q] = cmd[q]
    <3>1. ASSUME NEW c, c.pc # "send", cmd' = [cmd EXCEPT ![p] = c]
          PROVE  cmd'[p].pc # "send" /\ \A q \in Procs \ {p} : cmd'[q] = cmd[q]
      BY <1>0, <3>1 DEF Shapes
    <3>2. CASE LoadCursor(p)
      <4>1. PICK k, a : cmd' = [cmd EXCEPT ![p] = [pc |-> "fetch", key |-> k, after |-> a]]
        BY <3>2 DEF LoadCursor
      <4> QED
        BY <3>1, <4>1
    <3>3. CASE FetchPage(p)
      <4>1. PICK k, pg, td :
              \/ cmd' = [cmd EXCEPT ![p] = [pc |-> "fold", key |-> k]]
              \/ cmd' = [cmd EXCEPT ![p] = [pc |-> "cache", key |-> k, page |-> pg, todo |-> td]]
        BY <3>3 DEF FetchPage
      <4> QED
        BY <3>1, <4>1
    <3>4. CASE SaveCursor(p)
      <4>1. PICK k : cmd' = [cmd EXCEPT ![p] = [pc |-> "fold", key |-> k]]
        BY <3>4 DEF SaveCursor
      <4> QED
        BY <3>1, <4>1
    <3>5. CASE Stop(p)
      BY <3>1, <3>5 DEF Stop, IdleCmd
    <3> QED
      BY <1>3, <3>2, <3>3, <3>4, <3>5
  <2>2. \A q \in Procs : cmd'[q].pc = "send" => cmd'[q] = cmd[q]
    BY <1>0, <2>1 DEF Shapes
  <2>3. UNCHANGED <<topic, queue, cache>>
    BY <1>3 DEF LoadCursor, FetchPage, SaveCursor, Stop
  <2> QED
    BY <1>1, <2>2, <2>3
<1>4. ASSUME NEW p \in Procs,
             CacheOne(p) \/ Send(p) \/ SendDirect(p) \/ Kill(p) \/ \E page \in BOOLEAN : Fold(p, page)
      PROVE  NumbersInv'
  BY <1>4, CacheNumbers, SendNumbers, KillNumbers, FoldNumbers
<1>5. CASE UNCHANGED vars
  BY <1>1, <1>5 DEF vars
<1> QED
  BY <1>2, <1>3, <1>4, <1>5 DEF Next

\* NumbersUnique of every behaviour: next_collab_number gives no number away twice, save
\* to a sender that has not received the item which has it already.
THEOREM NumbersSafe == Spec => []NumbersUnique
<1>1. Init => NumbersInv
  BY InitNumbers
<1>2. IInv /\ NumbersInv /\ [Next]_vars => NumbersInv'
  BY StepNumbers
<1>3. NumbersInv => NumbersUnique
  <2> SUFFICES ASSUME NumbersInv, topic \in {"issue", "pr"},
                      NEW i \in 1..Len(queue), NEW j \in 1..Len(queue),
                      queue[i].asked = Fields, queue[j].asked = Fields,
                      queue[i].id = queue[j].id, i \in queue[j].had
               PROVE  FALSE
    BY DEF NumbersUnique
  <2>1. /\ MsgOK(queue[i]) /\ NewOK(queue[j], queue[j].had)
    BY DEF NumbersInv
  <2>2. queue[i].act # "comment" /\ queue[i].id \in Nat
    BY <2>1 DEF MsgOK
  <2>3. queue[i].id < queue[j].id
    BY <2>1, <2>2 DEF NewOK
  <2> QED
    BY <2>2, <2>3
<1> QED
  BY <1>1, <1>2, <1>3, Invariant, PTL DEF Spec

-----------------------------------------------------------------------------
(* The folds.  A fold is a recursive function on sets of places; that there is one is
   shown place by place. *)

\* One message more, in the fold of one item and in that of the names.
ItemStep(id, e, m) ==
    IF m.id # id THEN e
    ELSE IF m.act = "comment"
    THEN IF e.exists THEN [e EXCEPT !.comments = @ \cup {m.no}] ELSE e
    ELSE [exists |-> TRUE, title |-> Newer(e.title, m.title),
          body |-> Newer(e.body, m.body), state |-> Newer(e.state, m.state),
          comments |-> e.comments]
NameStep(live, m) == IF m.act = "delete" THEN live \ {m.id} ELSE live \cup {m.id}

\* Either of them, from its start and message by message.
Base(items) == IF items THEN NoItem ELSE {}
FoldStart(items, id, e, m) == IF items THEN ItemStep(id, e, m) ELSE NameStep(e, m)
IsFold(items, id, messages, n, f) ==
    f = [T \in SUBSET (1..n) |->
            IF T = {} THEN Base(items)
            ELSE FoldStart(items, id, f[T \ {Max(T)}], messages[Max(T)])]
TheFold(items, id, messages, n) == (CHOOSE f : IsFold(items, id, messages, n, f))[1..n]

\* FoldItem and FoldNames are such functions.
LEMMA FoldsAre ==
  ASSUME NEW messages, NEW n \in Nat, DOMAIN messages = 1..n, NEW id
  PROVE  /\ FoldItem(messages, id) = TheFold(TRUE, id, messages, n)
         /\ FoldNames(messages) = TheFold(FALSE, id, messages, n)
<1>1. FoldItem(messages, id) = (CHOOSE f : IsFold(TRUE, id, messages, n, f))[1..n]
  BY DEF FoldItem, FoldLeft, MapThenFoldSet, IsFold, Base, FoldStart, ItemStep
<1>2. FoldNames(messages) = (CHOOSE f : IsFold(FALSE, id, messages, n, f))[1..n]
  BY DEF FoldNames, FoldLeft, MapThenFoldSet, IsFold, Base, FoldStart, NameStep
<1> QED
  BY <1>1, <1>2 DEF TheFold

\* What holds of 0 and of each successor holds of all numbers.
LEMMA Least ==
  ASSUME NEW Good \in SUBSET Nat, 0 \in Good, \A n \in Nat : n \in Good => n + 1 \in Good
  PROVE  Good = Nat
<1> SUFFICES ASSUME Nat \ Good # {} PROVE FALSE
  OBVIOUS
<1>1. PICK S : S = Nat \ Good
  OBVIOUS
<1>2. S # {} /\ \A x \in S : x \in Nat
  BY <1>1
<1>3. PICK n \in S : \A x \in S : n <= x
  BY <1>2, MinIn
<1>4. n \in Nat /\ n # 0 /\ n - 1 \in Nat
  BY <1>1, <1>3
<1>5. n - 1 \in Good
  BY <1>1, <1>3, <1>4
<1> QED
  BY <1>1, <1>3, <1>4, <1>5

\* A fold over n + 1 messages is one over n that is taken a step further.
LEMMA FoldGrows ==
  ASSUME NEW items, NEW id, NEW messages, NEW n \in Nat, NEW f, IsFold(items, id, messages, n, f)
  PROVE  \E g : IsFold(items, id, messages, n + 1, g)
<1>1. PICK g : g = [T \in SUBSET (1..(n + 1)) |->
                      IF n + 1 \in T THEN FoldStart(items, id, f[T \ {n + 1}], messages[n + 1])
                      ELSE f[T]]
  OBVIOUS
<1>2. ASSUME NEW T \in SUBSET (1..(n + 1))
      PROVE  g[T] = IF T = {} THEN Base(items)
                    ELSE FoldStart(items, id, g[T \ {Max(T)}], messages[Max(T)])
  <2>1. CASE n + 1 \in T
    <3>1. Max(T) = n + 1
      <4>1. Max(T) \in T /\ \A k \in T : k <= Max(T)
        <5>1. n + 1 \in Nat /\ T # {}
          BY <2>1
        <5> QED
          BY <5>1, MaxIn
      <4>2. Max(T) \in 1..(n + 1) /\ n + 1 <= Max(T)
        BY <2>1, <4>1
      <4> QED
        BY <4>2
    <3>2. T \ {n + 1} \in SUBSET (1..(n + 1)) /\ n + 1 \notin T \ {n + 1} /\ T # {}
      BY <2>1
    <3>3. g[T] = FoldStart(items, id, f[T \ {n + 1}], messages[n + 1])
      BY <1>1, <2>1
    <3>4. g[T \ {n + 1}] = f[T \ {n + 1}]
      BY <1>1, <3>2
    <3> QED
      BY <3>1, <3>2, <3>3, <3>4
  <2>2. CASE n + 1 \notin T
    <3>1. T \in SUBSET (1..n)
      BY <2>2
    <3>2. g[T] = f[T]
      BY <1>1, <2>2
    <3>3. CASE T = {}
      BY <3>1, <3>2, <3>3 DEF IsFold
    <3>4. CASE T # {}
      <4>1. PICK m : m = Max(T)
        OBVIOUS
      <4>2. T \ {m} \in SUBSET (1..n) /\ T \ {m} \in SUBSET (1..(n + 1)) /\ n + 1 \notin T \ {m}
        BY <2>2, <3>1
      <4>3. g[T \ {m}] = f[T \ {m}]
        BY <1>1, <4>2
      <4>4. f[T] = FoldStart(items, id, f[T \ {m}], messages[m])
        BY <3>1, <3>4, <4>1 DEF IsFold
      <4> QED
        BY <3>2, <3>4, <4>1, <4>3, <4>4
    <3> QED
      BY <3>3, <3>4
  <2> QED
    BY <2>1, <2>2
<1>3. IsFold(items, id, messages, n + 1, g)
  BY <1>1, <1>2 DEF IsFold
<1> QED
  BY <1>3

\* So there is one over any number of messages.
LEMMA FoldExists ==
  ASSUME NEW items, NEW id, NEW messages, NEW n \in Nat
  PROVE  \E f : IsFold(items, id, messages, n, f)
<1> DEFINE Good == {k \in Nat : \E f : IsFold(items, id, messages, k, f)}
<1>1. 0 \in Good
  <2>1. PICK f : f = [T \in SUBSET (1..0) |-> Base(items)]
    OBVIOUS
  <2>2. \A T \in SUBSET (1..0) : T = {}
    OBVIOUS
  <2>3. IsFold(items, id, messages, 0, f)
    BY <2>1, <2>2 DEF IsFold
  <2> QED
    BY <2>3
<1>2. ASSUME NEW k \in Nat, k \in Good  PROVE k + 1 \in Good
  BY <1>2, FoldGrows
<1>3. Good \in SUBSET Nat
  OBVIOUS
<1> HIDE DEF Good
<1>4. Good = Nat
  BY <1>1, <1>2, <1>3, Least
<1> QED
  BY <1>4 DEF Good

\* The two folds, prefix by prefix.
FoldPath(items, id, messages, n, e) ==
    /\ e[0] = Base(items)
    /\ \A k \in 1..n : e[k] = FoldStart(items, id, e[k - 1], messages[k])
    /\ TheFold(items, id, messages, n) = e[n]

\* Each fold is reached along one such path.
LEMMA FoldSteps ==
  ASSUME NEW items, NEW id, NEW messages, NEW n \in Nat
  PROVE  \E e : FoldPath(items, id, messages, n, e)
<1>1. PICK f : f = CHOOSE g : IsFold(items, id, messages, n, g)
  OBVIOUS
<1>2. IsFold(items, id, messages, n, f)
  BY <1>1, FoldExists
<1>3. PICK e : e = [k \in 0..n |-> f[1..k]]
  OBVIOUS
<1>4. e[0] = Base(items)
  <2>1. e[0] = f[{}] /\ {} \in SUBSET (1..n)
    BY <1>3
  <2> QED
    BY <1>2, <2>1 DEF IsFold
<1>5. ASSUME NEW k \in 1..n
      PROVE  e[k] = FoldStart(items, id, e[k - 1], messages[k])
  <2>1. PICK T : T = 1..k
    OBVIOUS
  <2>2. T \in SUBSET (1..n) /\ T # {} /\ T \ {k} = 1..(k - 1) /\ k \in Nat /\ k \in T
    <3>1. k \in Nat /\ 1 <= k /\ k <= n
      OBVIOUS
    <3>2. T \in SUBSET (1..n) /\ k \in T
      BY <2>1, <3>1
    <3>3. T \ {k} = 1..(k - 1)
      BY <2>1, <3>1
    <3> QED
      BY <3>1, <3>2, <3>3
  <2>3. Max(T) = k
    <3>1. Max(T) \in T /\ \A x \in T : x <= Max(T)
      BY <2>2, MaxIn
    <3>2. Max(T) \in 1..k /\ k <= Max(T)
      BY <2>1, <2>2, <3>1
    <3> QED
      BY <3>2
  <2>4. f[T] = FoldStart(items, id, f[T \ {k}], messages[k])
    BY <1>2, <2>2, <2>3 DEF IsFold
  <2>5. e[k] = f[T] /\ e[k - 1] = f[1..(k - 1)]
    BY <1>3, <2>1
  <2> QED
    BY <2>2, <2>4, <2>5
<1>6. f[1..n] = e[n]
  BY <1>3
<1> QED
  BY <1>1, <1>4, <1>5, <1>6 DEF TheFold, FoldPath

\* A message that is about field f of item id.
Says(m, id, f) == m.id = id /\ m.act # "comment" /\ m[f] # NoText

\* v is what the last of the messages H about the field says, NoText if there is none.
SaidIn(messages, H, id, f, v) ==
    \/ v = NoText /\ \A i \in H : ~Says(messages[i], id, f)
    \/ \E i \in H : /\ Says(messages[i], id, f) /\ v = messages[i][f]
                    /\ \A j \in H : j > i => ~Says(messages[j], id, f)

\* One message sets the fields that it is about and leaves the others.
LEMMA ItemStepSays ==
  ASSUME NEW id, NEW e, NEW m, NEW f \in Fields, DOMAIN e = DOMAIN NoItem
  PROVE  /\ DOMAIN ItemStep(id, e, m) = DOMAIN NoItem
         /\ ItemStep(id, e, m)[f] = IF Says(m, id, f) THEN m[f] ELSE e[f]
<1>0. /\ DOMAIN NoItem = {"exists", "title", "body", "state", "comments"}
      /\ f \in {"title", "body", "state"}
  BY DEF NoItem, Fields
<1>1. CASE m.id # id
  <2>1. ItemStep(id, e, m) = e
    BY <1>1 DEF ItemStep
  <2> QED
    BY <1>1, <2>1 DEF Says
<1>2. CASE m.id = id /\ m.act = "comment"
  <2>1. PICK c : c = e.comments \cup {m.no}
    OBVIOUS
  <2>2. ItemStep(id, e, m) = e \/ ItemStep(id, e, m) = [e EXCEPT !.comments = c]
    BY <1>2, <2>1 DEF ItemStep
  <2> QED
    BY <1>0, <1>2, <2>2 DEF Says
<1>3. CASE m.id = id /\ m.act # "comment"
  <2>1. ItemStep(id, e, m) =
          [exists |-> TRUE, title |-> Newer(e.title, m.title),
           body |-> Newer(e.body, m.body), state |-> Newer(e.state, m.state),
           comments |-> e.comments]
    BY <1>3 DEF ItemStep
  <2>2. ItemStep(id, e, m)[f] = Newer(e[f], m[f])
    BY <1>0, <2>1
  <2>3. DOMAIN ItemStep(id, e, m) = DOMAIN NoItem
    BY <1>0, <2>1
  <2> QED
    BY <1>3, <2>2, <2>3 DEF Newer, Says
<1> QED
  BY <1>1, <1>2, <1>3

\* With one message more a field is what that message says, or else what it was.
LEMMA SaidNext ==
  ASSUME NEW messages, NEW n \in Nat, NEW id, NEW f, NEW v,
         SaidIn(messages, 1..n, id, f, v)
  PROVE  SaidIn(messages, 1..(n + 1), id, f,
                IF Says(messages[n + 1], id, f) THEN messages[n + 1][f] ELSE v)
<1>1. PICK G : G = 1..(n + 1)
  OBVIOUS
<1>2. /\ n + 1 \in G /\ \A j \in G : j \in 1..n \/ j = n + 1
      /\ \A j \in G : ~(j > n + 1)
      /\ \A j \in 1..n : j \in G
  BY <1>1
<1>3. CASE Says(messages[n + 1], id, f)
  <2>1. SaidIn(messages, G, id, f, messages[n + 1][f])
    BY <1>2, <1>3 DEF SaidIn
  <2> QED
    BY <1>1, <1>3, <2>1
<1>4. CASE ~Says(messages[n + 1], id, f)
  <2>1. SaidIn(messages, G, id, f, v)
    <3>1. CASE v = NoText /\ \A i \in 1..n : ~Says(messages[i], id, f)
      <4>1. \A i \in G : ~Says(messages[i], id, f)
        BY <1>2, <1>4, <3>1
      <4> QED
        BY <3>1, <4>1 DEF SaidIn
    <3>2. CASE \E i \in 1..n : /\ Says(messages[i], id, f) /\ v = messages[i][f]
                               /\ \A j \in 1..n : j > i => ~Says(messages[j], id, f)
      <4>1. PICK i \in 1..n : /\ Says(messages[i], id, f) /\ v = messages[i][f]
                              /\ \A j \in 1..n : j > i => ~Says(messages[j], id, f)
        BY <3>2
      <4>2. \A j \in G : j > i => ~Says(messages[j], id, f)
        BY <1>2, <1>4, <4>1
      <4> QED
        BY <1>2, <4>1, <4>2 DEF SaidIn
    <3> QED
      BY <3>1, <3>2 DEF SaidIn
  <2> QED
    BY <1>1, <1>4, <2>1
<1> QED
  BY <1>3, <1>4

\* What the fold of an item makes of a field: what the last message about it says.
LEMMA FoldSays ==
  ASSUME NEW messages, NEW n \in Nat, DOMAIN messages = 1..n, NEW id, NEW f \in Fields
  PROVE  SaidIn(messages, 1..n, id, f, FoldItem(messages, id)[f])
<1>0. PICK items : items = TRUE
  OBVIOUS
<1>1. PICK e : FoldPath(items, id, messages, n, e)
  BY FoldSteps
<1>2. FoldItem(messages, id) = e[n]
  BY <1>0, <1>1, FoldsAre DEF FoldPath
<1>3. e[0] = NoItem /\ \A k \in 1..n : e[k] = ItemStep(id, e[k - 1], messages[k])
  BY <1>0, <1>1 DEF FoldPath, Base, FoldStart
<1> DEFINE Good == {k \in Nat : k <= n => /\ DOMAIN e[k] = DOMAIN NoItem
                                          /\ SaidIn(messages, 1..k, id, f, e[k][f])}
<1>4. 0 \in Good
  <2>1. NoItem[f] = NoText
    BY DEF NoItem, Fields
  <2>2. \A i \in 1..0 : FALSE
    OBVIOUS
  <2> QED
    BY <1>3, <2>1, <2>2 DEF SaidIn
<1>5. ASSUME NEW k \in Nat, k \in Good  PROVE k + 1 \in Good
  <2> SUFFICES ASSUME k + 1 <= n
               PROVE  /\ DOMAIN e[k + 1] = DOMAIN NoItem
                      /\ SaidIn(messages, 1..(k + 1), id, f, e[k + 1][f])
    OBVIOUS
  <2>1. DOMAIN e[k] = DOMAIN NoItem /\ SaidIn(messages, 1..k, id, f, e[k][f])
    BY <1>5
  <2>2. e[k + 1] = ItemStep(id, e[k], messages[k + 1])
    <3>1. k + 1 \in 1..n /\ (k + 1) - 1 = k
      OBVIOUS
    <3>2. e[k + 1] = ItemStep(id, e[(k + 1) - 1], messages[k + 1])
      BY <1>3, <3>1
    <3> QED
      BY <3>1, <3>2
  <2>3. PICK x, m, v : x = e[k] /\ m = messages[k + 1] /\ v = e[k][f]
    OBVIOUS
  <2>4. /\ DOMAIN ItemStep(id, x, m) = DOMAIN NoItem
        /\ ItemStep(id, x, m)[f] = IF Says(m, id, f) THEN m[f] ELSE x[f]
    BY <2>1, <2>3, ItemStepSays
  <2>5. SaidIn(messages, 1..(k + 1), id, f,
               IF Says(messages[k + 1], id, f) THEN messages[k + 1][f] ELSE v)
    BY <2>1, <2>3, SaidNext
  <2> QED
    BY <2>2, <2>3, <2>4, <2>5
<1>6. Good \in SUBSET Nat
  OBVIOUS
<1>7. n \in Good
  <2> HIDE DEF Good
  <2> QED
    BY <1>4, <1>5, <1>6, Least
<1> QED
  BY <1>2, <1>7

\* Two sets of messages that have the same ones about the field leave the same.
LEMMA SaidOnce ==
  ASSUME NEW messages, NEW H, NEW G, NEW id, NEW f, NEW v, NEW w,
         \A i \in H \cup G : i \in Nat,
         \A i \in G : Says(messages[i], id, f) => i \in H,
         \A i \in H : Says(messages[i], id, f) => i \in G,
         SaidIn(messages, H, id, f, v), SaidIn(messages, G, id, f, w)
  PROVE  v = w
<1>1. CASE \A i \in H : ~Says(messages[i], id, f)
  <2>1. \A i \in G : ~Says(messages[i], id, f)
    BY <1>1
  <2> QED
    BY <1>1, <2>1 DEF SaidIn
<1>2. CASE \E i \in H : Says(messages[i], id, f)
  <2>1. \E i \in G : Says(messages[i], id, f)
    BY <1>2
  <2>2. PICK i \in H : /\ Says(messages[i], id, f) /\ v = messages[i][f]
                       /\ \A j \in H : j > i => ~Says(messages[j], id, f)
    BY <1>2 DEF SaidIn
  <2>3. PICK j \in G : /\ Says(messages[j], id, f) /\ w = messages[j][f]
                       /\ \A k \in G : k > j => ~Says(messages[k], id, f)
    BY <2>1 DEF SaidIn
  <2>4. i \in G /\ j \in H /\ i \in Nat /\ j \in Nat
    BY <2>2, <2>3
  <2>5. ~(j > i) /\ ~(i > j)
    BY <2>2, <2>3, <2>4
  <2>6. i = j
    BY <2>4, <2>5
  <2> QED
    BY <2>2, <2>3, <2>6
<1> QED
  BY <1>1, <1>2

-----------------------------------------------------------------------------
(* What a command sends of what its sender had *)

\* What is known of a message: its sender had some of the first n; a field that nobody
\* named is empty or as these leave it; and a named thing has the one name of the run.
KnownOK(m, had, n) ==
    /\ had \in SUBSET (1..n)
    /\ topic \in Items /\ m.act = "item" =>
          \A f \in Fields \ m.asked : m[f] # NoText => SaidIn(queue, had, m.id, f, m[f])
    /\ topic \notin Items => m.id = 1

\* That of all messages, sent and about to be sent.
KnownInv ==
    /\ \A i \in 1..Len(queue) : KnownOK(queue[i], queue[i].had, i - 1)
    /\ \A p \in Procs : cmd[p].pc = "send" => KnownOK(cmd[p].msg, cmd[p].had, Len(queue))

\* A field that a command did not name is empty in what it sends, or as the command's
\* view has it.
LEMMA UnaskedFields ==
  ASSUME NEW page \in BOOLEAN, NEW op \in ItemOps, NEW id \in Ids, NEW text, NEW messages,
         topic \in Items, NEW m \in ItemCmd(page, op, id, text, messages), m.act = "item",
         NEW f \in Fields, f \notin m.asked
  PROVE  m[f] = NoText \/ m[f] = FoldItem(messages, m.id)[f]
<1>0. Fields = {"title", "body", "state"}
  BY DEF Fields
<1>1. ASSUME NEW i, NEW t, NEW b, NEW s, m = Message("item", i, t, b, s, Fields)
      PROVE  FALSE
  BY <1>1 DEF Message
<1>2. ASSUME m \in {Comment(id)}
      PROVE  FALSE
  BY <1>2 DEF Comment, Message
<1>3. ASSUME m \in ChangeItem(op, id, text, FoldItem(messages, id)), op \notin {"create", "comment"}
      PROVE  m[f] = NoText \/ m[f] = FoldItem(messages, m.id)[f]
  <2>1. PICK view : view = FoldItem(messages, id)
    OBVIOUS
  <2>2. CASE op \in {"closed", "open", "merged"}
    <3>1. m = Message("item", id, view.title, NoText, op, {"state"})
      BY <1>3, <2>1, <2>2 DEF ChangeItem
    <3>2. m.id = id /\ m.title = view.title /\ m.body = NoText /\ m.asked = {"state"}
      BY <3>1 DEF Message
    <3> QED
      BY <1>0, <2>1, <3>2
  <2>3. CASE op = "title"
    <3>1. m = Message("item", id, text, view.body, view.state, {"title"})
      BY <1>3, <2>1, <2>3 DEF ChangeItem
    <3>2. m.id = id /\ m.body = view.body /\ m.state = view.state /\ m.asked = {"title"}
      BY <3>1 DEF Message
    <3> QED
      BY <1>0, <2>1, <3>2
  <2>4. CASE op = "body"
    <3>1. m = Message("item", id, view.title, text, view.state, {"body"})
      BY <1>3, <2>1, <2>4 DEF ChangeItem
    <3>2. m.id = id /\ m.title = view.title /\ m.state = view.state /\ m.asked = {"body"}
      BY <3>1 DEF Message
    <3> QED
      BY <1>0, <2>1, <3>2
  <2> QED
    BY <1>3, <2>2, <2>3, <2>4 DEF ItemOps
<1>4. ASSUME m \in PrCmd(op, id, text, messages)
      PROVE  m[f] = NoText \/ m[f] = FoldItem(messages, m.id)[f]
  <2>1. op # "create"
    BY <1>1, <1>4 DEF PrCmd
  <2>2. op # "comment"
    BY <1>2, <1>4 DEF PrCmd
  <2> QED
    BY <1>3, <1>4, <2>1, <2>2 DEF PrCmd
<1>5. ASSUME m \in PrAction(op, id, text, messages), op # "create"
      PROVE  m[f] = NoText \/ m[f] = FoldItem(messages, m.id)[f]
  <2>1. op # "comment"
    BY <1>2, <1>5 DEF PrAction
  <2>2. CASE op \in {"closed", "open"}
    BY <1>3, <1>5, <2>2 DEF PrAction
  <2>3. CASE op \notin {"comment", "closed", "open"}
    BY <1>5, <2>3 DEF PrAction
  <2> QED
    BY <2>1, <2>2, <2>3
<1>6. ASSUME m \in MilestoneCmd(op, id, text, messages)
      PROVE  m[f] = NoText \/ m[f] = FoldItem(messages, m.id)[f]
  <2>1. op # "create"
    BY <1>1, <1>6 DEF MilestoneCmd
  <2>2. CASE op \in {"closed", "open"}
    <3>1. PICK due : due = FoldItem(messages, 1).body
      OBVIOUS
    <3>2. m = Message("item", 1, NoText, due, op, {"state"})
      BY <1>6, <2>2, <3>1 DEF MilestoneCmd
    <3>3. m.id = 1 /\ m.title = NoText /\ m.body = due /\ m.asked = {"state"}
      BY <3>2 DEF Message
    <3> QED
      BY <1>0, <3>1, <3>3
  <2>3. CASE op \notin {"create", "closed", "open"}
    BY <1>6, <2>3 DEF MilestoneCmd
  <2> QED
    BY <2>1, <2>2, <2>3
<1>7. CASE topic = "milestone"
  BY <1>6, <1>7 DEF ItemCmd
<1>8. CASE topic \in {"issue", "pr"}
  <2>1. CASE page
    <3>1. m \in BrowsePr(op, id, text, messages)
      BY <1>8, <2>1 DEF ItemCmd, BrowseIssue
    <3> QED
      BY <1>4, <1>5, <3>1 DEF BrowsePr
  <2>2. CASE ~page
    <3>1. m \in PrCmd(op, id, text, messages)
      BY <1>8, <2>2 DEF ItemCmd, IssueCmd
    <3> QED
      BY <1>4, <3>1
  <2> QED
    BY <2>1, <2>2
<1> QED
  BY <1>7, <1>8 DEF Items

\* What a command's view has of an item: what the cached messages say, in the order of
\* the queue.
LEMMA ViewSays ==
  ASSUME CacheOK, NEW d \in Devices, NEW id, NEW f \in Fields
  PROVE  SaidIn(queue, Cached(d), id, f, FoldItem(Messages(d), id)[f])
<1>1. PICK at : MessagesFrom(d, at)
  BY MessagesInOrder
<1>2. PICK msgs, n, H : msgs = Messages(d) /\ n = Cardinality(Cached(d)) /\ H = Cached(d)
  OBVIOUS
<1>3. \A s \in H : s \in Nat /\ cache[d][s] = queue[s]
  BY <1>2 DEF CacheOK, Cached, Seqs
<1>4. /\ n \in Nat /\ DOMAIN msgs = 1..n
      /\ \A i \in 1..n : at[i] \in H /\ msgs[i] = queue[at[i]]
      /\ \A s \in H : \E i \in 1..n : at[i] = s
      /\ \A i, j \in 1..n : i < j => at[i] < at[j]
  BY <1>1, <1>2, <1>3 DEF MessagesFrom
<1>5. PICK v : v = FoldItem(msgs, id)[f]
  OBVIOUS
<1>6. SaidIn(msgs, 1..n, id, f, v)
  BY <1>4, <1>5, FoldSays
<1>7. SaidIn(queue, H, id, f, v)
  <2>1. CASE v = NoText /\ \A i \in 1..n : ~Says(msgs[i], id, f)
    <3>1. \A s \in H : ~Says(queue[s], id, f)
      BY <1>4, <2>1
    <3> QED
      BY <2>1, <3>1 DEF SaidIn
  <2>2. CASE \E i \in 1..n : /\ Says(msgs[i], id, f) /\ v = msgs[i][f]
                             /\ \A j \in 1..n : j > i => ~Says(msgs[j], id, f)
    <3>1. PICK i \in 1..n : /\ Says(msgs[i], id, f) /\ v = msgs[i][f]
                            /\ \A j \in 1..n : j > i => ~Says(msgs[j], id, f)
      BY <2>2
    <3>2. ASSUME NEW s \in H, s > at[i]  PROVE ~Says(queue[s], id, f)
      <4>1. PICK j \in 1..n : at[j] = s
        BY <1>4
      <4>2. at[i] \in Nat /\ s \in Nat
        BY <1>3, <1>4
      <4>3. ~(j < i) /\ j # i
        BY <1>4, <3>2, <4>1, <4>2
      <4>4. j > i
        BY <4>3
      <4> QED
        BY <1>4, <3>1, <4>1, <4>4
    <3>3. at[i] \in H /\ Says(queue[at[i]], id, f) /\ v = queue[at[i]][f]
      BY <1>4, <3>1
    <3> QED
      BY <3>2, <3>3 DEF SaidIn
  <2> QED
    BY <1>6, <2>1, <2>2 DEF SaidIn
<1> QED
  BY <1>2, <1>5, <1>7

\* The start.
LEMMA InitKnown ==
  ASSUME Init
  PROVE  KnownInv
<1>1. Len(queue) = 0 /\ \A p \in Procs : cmd[p].pc = "idle"
  BY DEF Init, IdleCmd
<1> QED
  BY <1>1 DEF KnownInv

\* Steps that leave the queue alone and begin no sending.
LEMMA KnownKept ==
  ASSUME KnownInv, UNCHANGED <<topic, queue>>,
         \A p \in Procs : cmd'[p].pc = "send" =>
             cmd'[p] = cmd[p] \/ KnownOK(cmd'[p].msg, cmd'[p].had, Len(queue))
  PROVE  KnownInv'
<1>1. \A m, had, n : KnownOK(m, had, n) => KnownOK(m, had, n)'
  BY DEF KnownOK, SaidIn
<1>2. ASSUME NEW i \in 1..Len(queue')
      PROVE  KnownOK(queue[i], queue[i].had, i - 1)'
  <2>1. PICK m : m = queue[i]
    OBVIOUS
  <2>2. KnownOK(m, m.had, i - 1)
    BY <1>2, <2>1 DEF KnownInv
  <2>3. KnownOK(m, m.had, i - 1)'
    BY <1>1, <2>2
  <2> QED
    BY <2>1, <2>3 DEF KnownOK
<1>3. ASSUME NEW p \in Procs, cmd'[p].pc = "send"
      PROVE  KnownOK(cmd[p].msg, cmd[p].had, Len(queue))'
  <2>1. PICK m, had, n : m = cmd'[p].msg /\ had = cmd'[p].had /\ n = Len(queue)
    OBVIOUS
  <2>2. KnownOK(m, had, n)
    BY <1>3, <2>1 DEF KnownInv
  <2>3. KnownOK(m, had, n)'
    BY <1>1, <2>2
  <2> QED
    BY <2>1, <2>3 DEF KnownOK
<1> QED
  BY <1>2, <1>3 DEF KnownInv

\* A message joins the queue: what its sender had is older, and of that nothing changes.
LEMMA EnqueueKnown ==
  ASSUME Shapes, KnownInv, NEW p \in Procs, NEW m, NEW k, NEW had, Enqueue(p, m, k, had),
         MsgOK(m), KnownOK(m, had, Len(queue))
  PROVE  KnownInv'
<1>0. PICK n \in Nat : n = Len(queue)
  BY DEF Shapes
<1>1. PICK e : e = [m EXCEPT !.key = k, !.no = n + 1, !.had = had]
  OBVIOUS
<1>2. /\ queue' = Append(queue, e)
      /\ cmd' = [cmd EXCEPT ![p] = IdleCmd] /\ UNCHANGED topic
  BY <1>0, <1>1 DEF Enqueue
<1>3. PICK S : queue \in Seq(S)
  BY DEF Shapes
<1>4. /\ Len(queue') = n + 1 /\ queue'[n + 1] = e
      /\ \A i \in 1..n : queue'[i] = queue[i]
  <2>1. queue \in Seq(S \cup {e})
    BY <1>3
  <2> QED
    BY <1>0, <1>2, <2>1
<1>5. /\ e.had = had /\ e.id = m.id /\ e.act = m.act /\ e.asked = m.asked
      /\ \A f \in Fields : e[f] = m[f]
  BY <1>1 DEF MsgOK, MessageFields, Fields
<1>6. \A h, id, f, v : h \in SUBSET (1..n) /\ SaidIn(queue, h, id, f, v) => SaidIn(queue', h, id, f, v)
  <2> TAKE h, id, f, v
  <2> HAVE h \in SUBSET (1..n) /\ SaidIn(queue, h, id, f, v)
  <2>1. \A i \in h : queue'[i] = queue[i]
    BY <1>4
  <2> QED
    BY <2>1 DEF SaidIn
<1>7. ASSUME NEW x, NEW h, NEW i \in 0..n, KnownOK(x, h, i)
      PROVE  KnownOK(x, h, i)'
  <2>1. h \in SUBSET (1..n)
    BY <1>7 DEF KnownOK
  <2> QED
    BY <1>2, <1>6, <1>7, <2>1 DEF KnownOK
<1>8. KnownOK(e, had, n)'
  <2>1. KnownOK(m, had, n)'
    BY <1>0, <1>7
  <2> QED
    BY <1>5, <2>1 DEF KnownOK
<1>9. ASSUME NEW i \in 1..Len(queue')
      PROVE  KnownOK(queue[i], queue[i].had, i - 1)'
  <2>1. CASE i = n + 1
    <3>1. queue'[i] = e /\ i - 1 = n
      BY <1>4, <2>1
    <3> QED
      BY <1>5, <1>8, <3>1 DEF KnownOK
  <2>2. CASE i \in 1..n
    <3>1. PICK x : x = queue[i] /\ x = queue'[i]
      BY <1>4, <2>2
    <3>2. KnownOK(x, x.had, i - 1) /\ i - 1 \in 0..n
      <4>1. i \in 1..Len(queue) /\ i - 1 \in 0..n
        BY <1>0, <2>2
      <4>2. KnownOK(queue[i], queue[i].had, i - 1)
        BY <4>1 DEF KnownInv
      <4> QED
        BY <3>1, <4>1, <4>2
    <3>3. KnownOK(x, x.had, i - 1)'
      BY <1>7, <3>2
    <3> QED
      BY <3>1, <3>3 DEF KnownOK
  <2> QED
    BY <1>4, <1>9, <2>1, <2>2
<1>10. /\ cmd'[p].pc = "idle" /\ \A q \in Procs \ {p} : cmd'[q] = cmd[q]
  BY <1>2 DEF Shapes, IdleCmd
<1>11. ASSUME NEW q \in Procs, cmd'[q].pc = "send"
       PROVE  KnownOK(cmd[q].msg, cmd[q].had, Len(queue))'
  <2>1. cmd'[q] = cmd[q] /\ cmd[q].pc = "send"
    BY <1>10, <1>11
  <2>2. PICK x, h : x = cmd[q].msg /\ h = cmd[q].had
    OBVIOUS
  <2>3. KnownOK(x, h, n)
    BY <1>0, <2>1, <2>2 DEF KnownInv
  <2>4. KnownOK(x, h, n)'
    BY <1>7, <2>3
  <2> QED
    BY <1>4, <2>1, <2>2, <2>4 DEF KnownOK
<1> QED
  BY <1>9, <1>11 DEF KnownInv

\* A command has folded its cache: what it sends of the item is what it has seen.
LEMMA FoldKnown ==
  ASSUME Shapes, CacheOK, KnownInv, NEW p \in Procs, NEW page \in BOOLEAN, Fold(p, page)
  PROVE  KnownInv'
<1>a. PICK d : d = home[p]
  OBVIOUS
<1>0. d \in Devices /\ topic \in Items /\ UNCHANGED <<topic, queue>>
  BY <1>a DEF Shapes, Fold
<1>1. PICK op \in ItemOps, id \in Ids, text \in Texts :
        \E m \in ItemCmd(page, op, id, text, Messages(d)) :
            cmd' = [cmd EXCEPT ![p] = [pc |-> "send", key |-> cmd[p].key, had |-> Cached(d), msg |-> m]]
  BY <1>a DEF Fold
<1>2. PICK m \in ItemCmd(page, op, id, text, Messages(d)) :
        cmd' = [cmd EXCEPT ![p] = [pc |-> "send", key |-> cmd[p].key, had |-> Cached(d), msg |-> m]]
  BY <1>1
<1>3. PICK had, msgs : had = Cached(d) /\ msgs = Messages(d)
  OBVIOUS
<1>4. had \in SUBSET (1..Len(queue))
  BY <1>0, <1>3 DEF CacheOK, Cached
<1>5. ASSUME m.act = "item", NEW f \in Fields, f \notin m.asked, m[f] # NoText
      PROVE  SaidIn(queue, had, m.id, f, m[f])
  <2>1. PICK i, v : i = m.id /\ v = FoldItem(msgs, i)[f]
    OBVIOUS
  <2>2. m[f] = v
    BY <1>0, <1>2, <1>3, <1>5, <2>1, UnaskedFields
  <2>3. SaidIn(queue, Cached(d), i, f, FoldItem(Messages(d), i)[f])
    BY <1>0, ViewSays
  <2> QED
    BY <1>3, <2>1, <2>2, <2>3
<1>6. KnownOK(m, had, Len(queue))
  BY <1>0, <1>4, <1>5 DEF KnownOK
<1>7. /\ cmd'[p] = [pc |-> "send", key |-> cmd[p].key, had |-> had, msg |-> m]
      /\ \A q \in Procs \ {p} : cmd'[q] = cmd[q]
  BY <1>2, <1>3 DEF Shapes
<1>8. cmd'[p].msg = m /\ cmd'[p].had = had
  BY <1>7
<1>9. ASSUME NEW q \in Procs
      PROVE  cmd'[q] = cmd[q] \/ KnownOK(cmd'[q].msg, cmd'[q].had, Len(queue))
  <2>1. CASE q = p
    BY <1>6, <1>8, <2>1
  <2>2. CASE q # p
    BY <1>7, <2>2
  <2> QED
    BY <2>1, <2>2
<1> QED
  BY <1>0, <1>9, KnownKept

\* A message is sent; without a look at the inbox it carries no field that nobody named.
LEMMA SendKnown ==
  ASSUME Shapes, NumbersInv, KnownInv, NEW p \in Procs, Send(p) \/ SendDirect(p)
  PROVE  KnownInv'
<1>1. CASE Send(p)
  <2>1. PICK m, k, had : m = cmd[p].msg /\ k = cmd[p].key /\ had = cmd[p].had
    OBVIOUS
  <2>2. Enqueue(p, m, k, had) /\ cmd[p].pc = "send"
    BY <1>1, <2>1 DEF Send
  <2>3. MsgOK(m) /\ KnownOK(m, had, Len(queue))
    BY <2>1, <2>2 DEF NumbersInv, KnownInv
  <2> QED
    BY <2>2, <2>3, EnqueueKnown
<1>2. CASE SendDirect(p)
  <2>1. PICK m, k, had : /\ MsgOK(m) /\ KnownOK(m, had, Len(queue)) /\ Enqueue(p, m, k, had)
    <3>1. CASE topic \in Items
      <4>1. PICK op \in ItemOps, id \in Ids, text \in Texts :
              \E m \in ItemCmd(FALSE, op, id, text, <<>>) : Enqueue(p, m, key[home[p]], {})
        BY <1>2, <3>1 DEF SendDirect
      <4>2. PICK m \in ItemCmd(FALSE, op, id, text, <<>>) : Enqueue(p, m, key[home[p]], {})
        BY <4>1
      <4>3. PICK none, had, page : none = <<>> /\ had = {} /\ page = FALSE /\ page \in BOOLEAN
        OBVIOUS
      <4>4. DOMAIN none = 1..0 /\ \A i \in 1..0 : none[i].id \in Nat
        BY <4>3
      <4>5. NextNumber(none) \in Nat
        BY <4>4, NextNumberIs
      <4>6. MsgOK(m)
        BY <3>1, <4>2, <4>3, <4>5, ItemCmdIs
      <4>7. ASSUME m.act = "item", NEW f \in Fields, f \notin m.asked
            PROVE  m[f] = NoText
        <5>1. PICK i, v : i = m.id /\ v = FoldItem(none, i)[f]
          OBVIOUS
        <5>a. m \in ItemCmd(page, op, id, text, none)
          BY <4>2, <4>3
        <5>b. m[f] = NoText \/ m[f] = FoldItem(none, m.id)[f]
          BY <3>1, <4>3, <4>7, <5>a, UnaskedFields
        <5>2. m[f] = NoText \/ m[f] = v
          BY <5>1, <5>b
        <5>3. 0 \in Nat /\ SaidIn(none, 1..0, i, f, v)
          BY <4>4, <5>1, FoldSays
        <5>4. v = NoText
          BY <5>3 DEF SaidIn
        <5> QED
          BY <5>2, <5>4
      <4>8. KnownOK(m, had, Len(queue))
        BY <3>1, <4>3, <4>7 DEF KnownOK
      <4> QED
        BY <4>2, <4>3, <4>6, <4>8
    <3>2. CASE topic \notin Items
      <4>1. PICK act : Enqueue(p, Message(act, 1, NoText, NoText, NoText, {}), key[home[p]], {})
        BY <1>2, <3>2 DEF SendDirect
      <4>2. PICK m, had : m = Message(act, 1, NoText, NoText, NoText, {}) /\ had = {}
        OBVIOUS
      <4>3. MsgOK(m) /\ m.id = 1
        BY <4>2 DEF MsgOK, Message, MessageFields, Fields
      <4>4. KnownOK(m, had, Len(queue))
        BY <3>2, <4>2, <4>3 DEF KnownOK
      <4> QED
        BY <4>1, <4>2, <4>3, <4>4
    <3> QED
      BY <3>1, <3>2
  <2> QED
    BY <2>1, EnqueueKnown
<1> QED
  BY <1>1, <1>2

\* Every step keeps what is known of the messages.
LEMMA StepKnown ==
  ASSUME Shapes, NumbersInv, KnownInv, [Next]_vars
  PROVE  KnownInv'
<1>1. ASSUME NEW p \in Procs, NEW c, c.pc # "send", cmd' = [cmd EXCEPT ![p] = c],
             UNCHANGED <<topic, queue>>
      PROVE  KnownInv'
  <2>1. \A q \in Procs : cmd'[q].pc = "send" => cmd'[q] = cmd[q]
    BY <1>1 DEF Shapes
  <2> QED
    BY <1>1, <2>1, KnownKept
<1>2. ASSUME NEW d \in Devices, Rekey(d)  PROVE KnownInv'
  BY <1>2, KnownKept DEF Rekey
<1>3. ASSUME NEW p \in Procs, LoadCursor(p) \/ FetchPage(p) \/ SaveCursor(p) \/ Stop(p) \/ Kill(p)
      PROVE  KnownInv'
  <2>1. UNCHANGED <<topic, queue>>
    BY <1>3 DEF LoadCursor, FetchPage, SaveCursor, Stop, Kill
  <2>2. CASE LoadCursor(p)
    <3>1. PICK k, a : cmd' = [cmd EXCEPT ![p] = [pc |-> "fetch", key |-> k, after |-> a]]
      BY <2>2 DEF LoadCursor
    <3> QED
      BY <1>1, <2>1, <3>1
  <2>3. CASE FetchPage(p)
    <3>1. PICK k, pg, td :
            \/ cmd' = [cmd EXCEPT ![p] = [pc |-> "fold", key |-> k]]
            \/ cmd' = [cmd EXCEPT ![p] = [pc |-> "cache", key |-> k, page |-> pg, todo |-> td]]
      BY <2>3 DEF FetchPage
    <3> QED
      BY <1>1, <2>1, <3>1
  <2>4. CASE SaveCursor(p)
    <3>1. PICK k : cmd' = [cmd EXCEPT ![p] = [pc |-> "fold", key |-> k]]
      BY <2>4 DEF SaveCursor
    <3> QED
      BY <1>1, <2>1, <3>1
  <2>5. CASE Stop(p) \/ Kill(p)
    BY <1>1, <2>1, <2>5 DEF Stop, Kill, IdleCmd
  <2> QED
    BY <1>3, <2>2, <2>3, <2>4, <2>5
<1>4. ASSUME NEW p \in Procs, CacheOne(p)  PROVE KnownInv'
  <2>1. PICK c : cmd' = [cmd EXCEPT ![p].todo = c] /\ UNCHANGED <<topic, queue>>
    BY <1>4 DEF CacheOne
  <2>2. \A q \in Procs \ {p} : cmd'[q] = cmd[q]
    BY <2>1 DEF Shapes
  <2>3. cmd[p].pc = "cache" /\ cmd'[p] = [cmd[p] EXCEPT !.todo = c]
    BY <1>4, <2>1 DEF Shapes, CacheOne
  <2>4. cmd'[p].pc = "send" => cmd'[p] = cmd[p]
    BY <2>3
  <2> QED
    BY <2>1, <2>2, <2>4, KnownKept
<1>5. ASSUME NEW p \in Procs, Send(p) \/ SendDirect(p)  PROVE KnownInv'
  BY <1>5, SendKnown
<1>6. ASSUME NEW p \in Procs, NEW page \in BOOLEAN, Fold(p, page)  PROVE KnownInv'
  BY <1>6, FoldKnown DEF NumbersInv
<1>7. CASE UNCHANGED vars
  BY <1>7, KnownKept DEF vars
<1> QED
  BY <1>2, <1>3, <1>4, <1>5, <1>6, <1>7 DEF Next

\* What the fold makes of a field after the first n messages of the queue.
LEMMA FieldSays ==
  ASSUME Shapes, NEW n \in 0..Len(queue), NEW id, NEW f \in Fields
  PROVE  SaidIn(queue, 1..n, id, f, FieldAfter(n, id, f))
<1>1. PICK upto : upto = SubSeq(queue, 1, n)
  OBVIOUS
<1>2. n \in Nat /\ DOMAIN upto = 1..n /\ \A i \in 1..n : upto[i] = queue[i]
  <2>1. PICK S : queue \in Seq(S)
    BY DEF Shapes
  <2> QED
    BY <1>1, <2>1
<1>3. PICK v : v = FoldItem(upto, id)[f]
  OBVIOUS
<1>4. SaidIn(upto, 1..n, id, f, v)
  BY <1>2, <1>3, FoldSays
<1>5. SaidIn(queue, 1..n, id, f, v)
  BY <1>2, <1>4 DEF SaidIn
<1> QED
  BY <1>1, <1>3, <1>5 DEF FieldAfter

\* A sender that has everything about the item sends along what the queue says.
LEMMA KnownUnasked ==
  ASSUME Shapes, KnownInv
  PROVE  UnaskedMeansStale
<1> SUFFICES ASSUME NEW n, n = Len(queue), NEW m, m = queue[n],
                    topic \in Items, n > 1, m.act = "item", NEW f \in Fields, f \notin m.asked,
                    \A k \in 1..(n - 1) : queue[k].id = m.id => k \in m.had
             PROVE  FieldAfter(n, m.id, f) = FieldAfter(n - 1, m.id, f)
  BY DEF UnaskedMeansStale
<1>0. n \in Nat /\ n \in 1..n /\ n - 1 \in 0..n /\ n - 1 \in Nat
  BY DEF Shapes
<1>1. PICK id, had, before, after :
        /\ id = m.id /\ had = m.had
        /\ before = FieldAfter(n - 1, m.id, f) /\ after = FieldAfter(n, m.id, f)
  OBVIOUS
<1>2. SaidIn(queue, 1..n, id, f, after) /\ SaidIn(queue, 1..(n - 1), id, f, before)
  BY <1>0, <1>1, FieldSays
<1>3. KnownOK(m, had, n - 1)
  BY <1>0, <1>1 DEF KnownInv
<1>4. /\ had \in SUBSET (1..(n - 1))
      /\ m[f] # NoText => SaidIn(queue, had, id, f, m[f])
  BY <1>1, <1>3 DEF KnownOK
<1>5. PICK H, G : H = 1..n /\ G = 1..(n - 1)
  OBVIOUS
<1>6. /\ \A i \in H \cup G : i \in Nat
      /\ \A i \in G : i \in H
      /\ \A i \in H : i \in G \/ i = n
      /\ n \in H /\ \A i \in H : ~(i > n)
  BY <1>0, <1>5
<1>7. CASE m[f] = NoText
  <2>1. ~Says(queue[n], id, f)
    BY <1>7 DEF Says
  <2>2. \A i \in H : Says(queue[i], id, f) => i \in G
    BY <1>6, <2>1
  <2>3. SaidIn(queue, H, id, f, after) /\ SaidIn(queue, G, id, f, before)
    BY <1>2, <1>5
  <2>4. after = before
    BY <1>6, <2>2, <2>3, SaidOnce
  <2> QED
    BY <1>1, <2>4
<1>8. CASE m[f] # NoText
  <2>1. Says(queue[n], id, f)
    BY <1>1, <1>8 DEF Says
  <2>2. after = m[f]
    BY <1>2, <1>5, <1>6, <2>1 DEF SaidIn
  <2>3. \A i \in had \cup G : i \in Nat
    BY <1>4, <1>5, <1>6
  <2>4. \A i \in G : Says(queue[i], id, f) => i \in had
    BY <1>1, <1>5 DEF Says
  <2>5. \A i \in had : i \in G
    BY <1>4, <1>5
  <2>6. PICK v : v = m[f]
    OBVIOUS
  <2>7. SaidIn(queue, had, id, f, v) /\ SaidIn(queue, G, id, f, before)
    BY <1>2, <1>4, <1>5, <1>8, <2>6
  <2>8. v = before
    BY <2>3, <2>4, <2>5, <2>7, SaidOnce
  <2> QED
    BY <1>1, <2>2, <2>6, <2>8
<1> QED
  BY <1>7, <1>8

\* A device that has the last message about a name lists what it says.
LEMMA KnownListing ==
  ASSUME Shapes, CacheOK, KnownInv
  PROVE  ListingStaleOnly
<1> SUFFICES ASSUME NEW d \in Devices, topic \notin Items,
                    \A c \in NamedOf(topic) : c.lists = "live",
                    NEW last, last = Max(1..Len(queue)), 1..Len(queue) # {}, last \in Cached(d)
             PROVE  1 \in Listing(topic, Messages(d)) <=> queue[last].act # "delete"
  BY DEF ListingStaleOnly
<1>1. last = Len(queue) /\ last \in Nat /\ last \in 1..last
  <2>1. PICK n \in Nat : n = Len(queue)
    BY DEF Shapes
  <2>2. PICK S : S = 1..n
    OBVIOUS
  <2>3. S \in SUBSET (1..n) /\ S # {} /\ n \in S
    BY <2>1, <2>2
  <2>4. Max(S) \in S /\ \A k \in S : k <= Max(S)
    BY <2>3, MaxIn
  <2>5. Max(S) = last
    BY <2>1, <2>2
  <2>6. last \in 1..n /\ n <= last
    BY <2>2, <2>3, <2>4, <2>5
  <2> QED
    BY <2>1, <2>6
<1>2. PICK at : MessagesFrom(d, at)
  BY MessagesInOrder
<1>3. PICK msgs, n, H : msgs = Messages(d) /\ n = Cardinality(Cached(d)) /\ H = Cached(d)
  OBVIOUS
<1>4. \A s \in H : s \in Nat /\ s <= last /\ cache[d][s] = queue[s] /\ queue[s].id = 1
  <2>1. ASSUME NEW s \in H  PROVE s \in 1..Len(queue) /\ cache[d][s] = queue[s]
    BY <1>3 DEF CacheOK, Cached
  <2>2. \A s \in 1..Len(queue) : queue[s].id = 1
    BY DEF KnownInv, KnownOK
  <2> QED
    BY <1>1, <2>1, <2>2
<1>5. /\ n \in Nat /\ DOMAIN msgs = 1..n
      /\ \A i \in 1..n : at[i] \in H /\ msgs[i] = queue[at[i]]
      /\ \A s \in H : \E i \in 1..n : at[i] = s
      /\ \A i, j \in 1..n : i < j => at[i] < at[j]
  BY <1>2, <1>3, <1>4 DEF MessagesFrom
<1>6. n \in 1..n /\ at[n] = last
  <2>1. PICK i \in 1..n : at[i] = last
    BY <1>3, <1>5
  <2>2. n \in 1..n
    BY <1>5, <2>1
  <2>3. at[n] \in Nat /\ at[n] <= last
    BY <1>4, <1>5, <2>2
  <2>4. ~(i < n)
    BY <1>1, <1>5, <2>1, <2>2, <2>3
  <2>5. i = n
    BY <1>5, <2>4
  <2> QED
    BY <2>1, <2>2, <2>5
<1>7. msgs[n] = queue[last] /\ msgs[n].id = 1
  BY <1>3, <1>4, <1>5, <1>6
<1>8. PICK items : items = FALSE
  OBVIOUS
<1>9. PICK e : FoldPath(items, 1, msgs, n, e)
  BY <1>5, FoldSteps
<1>10. FoldNames(msgs) = TheFold(items, 1, msgs, n)
  BY <1>5, <1>8, FoldsAre
<1>11. FoldNames(msgs) = e[n] /\ e[n] = FoldStart(items, 1, e[n - 1], msgs[n])
  BY <1>6, <1>9, <1>10 DEF FoldPath
<1>12. FoldNames(msgs) = NameStep(e[n - 1], msgs[n])
  BY <1>8, <1>11 DEF FoldStart
<1>13. 1 \in FoldNames(msgs) <=> msgs[n].act # "delete"
  BY <1>7, <1>12 DEF NameStep
<1>14. Listing(topic, msgs) = FoldNames(msgs)
  BY DEF Listing
<1> QED
  BY <1>3, <1>7, <1>13, <1>14

\* KnownInv and NumbersInv of every behaviour.
LEMMA AllKnown == Spec => [](Shapes /\ NumbersInv /\ KnownInv)
<1>1. Init => NumbersInv /\ KnownInv
  BY InitNumbers, InitKnown
<1>2. IInv /\ NumbersInv /\ [Next]_vars => NumbersInv'
  BY StepNumbers
<1>3. IInv /\ NumbersInv /\ KnownInv /\ [Next]_vars => KnownInv'
  BY StepKnown DEF IInv
<1>4. IInv => Shapes
  BY DEF IInv
<1> QED
  BY <1>1, <1>2, <1>3, <1>4, Invariant, PTL DEF Spec

\* UnaskedMeansStale of every behaviour: closing, reopening, merging and editing change
\* a field that the user did not name only for a sender that has not received all there
\* is about the item.
THEOREM UnaskedSafe == Spec => []UnaskedMeansStale
<1>1. Shapes /\ NumbersInv /\ KnownInv => UnaskedMeansStale
  BY KnownUnasked
<1> QED
  BY <1>1, AllKnown, PTL

\* ListingStaleOnly of every behaviour: a listing is out of date only for a device that
\* has not received the last message.
THEOREM ListingSafe == Spec => []ListingStaleOnly
<1>1. Shapes /\ NumbersInv /\ KnownInv => ListingStaleOnly
  BY KnownListing DEF NumbersInv
<1> QED
  BY <1>1, AllKnown, PTL
=============================================================================
