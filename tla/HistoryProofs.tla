---------------------------- MODULE HistoryProofs ----------------------------
(***************************************************************************)
(* Proofs about ForkCompare, HeadVerify and Consolidate, for any clients,  *)
(* views, windows, keys, listings, spans, quorums and bounds.              *)
(*                                                                         *)
(* The inductive invariant IInv says what the chain hash and the growth    *)
(* of views make of the clients' histories: entries are linked (Linked),   *)
(* epochs never decrease (EpochsGrow), hashes in use are below `fresh`     *)
(* (HashesUsed), and two views that share one head share everything below  *)
(* it (OneOrigin).  Each property of a verdict then follows in the state.  *)
(*                                                                         *)
(* What a host can serve are heads that the group made, so the invariant   *)
(* speaks about them: each is linked to the head below it, and heads with  *)
(* one hash have one history.  A receipt commits to a run of heads         *)
(* through a Merkle tree; that the proof of a leaf leads to the root for   *)
(* that leaf and for no other is shown of any number of leaves.            *)
(***************************************************************************)
EXTENDS Consolidate, FiniteSetTheorems, WellFoundedInduction, TLAPS

Linked ==
    \A c \in Clients : \A s \in 1..Len(view[c]) :
        view[c][s].prev = IF s = 1 THEN ZeroHash ELSE view[c][s - 1].hash

EpochsGrow ==
    \A c \in Clients : \A t \in 1..Len(view[c]) : \A s \in 1..t :
        view[c][s].epoch <= view[c][t].epoch

HashesUsed ==
    \A c \in Clients : \A s \in 1..Len(view[c]) : view[c][s].hash < fresh

OneOrigin ==
    \A c, d \in Clients : \A s \in 1..Len(view[c]) : \A t \in 1..Len(view[d]) :
        view[c][s].hash = view[d][t].hash =>
            s = t /\ \A u \in 1..s : view[c][u] = view[d][u]

IInv == TypeOK /\ Linked /\ EpochsGrow /\ HashesUsed /\ OneOrigin

-----------------------------------------------------------------------------
(* The step every action takes: one view grows by one entry. *)

Grows(c, h) == view' = [view EXCEPT ![c] = Append(@, h)]

\* What a view is after it grew (Push and Fetch).
LEMMA GrownView ==
    ASSUME TypeOK, NEW c \in Clients, NEW h \in ChainEntry, Grows(c, h), Len(view[c]) < MaxSeq
    PROVE  /\ view' \in [Clients -> Seq(ChainEntry)]
           /\ \A d \in Clients : Len(view'[d]) <= MaxSeq
           /\ Len(view'[c]) = Len(view[c]) + 1
           /\ view'[c][Len(view[c]) + 1] = h
           /\ \A s \in 1..Len(view[c]) : view'[c][s] = view[c][s]
           /\ \A d \in Clients : d # c => view'[d] = view[d]
  BY ForkCompareAssumption DEF TypeOK, Grows

\* The hash below the next place of a view is its last one.
LEMMA TipHashIs ==
    ASSUME TypeOK, NEW c \in Clients
    PROVE  TipHash(view[c]) = IF Len(view[c]) = 0 THEN ZeroHash ELSE view[c][Len(view[c])].hash
  BY DEF TypeOK, TipHash

\* The entries of a view have their types.
LEMMA EntryType ==
    ASSUME TypeOK, NEW c \in Clients, NEW s \in 1..Len(view[c])
    PROVE  /\ view[c][s] \in ChainEntry
           /\ view[c][s].hash \in 1..MaxHash
           /\ view[c][s].prev \in 0..MaxHash
           /\ view[c][s].epoch \in Epochs
           /\ view[c][s].hash \in Nat /\ view[c][s].epoch \in Nat
  <1>1. view[c][s] \in ChainEntry
    BY DEF TypeOK
  <1>2. \A h \in ChainEntry : /\ h.hash \in 1..MaxHash
                             /\ h.prev \in 0..MaxHash
                             /\ h.epoch \in Epochs
    BY DEF ChainEntry
  <1>3. Epochs \subseteq Nat /\ 1..MaxHash \subseteq Nat
    BY ForkCompareAssumption DEF Epochs
  <1> QED BY <1>1, <1>2, <1>3

\* All views are empty.
LEMMA InitIInv == Init => IInv
  BY ForkCompareAssumption DEF Init, IInv, TypeOK, Linked, EpochsGrow, HashesUsed, OneOrigin

\* Links and epochs survive any step that appends a descendant in no lower an epoch.
LEMMA GrowLinked ==
    ASSUME IInv, NEW c \in Clients, NEW h \in ChainEntry, Grows(c, h), Len(view[c]) < MaxSeq,
           h.prev = TipHash(view[c]),
           view[c] # <<>> => view[c][Len(view[c])].epoch <= h.epoch
    PROVE  Linked' /\ EpochsGrow'
  <1> USE DEF IInv
  <1> DEFINE n == Len(view[c])
  <1>0. n \in Nat
    BY DEF TypeOK
  <1>1. /\ Len(view'[c]) = n + 1
        /\ view'[c][n + 1] = h
        /\ \A s \in 1..n : view'[c][s] = view[c][s]
        /\ \A d \in Clients : d # c => view'[d] = view[d]
    BY GrownView
  <1>2. Linked'
    <2> SUFFICES ASSUME NEW d \in Clients, NEW s \in 1..Len(view'[d])
                 PROVE  view'[d][s].prev = IF s = 1 THEN ZeroHash ELSE view'[d][s - 1].hash
      BY DEF Linked
    <2>1. CASE d # c
      BY <2>1, <1>1 DEF Linked
    <2>2. CASE d = c /\ s = n + 1
      BY <2>2, <1>0, <1>1, TipHashIs
    <2>3. CASE d = c /\ s \in 1..n
      <3>1. CASE s = 1
        BY <3>1, <2>3, <1>1 DEF Linked
      <3>2. CASE s # 1
        <4>1. s - 1 \in 1..n
          BY <3>2, <2>3, <1>0
        <4>2. view'[c][s] = view[c][s] /\ view'[c][s - 1] = view[c][s - 1]
          BY <4>1, <2>3, <1>1
        <4>3. view[c][s].prev = view[c][s - 1].hash
          BY <3>2, <2>3 DEF Linked
        <4> QED BY <4>2, <4>3, <3>2, <2>3
      <3> QED BY <3>1, <3>2
    <2> QED BY <2>1, <2>2, <2>3, <1>0, <1>1
  <1>3. EpochsGrow'
    <2> SUFFICES ASSUME NEW d \in Clients, NEW t \in 1..Len(view'[d]), NEW s \in 1..t
                 PROVE  view'[d][s].epoch <= view'[d][t].epoch
      BY DEF EpochsGrow
    <2>1. CASE d # c
      BY <2>1, <1>1 DEF EpochsGrow
    <2>2. CASE d = c /\ t \in 1..n
      <3>1. s \in 1..n
        BY <2>2, <1>0
      <3> QED BY <3>1, <2>2, <1>1 DEF EpochsGrow
    <2>3. CASE d = c /\ t = n + 1 /\ s = n + 1
      BY <2>3, <1>1, <1>0, ForkCompareAssumption DEF ChainEntry, Epochs
    <2>4. CASE d = c /\ t = n + 1 /\ s \in 1..n
      <3>1. n \in 1..n /\ view[c] # <<>>
        BY <2>4, <1>0 DEF TypeOK
      <3>2. view[c][s].epoch <= view[c][n].epoch
        BY <2>4, <3>1 DEF EpochsGrow
      <3>3. view[c][s].epoch \in Nat /\ view[c][n].epoch \in Nat /\ h.epoch \in Nat
        <4>1. h.epoch \in Nat
          BY ForkCompareAssumption DEF ChainEntry, Epochs
        <4> QED BY <4>1, <2>4, <3>1, EntryType
      <3> QED BY <3>1, <3>2, <3>3, <2>4, <1>1
    <2> QED BY <2>1, <2>2, <2>3, <2>4, <1>0, <1>1
  <1> QED BY <1>2, <1>3

\* A push adds an entry with a fresh hash to one view.
LEMMA PushIInv ==
    ASSUME IInv, NEW c \in Clients, NEW e \in Epochs, Push(c, e)
    PROVE  IInv'
  <1> USE DEF IInv
  <1> DEFINE n == Len(view[c])
             h == [hash |-> fresh, prev |-> TipHash(view[c]), epoch |-> e]
  <1>0. n \in Nat /\ fresh \in Nat
    BY ForkCompareAssumption DEF TypeOK
  <1>1. TipHash(view[c]) \in 0..MaxHash
    <2>1. CASE n = 0
      BY <2>1, TipHashIs, ForkCompareAssumption DEF ZeroHash
    <2>2. CASE n # 0
      <3>1. n \in 1..n
        BY <2>2, <1>0
      <3> QED BY <3>1, <2>2, TipHashIs, EntryType, ForkCompareAssumption
    <2> QED BY <2>1, <2>2
  <1>2. h \in ChainEntry
    BY <1>0, <1>1, ForkCompareAssumption DEF Push, TypeOK, ChainEntry
  <1>3. Grows(c, h) /\ n < MaxSeq /\ fresh' = fresh + 1
    BY DEF Push, Grows
  <1> HIDE DEF h
  <1>4. /\ Len(view'[c]) = n + 1
        /\ view'[c][n + 1] = h
        /\ \A s \in 1..n : view'[c][s] = view[c][s]
        /\ \A d \in Clients : d # c => view'[d] = view[d]
    BY <1>2, <1>3, GrownView
  <1>5. TypeOK'
    BY <1>2, <1>3, GrownView, ForkCompareAssumption DEF Push, TypeOK
  <1>6. Linked' /\ EpochsGrow'
    <2>1. h.prev = TipHash(view[c]) /\ h.epoch = e
      BY DEF h
    <2> QED BY <2>1, <1>2, <1>3, GrowLinked DEF Push
  <1>7. h.hash = fresh
    BY DEF h
  <1>8. \A d \in Clients : \A s \in 1..Len(view[d]) : view[d][s].hash \in Nat
    BY EntryType, ForkCompareAssumption
  <1>9. HashesUsed'
    <2> SUFFICES ASSUME NEW d \in Clients, NEW s \in 1..Len(view'[d])
                 PROVE  view'[d][s].hash < fresh'
      BY DEF HashesUsed
    <2>1. CASE d # c
      <3>1. s \in 1..Len(view[d]) /\ view'[d][s] = view[d][s]
        BY <2>1, <1>4
      <3>2. view[d][s].hash < fresh /\ view[d][s].hash \in Nat
        BY <3>1, <1>8 DEF HashesUsed
      <3> QED BY <3>1, <3>2, <1>0, <1>3
    <2>2. CASE d = c /\ s = n + 1
      BY <2>2, <1>0, <1>3, <1>4, <1>7
    <2>3. CASE d = c /\ s \in 1..n
      BY <2>3, <1>0, <1>3, <1>4, <1>8 DEF HashesUsed
    <2> QED BY <2>1, <2>2, <2>3, <1>0, <1>4
  <1>10. OneOrigin'
    <2> SUFFICES ASSUME NEW d \in Clients, NEW f \in Clients,
                        NEW s \in 1..Len(view'[d]), NEW t \in 1..Len(view'[f]),
                        view'[d][s].hash = view'[f][t].hash
                 PROVE  s = t /\ \A u \in 1..s : view'[d][u] = view'[f][u]
      BY DEF OneOrigin
    <2> DEFINE new(x, y) == x = c /\ y = n + 1
    <2>1. \A x \in Clients : \A y \in 1..Len(view'[x]) :
            IF new(x, y) THEN view'[x][y].hash = fresh
            ELSE y \in 1..Len(view[x]) /\ view'[x][y] = view[x][y] /\ view[x][y].hash < fresh
      BY <1>0, <1>4, <1>7 DEF HashesUsed
    <2>2. CASE new(d, s) /\ new(f, t)
      BY <2>2
    <2>3. CASE new(d, s) /\ ~new(f, t)
      <3>1. view'[d][s].hash = fresh /\ view'[f][t].hash < fresh
        BY <2>1, <2>3
      <3> QED BY <3>1, <1>0
    <2>5. CASE ~new(d, s) /\ new(f, t)
      <3>1. view'[d][s].hash < fresh /\ view'[f][t].hash = fresh
        BY <2>1, <2>5
      <3> QED BY <3>1, <1>0
    <2>4. CASE ~new(d, s) /\ ~new(f, t)
      <3>1. s \in 1..Len(view[d]) /\ t \in 1..Len(view[f])
        BY <2>1, <2>4
      <3>2. view[d][s].hash = view[f][t].hash
        BY <2>1, <2>4
      <3>3. s = t /\ \A u \in 1..s : view[d][u] = view[f][u]
        BY <3>1, <3>2 DEF OneOrigin
      <3>4. \A u \in 1..s : view'[d][u] = view[d][u] /\ view'[f][u] = view[f][u]
        <4>1. Len(view[d]) \in Nat /\ Len(view[f]) \in Nat
          BY DEF TypeOK
        <4>2. \A u \in 1..s : u \in 1..Len(view[d]) /\ u \in 1..Len(view[f])
          BY <4>1, <3>1, <3>3
        <4> QED BY <4>2, <1>4
      <3> QED BY <3>3, <3>4
    <2> QED BY <2>2, <2>3, <2>4, <2>5
  <1> QED BY <1>5, <1>6, <1>9, <1>10

\* What c accepts continues a history that c shares: it holds the same heads below.
LEMMA FetchPrefix ==
    ASSUME IInv, NEW c \in Clients, NEW d \in Clients, Fetch(c, d)
    PROVE  \A u \in 1..Len(view[c]) : view[c][u] = view[d][u]
  <1> USE DEF IInv
  <1> DEFINE n == Len(view[c])
  <1>0. n \in Nat /\ Len(view[d]) \in Nat /\ n < Len(view[d])
    BY DEF TypeOK, Fetch
  <1>1. CASE n = 0
    BY <1>1
  <1>2. CASE n # 0
    <2>1. n \in 1..n /\ n \in 1..Len(view[d]) /\ n + 1 \in 1..Len(view[d]) /\ n + 1 # 1
      BY <1>0, <1>2
    <2>2. view[d][n + 1].prev = view[c][n].hash
      BY <1>2, TipHashIs DEF Fetch
    <2>3. view[d][n + 1].prev = view[d][(n + 1) - 1].hash
      BY <2>1 DEF Linked
    <2>4. (n + 1) - 1 = n
      BY <1>0
    <2>5. view[c][n].hash = view[d][n].hash
      BY <2>2, <2>3, <2>4
    <2> QED BY <2>1, <2>5 DEF OneOrigin
  <1> QED BY <1>1, <1>2

\* A fetch adds to one view the next entry of another that it continues.
LEMMA FetchIInv ==
    ASSUME IInv, NEW c \in Clients, NEW d \in Clients, Fetch(c, d)
    PROVE  IInv'
  <1> USE DEF IInv
  <1> DEFINE n == Len(view[c])
             h == view[d][n + 1]
             src(x) == IF x = c THEN d ELSE x
  <1>0. n \in Nat /\ Len(view[d]) \in Nat /\ n < Len(view[d]) /\ Len(view[d]) <= MaxSeq
    BY DEF TypeOK, Fetch
  <1>1. n + 1 \in 1..Len(view[d]) /\ n < MaxSeq
    BY <1>0, ForkCompareAssumption
  <1>2. h \in ChainEntry
    BY <1>1, EntryType
  <1>3. Grows(c, h) /\ h.prev = TipHash(view[c]) /\ fresh' = fresh
    BY DEF Fetch, Grows
  <1>4. \A u \in 1..n : view[c][u] = view[d][u]
    BY FetchPrefix
  <1>5. view[c] # <<>> => view[c][n].epoch <= h.epoch
    <2> SUFFICES ASSUME view[c] # <<>> PROVE view[c][n].epoch <= h.epoch
      OBVIOUS
    <2>1. n \in 1..n /\ n \in 1..(n + 1)
      BY <1>0 DEF TypeOK
    <2> QED BY <2>1, <1>1, <1>4 DEF EpochsGrow
  <1> HIDE DEF h
  <1>6. /\ Len(view'[c]) = n + 1
        /\ view'[c][n + 1] = h
        /\ \A s \in 1..n : view'[c][s] = view[c][s]
        /\ \A x \in Clients : x # c => view'[x] = view[x]
    BY <1>1, <1>2, <1>3, GrownView
  <1>7. TypeOK'
    BY <1>1, <1>2, <1>3, GrownView DEF TypeOK
  <1>8. Linked' /\ EpochsGrow'
    BY <1>1, <1>2, <1>3, <1>5, GrowLinked
  <1>9. \A x \in Clients : \A s \in 1..Len(view'[x]) :
            s \in 1..Len(view[src(x)]) /\ view'[x][s] = view[src(x)][s]
    <2> SUFFICES ASSUME NEW x \in Clients, NEW s \in 1..Len(view'[x])
                 PROVE  s \in 1..Len(view[src(x)]) /\ view'[x][s] = view[src(x)][s]
      OBVIOUS
    <2>1. CASE x # c
      BY <2>1, <1>6
    <2>2. CASE x = c /\ s \in 1..n
      BY <2>2, <1>0, <1>4, <1>6
    <2>3. CASE x = c /\ s = n + 1
      BY <2>3, <1>1, <1>6 DEF h
    <2> QED BY <2>1, <2>2, <2>3, <1>0, <1>6
  <1>10. \A x \in Clients : src(x) \in Clients
    OBVIOUS
  <1> HIDE DEF src
  <1>11. HashesUsed'
    BY <1>3, <1>9, <1>10 DEF HashesUsed
  <1>12. OneOrigin'
    <2> SUFFICES ASSUME NEW x \in Clients, NEW y \in Clients,
                        NEW s \in 1..Len(view'[x]), NEW t \in 1..Len(view'[y]),
                        view'[x][s].hash = view'[y][t].hash
                 PROVE  s = t /\ \A u \in 1..s : view'[x][u] = view'[y][u]
      BY DEF OneOrigin
    <2>1. /\ s \in 1..Len(view[src(x)]) /\ view'[x][s] = view[src(x)][s]
          /\ t \in 1..Len(view[src(y)]) /\ view'[y][t] = view[src(y)][t]
      BY <1>9
    <2>2. s = t /\ \A u \in 1..s : view[src(x)][u] = view[src(y)][u]
      BY <2>1, <1>10 DEF OneOrigin
    <2>3. Len(view'[x]) \in Nat /\ Len(view'[y]) \in Nat
      BY <1>7 DEF TypeOK
    <2>4. \A u \in 1..s : u \in 1..Len(view'[x]) /\ u \in 1..Len(view'[y])
      BY <2>2, <2>3
    <2> QED BY <2>2, <2>4, <1>9
  <1> QED BY <1>7, <1>8, <1>11, <1>12

\* Every step keeps the invariant.
LEMMA NextIInv == IInv /\ [Next]_vars => IInv'
  <1> SUFFICES ASSUME IInv, [Next]_vars PROVE IInv'
    OBVIOUS
  <1>1. CASE Next
    BY <1>1, PushIInv, FetchIInv DEF Next
  <1>2. CASE UNCHANGED vars
    <2>1. view' = view /\ fresh' = fresh
      BY <1>2 DEF vars
    <2>2. TypeOK' /\ Linked'
      BY <2>1 DEF IInv, TypeOK, Linked
    <2>3. EpochsGrow' /\ HashesUsed'
      BY <2>1 DEF IInv, EpochsGrow, HashesUsed
    <2>4. OneOrigin'
      BY <2>1 DEF IInv, OneOrigin
    <2> QED BY <2>2, <2>3, <2>4 DEF IInv
  <1> QED BY <1>1, <1>2

-----------------------------------------------------------------------------
(* What compare_checkpoints computes on exported views. *)

\* The places of c's view at epoch W or later.
Held(c, W) == {s \in 1..Len(view[c]) : view[c][s].epoch >= W}

\* What an export holds.
LEMMA Export ==
    ASSUME NEW c \in Clients, NEW w, NEW A
    PROVE  LET a == FromHeadsWindowed(c, w, A) IN
           /\ a.window = w
           /\ DOMAIN a.chain = Held(c, w)
           /\ \A s \in Held(c, w) : a.chain[s] = view[c][s]
           /\ DOMAIN a.witness = A
           /\ \A e \in A : a.witness[e] = MacKey[c][e]
  BY DEF FromHeadsWindowed, Held

\* The heads of a window are the last ones of a view: epochs never decrease.
LEMMA HeldUpward ==
    ASSUME IInv, NEW c \in Clients, NEW W \in Nat, NEW s \in Held(c, W),
           NEW t \in 1..Len(view[c]), s <= t
    PROVE  t \in Held(c, W)
  <1>1. s \in 1..Len(view[c]) /\ s \in 1..t /\ view[c][s].epoch >= W
    BY DEF Held
  <1>2. view[c][s].epoch <= view[c][t].epoch
    BY <1>1 DEF IInv, EpochsGrow
  <1>3. view[c][s].epoch \in Nat /\ view[c][t].epoch \in Nat
    BY <1>1, EntryType DEF IInv
  <1> QED BY <1>1, <1>2, <1>3 DEF Held

\* A window is an interval of the view.
LEMMA HeldBetween ==
    ASSUME IInv, NEW c \in Clients, NEW W \in Nat, NEW s \in Nat
    PROVE  Between(Held(c, W), s) <=> s \in Held(c, W)
  <1>0. Held(c, W) \subseteq 1..Len(view[c]) /\ Len(view[c]) \in Nat
    BY DEF Held, IInv, TypeOK
  <1>1. ASSUME Between(Held(c, W), s) PROVE s \in Held(c, W)
    <2>1. PICK t \in Held(c, W) : t <= s
      BY <1>1 DEF Between
    <2>2. PICK u \in Held(c, W) : s <= u
      BY <1>1 DEF Between
    <2>3. s \in 1..Len(view[c])
      BY <1>0, <2>1, <2>2
    <2> QED BY <2>1, <2>3, HeldUpward
  <1>2. ASSUME s \in Held(c, W) PROVE Between(Held(c, W), s)
    BY <1>2 DEF Between
  <1> QED BY <1>1, <1>2

\* An export passes compare_checkpoints' own checks, whatever its window.
LEMMA ExportWellFormed ==
    ASSUME IInv, NEW c \in Clients, NEW w \in Epochs, NEW A
    PROVE  WellFormed(FromHeadsWindowed(c, w, A))
  <1> DEFINE a == FromHeadsWindowed(c, w, A)
  <1>0. w \in Nat /\ Len(view[c]) \in Nat
    BY ForkCompareAssumption DEF Epochs, IInv, TypeOK
  <1>1. /\ a.window = w
        /\ DOMAIN a.chain = Held(c, w)
        /\ \A s \in Held(c, w) : a.chain[s] = view[c][s]
    BY Export
  <1> HIDE DEF a
  <1>2. ChainInternallyValid(a.chain)
    <2> SUFFICES ASSUME NEW s \in Held(c, w), NEW t \in Held(c, w), s < t
                 PROVE  /\ s + 1 \in Held(c, w)
                        /\ a.chain[s + 1].prev = a.chain[s].hash
                        /\ a.chain[s + 1].epoch >= a.chain[s].epoch
      BY <1>1 DEF ChainInternallyValid
    <2>1. s \in 1..Len(view[c]) /\ t \in 1..Len(view[c])
      BY DEF Held
    <2>2. /\ s + 1 \in 1..Len(view[c]) /\ s + 1 # 1 /\ (s + 1) - 1 = s
          /\ s <= s + 1 /\ s \in 1..(s + 1)
      BY <2>1, <1>0
    <2>3. s + 1 \in Held(c, w)
      BY <2>2, <1>0, HeldUpward
    <2>4. view[c][s + 1].prev = view[c][s].hash
      BY <2>2 DEF IInv, Linked
    <2>5. view[c][s].epoch <= view[c][s + 1].epoch
      BY <2>2 DEF IInv, EpochsGrow
    <2>6. view[c][s].epoch \in Nat /\ view[c][s + 1].epoch \in Nat
      BY <2>1, <2>2, EntryType DEF IInv
    <2> QED BY <2>3, <2>4, <2>5, <2>6, <1>1
  <1>3. \A s \in DOMAIN a.chain : a.chain[s].epoch >= a.window
    BY <1>1 DEF Held
  <1> QED BY <1>2, <1>3 DEF WellFormed, a

\* The later of two windows.
Later(w, v) == IF w > v THEN w ELSE v

\* The later of two windows is one.
LEMMA LaterIs ==
    ASSUME NEW w \in Epochs, NEW v \in Epochs
    PROVE  Later(w, v) \in Nat /\ w <= Later(w, v) /\ v <= Later(w, v) /\ Later(w, v) \in Epochs
  BY ForkCompareAssumption DEF Later, Epochs

\* The projection of an export is what the client holds of the shared window.
LEMMA ProjectionIs ==
    ASSUME IInv, NEW c \in Clients, NEW w \in Epochs, NEW A, NEW W \in Nat, w <= W
    PROVE  Projection(FromHeadsWindowed(c, w, A).chain, W) = Held(c, W)
  <1> DEFINE a == FromHeadsWindowed(c, w, A)
  <1>1. /\ DOMAIN a.chain = Held(c, w)
        /\ \A s \in Held(c, w) : a.chain[s] = view[c][s]
    BY Export
  <1>2. w \in Nat
    BY ForkCompareAssumption DEF Epochs
  <1>3. \A s \in 1..Len(view[c]) : view[c][s].epoch \in Nat
    BY EntryType DEF IInv
  <1> HIDE DEF a
  <1>4. Held(c, W) \subseteq Held(c, w)
    BY <1>2, <1>3 DEF Held
  <1>5. Projection(a.chain, W) = {s \in Held(c, w) : view[c][s].epoch >= W}
    BY <1>1 DEF Projection
  <1>6. {s \in Held(c, w) : view[c][s].epoch >= W} = Held(c, W)
    BY <1>4 DEF Held
  <1> QED BY <1>5, <1>6 DEF a

KeysClash(c, d, A, B) == \E e \in A \cap B : MacKey[c][e] # MacKey[d][e]
Both(c, d, W) == Held(c, W) \cap Held(d, W)
Differ(c, d, s) == view[c][s] # view[d][s]
Reaches(c, d, W) == \E s \in Held(c, W) : \A t \in Held(d, W) : t < s

\* The parts of a comparison in terms of the two views.
LEMMA CompareParts ==
    ASSUME IInv, NEW c \in Clients, NEW d \in Clients, NEW w \in Epochs, NEW v \in Epochs,
           NEW A \in SUBSET Epochs, NEW B \in SUBSET Epochs
    PROVE  LET a == FromHeadsWindowed(c, w, A)
               b == FromHeadsWindowed(d, v, B)
               W == Later(w, v) IN
           /\ WitnessClash(a, b) <=> KeysClash(c, d, A, B)
           /\ SharedSeqs(a, b) = Both(c, d, W)
           /\ \A s \in Both(c, d, W) : Agree(a, b, s) <=> ~Differ(c, d, s)
           /\ Ahead(a, b) <=> Reaches(c, d, W)
           /\ Ahead(b, a) <=> Reaches(d, c, W)
           /\ SharedWindow(a, b) = W
  <1> DEFINE a == FromHeadsWindowed(c, w, A)
             b == FromHeadsWindowed(d, v, B)
             W == Later(w, v)
  <1>0. w \in Nat /\ v \in Nat
    BY ForkCompareAssumption DEF Epochs
  <1>1. W \in Nat /\ w <= W /\ v <= W
    BY LaterIs
  <1>2. /\ a.window = w /\ b.window = v
        /\ DOMAIN a.chain = Held(c, w) /\ DOMAIN b.chain = Held(d, v)
        /\ \A s \in Held(c, w) : a.chain[s] = view[c][s]
        /\ \A s \in Held(d, v) : b.chain[s] = view[d][s]
    BY Export
  <1>3. /\ DOMAIN a.witness = A /\ DOMAIN b.witness = B
        /\ \A e \in A : a.witness[e] = MacKey[c][e]
        /\ \A e \in B : b.witness[e] = MacKey[d][e]
    BY Export
  <1>4. Projection(a.chain, W) = Held(c, W) /\ Projection(b.chain, W) = Held(d, W)
    BY <1>1, ProjectionIs
  <1> HIDE DEF a, b
  <1>5. SharedWindow(a, b) = W /\ SharedWindow(b, a) = W
    BY <1>0, <1>2 DEF SharedWindow, Later
  <1> HIDE DEF W
  <1>6. WitnessClash(a, b) <=> KeysClash(c, d, A, B)
    BY <1>3 DEF WitnessClash, KeysClash
  <1>7. SharedSeqs(a, b) = Both(c, d, W)
    <2>1. SharedSeqs(a, b) = {s \in Seqs : Between(Held(c, W), s) /\ Between(Held(d, W), s)}
      BY <1>4, <1>5 DEF SharedSeqs
    <2>2. Seqs \subseteq Nat /\ Held(c, W) \subseteq Seqs
      BY ForkCompareAssumption DEF Seqs, Held, IInv, TypeOK
    <2>3. \A s \in Seqs : /\ Between(Held(c, W), s) <=> s \in Held(c, W)
                          /\ Between(Held(d, W), s) <=> s \in Held(d, W)
      BY <2>2, <1>1, HeldBetween
    <2> QED BY <2>1, <2>2, <2>3 DEF Both
  <1>8. ASSUME NEW s \in Both(c, d, W)
        PROVE  Agree(a, b, s) <=> ~Differ(c, d, s)
    <2>1. s \in Held(c, W) /\ s \in Held(d, W)
      BY DEF Both
    <2>2. s \in DOMAIN a.chain /\ s \in DOMAIN b.chain
      BY <2>1, <1>4 DEF Projection
    <2>3. a.chain[s] = view[c][s] /\ b.chain[s] = view[d][s]
      BY <2>2, <1>2
    <2>4. s \in 1..Len(view[c]) /\ s \in 1..Len(view[d]) /\ s \in 1..s
      BY <2>1 DEF Held
    <2>5. view[c][s].hash = view[d][s].hash => view[c][s] = view[d][s]
      BY <2>4 DEF IInv, OneOrigin
    <2> QED BY <2>1, <2>3, <2>5, <1>4, <1>5 DEF Agree, Differ
  <1>9. /\ Ahead(a, b) <=> Reaches(c, d, W)
        /\ Ahead(b, a) <=> Reaches(d, c, W)
    BY <1>4, <1>5 DEF Ahead, Reaches
  <1> QED BY <1>5, <1>6, <1>7, <1>8, <1>9 DEF a, b, W

\* Two epochs of equal span without a divergent head have equal commitments.
LEMMA NoCommitmentClash ==
    ASSUME IInv, NEW c \in Clients, NEW d \in Clients, NEW w \in Epochs, NEW v \in Epochs,
           NEW A, NEW B,
           \A s \in Both(c, d, Later(w, v)) : ~Differ(c, d, s)
    PROVE  ~CommitmentClash(FromHeadsWindowed(c, w, A), FromHeadsWindowed(d, v, B))
  <1> DEFINE a == FromHeadsWindowed(c, w, A)
             b == FromHeadsWindowed(d, v, B)
             W == Later(w, v)
  <1>0. w \in Nat /\ v \in Nat /\ Epochs \subseteq Nat
    BY ForkCompareAssumption DEF Epochs
  <1>1. W \in Nat /\ w <= W /\ v <= W
    BY LaterIs
  <1>2. /\ a.window = w /\ b.window = v
        /\ DOMAIN a.chain = Held(c, w) /\ DOMAIN b.chain = Held(d, v)
        /\ \A s \in Held(c, w) : a.chain[s] = view[c][s]
        /\ \A s \in Held(d, v) : b.chain[s] = view[d][s]
    BY Export
  <1> HIDE DEF a, b
  <1>3. SharedWindow(a, b) = W
    BY <1>0, <1>2 DEF SharedWindow, Later
  <1>4. \A s \in Both(c, d, W) : ~Differ(c, d, s)
    OBVIOUS
  <1> HIDE DEF W
  <1> SUFFICES ASSUME NEW e \in Epochs, e >= W,
                      SameSpan(EpochEntries(a.chain, e), EpochEntries(b.chain, e))
               PROVE  {<<s, a.chain[s].hash>> : s \in EpochEntries(a.chain, e)}
                        = {<<s, b.chain[s].hash>> : s \in EpochEntries(b.chain, e)}
    BY <1>3 DEF CommitmentClash, a, b
  <1> DEFINE At(x) == {s \in 1..Len(view[x]) : view[x][s].epoch = e}
  <1>5. EpochEntries(a.chain, e) = At(c) /\ EpochEntries(b.chain, e) = At(d)
    <2>1. At(c) \subseteq Held(c, w) /\ At(d) \subseteq Held(d, v)
      BY <1>0, <1>1 DEF Held
    <2>2. EpochEntries(a.chain, e) = {s \in Held(c, w) : view[c][s].epoch = e}
      BY <1>2 DEF EpochEntries
    <2>3. EpochEntries(b.chain, e) = {s \in Held(d, v) : view[d][s].epoch = e}
      BY <1>2 DEF EpochEntries
    <2> QED BY <2>1, <2>2, <2>3 DEF Held
  <1>6. \A x \in Clients, s \in Nat : Between(At(x), s) => s \in At(x)
    <2> SUFFICES ASSUME NEW x \in Clients, NEW s \in Nat, Between(At(x), s) PROVE s \in At(x)
      OBVIOUS
    <2>1. PICK t \in At(x) : t <= s
      BY DEF Between
    <2>2. PICK u \in At(x) : s <= u
      BY DEF Between
    <2>3. Len(view[x]) \in Nat
      BY DEF IInv, TypeOK
    <2>4. s \in 1..Len(view[x]) /\ t \in 1..s /\ s \in 1..u /\ u \in 1..Len(view[x])
      BY <2>1, <2>2, <2>3
    <2>5. view[x][t].epoch <= view[x][s].epoch /\ view[x][s].epoch <= view[x][u].epoch
      BY <2>4 DEF IInv, EpochsGrow
    <2>6. view[x][s].epoch \in Nat
      BY <2>4, EntryType DEF IInv
    <2>7. view[x][t].epoch = e /\ view[x][u].epoch = e
      BY <2>1, <2>2
    <2>8. view[x][s].epoch = e
      BY <2>5, <2>6, <2>7, <1>0
    <2> QED BY <2>4, <2>8
  <1>7. At(c) \subseteq Nat /\ At(d) \subseteq Nat
    OBVIOUS
  <1> HIDE DEF At
  <1>8. At(c) = At(d)
    <2>1. At(c) \subseteq At(d)
      BY <1>5, <1>6, <1>7 DEF SameSpan
    <2>2. At(d) \subseteq At(c)
      BY <1>5, <1>6, <1>7 DEF SameSpan
    <2> QED BY <2>1, <2>2
  <1>9. \A s \in At(c) : a.chain[s].hash = b.chain[s].hash
    <2> SUFFICES ASSUME NEW s \in At(c) PROVE a.chain[s].hash = b.chain[s].hash
      OBVIOUS
    <2>1. s \in DOMAIN a.chain /\ s \in DOMAIN b.chain
      BY <1>5, <1>8 DEF EpochEntries
    <2>2. a.chain[s] = view[c][s] /\ b.chain[s] = view[d][s]
      BY <2>1, <1>2
    <2>3. s \in Both(c, d, W)
      BY <1>8 DEF At, Both, Held
    <2> QED BY <2>2, <2>3, <1>4 DEF Differ
  <1> QED BY <1>5, <1>8, <1>9

\* compare_checkpoints in terms of the two views.
Simple(c, d, W, A, B) ==
    IF KeysClash(c, d, A, B) THEN "forked: witness"
    ELSE IF Both(c, d, W) = {} THEN "disjoint"
    ELSE IF \E s \in Both(c, d, W) : Differ(c, d, s) THEN "forked: head"
    ELSE IF Reaches(c, d, W) THEN "ahead: A"
    ELSE IF Reaches(d, c, W) THEN "ahead: B"
    ELSE "consistent"

VerdictsSimple ==
    \A c, d \in Clients, w, v \in Epochs, A, B \in SUBSET Epochs :
        Verdict(c, d, w, v, A, B) = Simple(c, d, Later(w, v), A, B)

\* compare_checkpoints on two exports compares the views in their common window.
LEMMA VerdictIs == IInv => VerdictsSimple
  <1> SUFFICES ASSUME IInv, NEW c \in Clients, NEW d \in Clients,
                      NEW w \in Epochs, NEW v \in Epochs,
                      NEW A \in SUBSET Epochs, NEW B \in SUBSET Epochs
               PROVE  Verdict(c, d, w, v, A, B) = Simple(c, d, Later(w, v), A, B)
    BY DEF VerdictsSimple
  <1> DEFINE a == FromHeadsWindowed(c, w, A)
             b == FromHeadsWindowed(d, v, B)
             W == Later(w, v)
  <1>1. WellFormed(a) /\ WellFormed(b)
    BY ExportWellFormed
  <1>2. /\ WitnessClash(a, b) <=> KeysClash(c, d, A, B)
        /\ SharedSeqs(a, b) = Both(c, d, W)
        /\ \A s \in Both(c, d, W) : Agree(a, b, s) <=> ~Differ(c, d, s)
        /\ Ahead(a, b) <=> Reaches(c, d, W)
        /\ Ahead(b, a) <=> Reaches(d, c, W)
    BY CompareParts
  <1>3. (\A s \in Both(c, d, W) : ~Differ(c, d, s)) => ~CommitmentClash(a, b)
    BY NoCommitmentClash
  <1>4. Verdict(c, d, w, v, A, B) = CompareCheckpoints(a, b)
    BY DEF Verdict
  <1> HIDE DEF a, b, W
  <1>5. CompareCheckpoints(a, b) = Simple(c, d, W, A, B)
    BY <1>1, <1>2, <1>3 DEF CompareCheckpoints, Simple
  <1> QED BY <1>4, <1>5 DEF W

-----------------------------------------------------------------------------
(* The properties in a state *)

\* The commitments are looked at only after the heads agree.
LEMMA CommitmentState == IInv => CommitmentNeverDecides
  BY VerdictIs DEF VerdictsSimple, Simple, CommitmentNeverDecides

\* Two views that agree on a head both hold in the window have one origin.
LEMMA AgreementState == IInv => AgreementReachesBack
  <1> SUFFICES ASSUME IInv, NEW c \in Clients, NEW d \in Clients,
                      NEW w \in Epochs, NEW v \in Epochs,
                      NEW A \in SUBSET Epochs, NEW B \in SUBSET Epochs,
                      Verdict(c, d, w, v, A, B) \in Agreement
               PROVE  Comparable(c, d)
    BY DEF AgreementReachesBack
  <1> DEFINE W == Later(w, v)
             n == Len(view[c])
             m == Len(view[d])
  <1>0. W \in Nat /\ n \in Nat /\ m \in Nat
    BY LaterIs DEF IInv, TypeOK
  <1>1. /\ Both(c, d, W) # {}
        /\ \A s \in Both(c, d, W) : ~Differ(c, d, s)
    BY VerdictIs DEF VerdictsSimple, Simple, Agreement
  <1> HIDE DEF W
  <1>2. PICK s : s \in Held(c, W) /\ s \in Held(d, W)
    BY <1>1 DEF Both
  <1>3. s \in 1..n /\ s \in 1..m
    BY <1>2 DEF Held
  <1>4. ASSUME NEW k \in 1..n, k \in 1..m, s <= k
        PROVE  \A u \in 1..k : view[c][u] = view[d][u]
    <2>1. k \in Held(c, W) /\ k \in Held(d, W)
      BY <1>0, <1>2, <1>4, HeldUpward
    <2>2. view[c][k] = view[d][k]
      BY <2>1, <1>1 DEF Both, Differ
    <2> QED BY <2>2, <1>4 DEF IInv, OneOrigin
  <1>5. CASE m <= n
    <2>1. m \in 1..n /\ m \in 1..m /\ s <= m
      BY <1>0, <1>3, <1>5
    <2> QED BY <2>1, <1>4, <1>5 DEF Comparable, Extends
  <1>6. CASE n <= m
    <2>1. n \in 1..n /\ n \in 1..m /\ s <= n
      BY <1>0, <1>3, <1>6
    <2> QED BY <2>1, <1>4, <1>6 DEF Comparable, Extends
  <1> QED BY <1>0, <1>5, <1>6

\* Full histories share every place up to the shorter one's end.
LEMMA SplitState == IInv => SplitDetected
  <1> SUFFICES ASSUME IInv, NEW c \in Clients, NEW d \in Clients,
                      NEW A \in SUBSET Epochs, NEW B \in SUBSET Epochs, ~Comparable(c, d)
               PROVE  Verdict(c, d, 0, 0, A, B) \in Forked
    BY DEF SplitDetected
  <1>0. /\ Len(view[c]) \in Nat /\ Len(view[d]) \in Nat
        /\ 0 \in Epochs /\ Later(0, 0) = 0
    BY ForkCompareAssumption DEF IInv, TypeOK, Epochs, Later
  <1>1. Verdict(c, d, 0, 0, A, B) = Simple(c, d, 0, A, B)
    BY <1>0, VerdictIs DEF VerdictsSimple
  <1>2. Verdict(c, d, 0, 0, A, B) \notin Agreement
    BY <1>0, AgreementState DEF AgreementReachesBack
  <1>3. 1 \in 1..Len(view[c]) /\ 1 \in 1..Len(view[d])
    BY <1>0 DEF Comparable, Extends
  <1>4. view[c][1].epoch \in Nat /\ view[d][1].epoch \in Nat
    BY <1>3, EntryType DEF IInv
  <1>5. 1 \in Both(c, d, 0)
    BY <1>3, <1>4 DEF Both, Held
  <1> QED BY <1>1, <1>2, <1>5 DEF Simple, Forked, Agreement

\* One history, exported twice, compares as what it is.
LEMMA HonestState == IInv => HonestViewsAgree
  <1> SUFFICES ASSUME IInv, NEW c \in Clients, NEW d \in Clients,
                      NEW w \in Epochs, NEW v \in Epochs,
                      NEW A \in SUBSET Epochs, NEW B \in SUBSET Epochs,
                      Extends(c, d), MacKey[c] = MacKey[d]
               PROVE  Verdict(c, d, w, v, A, B) =
                        IF ~InWindow(d, Later(w, v)) THEN "disjoint"
                        ELSE IF Len(view[c]) > Len(view[d]) THEN "ahead: A" ELSE "consistent"
    BY DEF HonestViewsAgree, Later
  <1> DEFINE W == Later(w, v)
             n == Len(view[c])
             m == Len(view[d])
  <1>0. W \in Nat /\ n \in Nat /\ m \in Nat /\ m <= n
    BY LaterIs DEF IInv, TypeOK, Extends
  <1>1. Verdict(c, d, w, v, A, B) = Simple(c, d, W, A, B)
    BY VerdictIs DEF VerdictsSimple
  <1> HIDE DEF W
  <1>2. ~KeysClash(c, d, A, B)
    BY DEF KeysClash
  <1>3. \A s \in 1..m : view[c][s] = view[d][s] /\ s \in 1..n
    BY <1>0 DEF Extends
  <1>4. Both(c, d, W) = Held(d, W)
    BY <1>3 DEF Both, Held
  <1>5. \A s \in Both(c, d, W) : ~Differ(c, d, s)
    BY <1>3 DEF Both, Held, Differ
  <1>6. CASE ~InWindow(d, W)
    <2>1. Held(d, W) = {}
      <3> SUFFICES ASSUME NEW s \in Held(d, W) PROVE FALSE
        OBVIOUS
      <3>1. s \in 1..m /\ m \in 1..m /\ s <= m
        BY <1>0 DEF Held
      <3>2. m \in Held(d, W)
        BY <1>0, <3>1, HeldUpward
      <3>3. view[d] # <<>> /\ view[d][m].epoch >= W
        BY <3>1, <3>2 DEF Held
      <3> QED BY <3>3, <1>6 DEF InWindow
    <2> QED BY <2>1, <1>1, <1>2, <1>4, <1>6 DEF Simple, W
  <1>7. CASE InWindow(d, W)
    <2>1. m \in Held(d, W) /\ m \in 1..m
      BY <1>7, <1>0 DEF InWindow, Held, IInv, TypeOK
    <2>2. ~Reaches(d, c, W)
      <3> SUFFICES ASSUME NEW s \in Held(d, W), \A t \in Held(c, W) : t < s PROVE FALSE
        BY DEF Reaches
      <3>1. s \in Held(c, W)
        BY <1>4 DEF Both
      <3> QED BY <3>1, <1>0 DEF Held
    <2>3. Reaches(c, d, W) <=> n > m
      <3>1. ASSUME n > m PROVE Reaches(c, d, W)
        <4>1. n \in 1..n /\ m \in 1..n /\ m <= n
          BY <1>0, <2>1
        <4>2. n \in Held(c, W)
          BY <4>1, <2>1, <1>0, <1>4, HeldUpward DEF Both
        <4>3. \A t \in Held(d, W) : t < n
          BY <3>1, <1>0 DEF Held
        <4> QED BY <4>2, <4>3 DEF Reaches
      <3>2. ASSUME Reaches(c, d, W) PROVE n > m
        <4>1. PICK s \in Held(c, W) : \A t \in Held(d, W) : t < s
          BY <3>2 DEF Reaches
        <4>2. m < s /\ s \in 1..n
          BY <4>1, <2>1 DEF Held
        <4> QED BY <4>2, <1>0
      <3> QED BY <3>1, <3>2
    <2> QED BY <2>1, <2>2, <2>3, <1>1, <1>2, <1>4, <1>5, <1>7 DEF Simple, W
  <1> QED BY <1>6, <1>7 DEF W

-----------------------------------------------------------------------------
(* Steps only add to a view *)

ViewsGrow ==
    \A c \in Clients : /\ Len(view[c]) <= Len(view'[c])
                       /\ \A s \in 1..Len(view[c]) : view'[c][s] = view[c][s]

\* A view that grows keeps what it has.
LEMMA GrowsGrow ==
    ASSUME TypeOK, NEW c \in Clients, NEW h \in ChainEntry, Grows(c, h)
    PROVE  ViewsGrow
  <1> SUFFICES ASSUME NEW x \in Clients
               PROVE  /\ Len(view[x]) <= Len(view'[x])
                      /\ \A s \in 1..Len(view[x]) : view'[x][s] = view[x][s]
    BY DEF ViewsGrow
  <1>1. view[x] \in Seq(ChainEntry) /\ Len(view[x]) \in Nat
    BY DEF TypeOK
  <1>2. view'[x] = IF x = c THEN Append(view[x], h) ELSE view[x]
    BY DEF TypeOK, Grows
  <1> QED BY <1>1, <1>2

\* Every step only adds to views.
LEMMA NextGrows == IInv /\ [Next]_vars => ViewsGrow
  <1> SUFFICES ASSUME IInv, [Next]_vars PROVE ViewsGrow
    OBVIOUS
  <1>0. TypeOK
    BY DEF IInv
  <1>1. ASSUME NEW c \in Clients, NEW e \in Epochs, Push(c, e) PROVE ViewsGrow
    <2>1. TipHash(view[c]) \in 0..MaxHash
      <3>1. CASE Len(view[c]) = 0
        BY <3>1, <1>0, TipHashIs, ForkCompareAssumption DEF ZeroHash
      <3>2. CASE Len(view[c]) # 0
        <4>1. Len(view[c]) \in 1..Len(view[c])
          BY <3>2, <1>0 DEF TypeOK
        <4> QED BY <4>1, <3>2, <1>0, TipHashIs, EntryType
      <3> QED BY <3>1, <3>2
    <2>2. [hash |-> fresh, prev |-> TipHash(view[c]), epoch |-> e] \in ChainEntry
      BY <2>1, <1>0, <1>1, ForkCompareAssumption DEF Push, TypeOK, ChainEntry
    <2> QED BY <2>2, <1>0, <1>1, GrowsGrow DEF Push, Grows
  <1>2. ASSUME NEW c \in Clients, NEW d \in Clients, Fetch(c, d) PROVE ViewsGrow
    <2>1. Len(view[c]) + 1 \in 1..Len(view[d])
      BY <1>0, <1>2 DEF Fetch, TypeOK
    <2>2. view[d][Len(view[c]) + 1] \in ChainEntry
      BY <2>1, <1>0, EntryType
    <2> QED BY <2>2, <1>0, <1>2, GrowsGrow DEF Fetch, Grows
  <1>3. CASE UNCHANGED vars
    BY <1>0, <1>3 DEF vars, ViewsGrow, TypeOK
  <1> QED BY <1>1, <1>2, <1>3 DEF Next

\* A divergent head inside the shared window stays where it is.
LEMMA ForkStays ==
    ASSUME IInv, IInv', VerdictsSimple, VerdictsSimple', [Next]_vars,
           NEW c \in Clients, NEW d \in Clients, NEW w \in Epochs, NEW v \in Epochs,
           NEW A \in SUBSET Epochs, NEW B \in SUBSET Epochs,
           Verdict(c, d, w, v, A, B) \in Forked
    PROVE  Verdict(c, d, w, v, A, B)' \in Forked
  <1> DEFINE W == Later(w, v)
  <1>1. Simple(c, d, W, A, B) \in Forked
    BY DEF VerdictsSimple
  <1>2. Verdict(c, d, w, v, A, B)' = Simple(c, d, W, A, B)'
    BY DEF VerdictsSimple
  <1> HIDE DEF W
  <1>3. CASE KeysClash(c, d, A, B)
    <2>1. KeysClash(c, d, A, B)'
      BY <1>3 DEF KeysClash
    <2> QED BY <2>1, <1>2 DEF Simple, Forked
  <1>4. CASE \E s \in Both(c, d, W) : Differ(c, d, s)
    <2>1. PICK s \in Both(c, d, W) : Differ(c, d, s)
      BY <1>4
    <2>2. /\ s \in 1..Len(view[c]) /\ view[c][s].epoch >= W
          /\ s \in 1..Len(view[d]) /\ view[d][s].epoch >= W
      BY DEF Both, Held
    <2>3. ViewsGrow
      BY NextGrows
    <2>4. /\ Len(view[c]) \in Nat /\ Len(view'[c]) \in Nat
          /\ Len(view[d]) \in Nat /\ Len(view'[d]) \in Nat
      BY DEF IInv, TypeOK
    <2>5. /\ s \in 1..Len(view'[c]) /\ view'[c][s] = view[c][s]
          /\ s \in 1..Len(view'[d]) /\ view'[d][s] = view[d][s]
      BY <2>2, <2>3, <2>4 DEF ViewsGrow
    <2>6. s \in Both(c, d, W)' /\ Differ(c, d, s)'
      BY <2>1, <2>2, <2>5 DEF Both, Held, Differ
    <2>7. Simple(c, d, W, A, B)' \in {"forked: witness", "forked: head"}
      BY <2>6 DEF Simple
    <2> QED BY <2>7, <1>2 DEF Forked
  <1> QED BY <1>1, <1>3, <1>4 DEF Simple, Forked

-----------------------------------------------------------------------------
\* Every reachable state is well typed (the views verify_head_chain lets grow).
THEOREM TypeCorrect == Spec => []TypeOK
  <1>1. IInv => TypeOK
    BY DEF IInv
  <1> QED BY <1>1, InitIInv, NextIInv, PTL DEF Spec

\* compare_checkpoints never takes two views of one history for a fork, whatever the
\* windows, the lag and the attached witnesses.
THEOREM HonestSafe == Spec => []HonestViewsAgree
  BY InitIInv, NextIInv, HonestState, PTL DEF Spec

\* If compare_checkpoints finds agreement in a window, the whole histories agree.
THEOREM AgreementSafe == Spec => []AgreementReachesBack
  BY InitIInv, NextIInv, AgreementState, PTL DEF Spec

\* compare_checkpoints reports every split between two full histories.
THEOREM SplitSafe == Spec => []SplitDetected
  BY InitIInv, NextIInv, SplitState, PTL DEF Spec

\* The commitments of epoch_commitments never decide a comparison of exports.
THEOREM CommitmentSafe == Spec => []CommitmentNeverDecides
  BY InitIInv, NextIInv, CommitmentState, PTL DEF Spec

\* Two views that compare_checkpoints reports as forked are so for ever.
THEOREM ForkSafe == Spec => ForkedForEver
  <1>1. IInv /\ IInv' /\ VerdictsSimple /\ VerdictsSimple' /\ [Next]_vars =>
            [\A c, d \in Clients, w, v \in Epochs, A, B \in SUBSET Epochs :
               Verdict(c, d, w, v, A, B) \in Forked =>
                   Verdict(c, d, w, v, A, B)' \in Forked]_vars
    BY ForkStays
  <1> QED BY <1>1, InitIInv, NextIInv, VerdictIs, PTL DEF Spec, ForkedForEver

-----------------------------------------------------------------------------
(* Heads that a host serves, and receipts *)

USE ForkCompareAssumption, ConsolidateAssumption

\* A set of numbers that is not empty has a smallest one.
LEMMA MinIn ==
  ASSUME NEW S, S # {}, \A x \in S : x \in Nat
  PROVE  Min(S) \in S /\ \A y \in S : Min(S) <= y
<1>1. \E x \in S : \A y \in S : ~(<<y, x>> \in OpToRel(<, Nat))
  BY NatLessThanWellFounded, WFMin, Zenon
<1>2. PICK x \in S : \A y \in S : ~(y < x)
  BY <1>1 DEF OpToRel
<1>3. x \in S /\ \A y \in S : x <= y
  BY <1>2
<1> QED
  BY <1>3 DEF Min

\* A set of numbers that is bounded and not empty has a largest one.
LEMMA MaxIn ==
  ASSUME NEW n \in Nat, NEW S \in SUBSET (1..n), S # {}
  PROVE  Max(S) \in S /\ \A k \in S : k <= Max(S)
<1> DEFINE T == {n - i : i \in S}
<1>0. \A i \in S : i \in 1..n /\ n - i \in Nat
  OBVIOUS
<1>1. T # {} /\ \A x \in T : x \in Nat
  BY <1>0
<1>2. PICK x \in T : \A y \in T : x <= y
  <2> HIDE DEF T
  <2> QED
    BY <1>1, MinIn
<1>3. PICK i \in S : x = n - i
  OBVIOUS
<1>4. \A k \in S : k <= i
  <2> TAKE k \in S
  <2>1. n - i <= n - k
    BY <1>2, <1>3
  <2> QED
    BY <2>1
<1>5. i \in S /\ \A k \in S : i >= k
  BY <1>4
<1> QED
  BY <1>5 DEF Max

\* A listing of heads of the group, each at its own place.
Served(heads) ==
    /\ DOMAIN heads \in SUBSET (1..MaxSeq)
    /\ \A s \in DOMAIN heads : heads[s] \in Known(s)

\* Each head of a listing is in the view of some client, linked to the one below it.
LEMMA Owner ==
  ASSUME IInv, NEW s, NEW h \in Known(s)
  PROVE  \E d \in Clients : Len(view[d]) >= s /\ view[d][s] = h
BY DEF Known

\* Views are no longer than the bound.
LEMMA LenNat ==
  ASSUME IInv
  PROVE  \A c \in Clients : Len(view[c]) \in Nat /\ Len(view[c]) <= MaxSeq
<1> TAKE c \in Clients
<1>1. view[c] \in Seq(ChainEntry)
  BY DEF IInv, TypeOK
<1> QED
  BY <1>1 DEF IInv, TypeOK

\* A head is followed by its successor in the history that it belongs to.
LEMMA Successor ==
  ASSUME IInv, NEW c \in Clients, NEW d \in Clients,
         NEW s \in 1..Len(view[c]), NEW t \in 1..Len(view[d]),
         view[d][t].prev = view[c][s].hash
  PROVE  t = s + 1 /\ \A u \in 1..s : view[d][u] = view[c][u]
<1>1. view[c][s].hash \in 1..MaxHash
  BY EntryType DEF IInv
<1>2. t # 1
  <2> SUFFICES ASSUME t = 1 PROVE FALSE
    OBVIOUS
  <2>1. view[d][t].prev = ZeroHash
    BY DEF IInv, Linked
  <2> QED
    BY <1>1, <2>1 DEF ZeroHash
<1>3. Len(view[d]) \in Nat /\ Len(view[c]) \in Nat
  BY LenNat
<1>4. t - 1 \in 1..Len(view[d])
  BY <1>2, <1>3
<1>5. view[d][t - 1].hash = view[c][s].hash
  BY <1>2 DEF IInv, Linked
<1>6. t - 1 = s /\ \A u \in 1..(t - 1) : view[d][u] = view[c][u]
  BY <1>4, <1>5 DEF IInv, OneOrigin
<1> QED
  BY <1>3, <1>6

\* Heads without a gap, each naming the one before it, are a run of one history: that of
\* the last of them.
LEMMA RunIsOne ==
  ASSUME IInv, NEW heads, Served(heads), RepoVerify(heads), Clients # {}
  PROVE  \E d \in Clients : Holds(d, heads)
<1> DEFINE D == DOMAIN heads
<1>0. MaxSeq \in Nat /\ D \in SUBSET (1..MaxSeq) /\ \A s \in D : heads[s] \in Known(s)
  BY DEF Served
<1>1. CASE D = {}
  BY <1>1 DEF Holds
<1>2. CASE D # {}
  <2>1. PICK m \in D : \A s \in D : s <= m
    BY <1>0, <1>2, MaxIn
  <2>2. PICK d \in Clients : Len(view[d]) >= m /\ view[d][m] = heads[m]
    BY <1>0, Owner
  <2>3. Len(view[d]) \in Nat
    BY LenNat
  <2> DEFINE Bad == {s \in D : view[d][s] # heads[s]}
  <2>4. CASE Bad = {}
    <3>1. \A s \in D : s <= Len(view[d]) /\ view[d][s] = heads[s]
      BY <1>0, <2>1, <2>2, <2>3, <2>4
    <3> QED
      BY <3>1 DEF Holds
  <2>5. CASE Bad # {}
    <3>1. PICK s \in Bad : \A x \in Bad : x <= s
      <4>1. Bad \in SUBSET (1..MaxSeq)
        BY <1>0
      <4> HIDE DEF Bad
      <4> QED
        BY <1>0, <2>5, <4>1, MaxIn
    <3>2. s \in D /\ s # m /\ s <= m /\ s \in Nat /\ m \in Nat
      BY <1>0, <2>1, <2>2
    <3> DEFINE Above == {t \in D : t > s}
    <3>3. PICK t \in Above : \A x \in Above : t <= x
      <4>1. Above # {} /\ \A x \in Above : x \in Nat
        BY <1>0, <2>1, <3>2
      <4> HIDE DEF Above
      <4> QED
        BY <4>1, MinIn
    <3>4. t \in D /\ t > s /\ t \in Nat /\ t <= m
      BY <1>0, <2>1, <3>3
    <3>5. Below(heads, t) \in SUBSET (1..MaxSeq) /\ s \in Below(heads, t)
      BY <1>0, <3>2, <3>4 DEF Below
    <3>6. Max(Below(heads, t)) \in Below(heads, t) /\ s <= Max(Below(heads, t))
      BY <1>0, <3>5, MaxIn
    <3>7. Max(Below(heads, t)) = s
      <4>1. PICK b : b = Max(Below(heads, t))
        OBVIOUS
      <4>2. b \in D /\ b < t /\ b \in Nat /\ s <= b
        BY <1>0, <3>6, <4>1 DEF Below
      <4>3. ~(b > s)
        BY <3>3, <3>4, <4>2
      <4> QED
        BY <3>2, <4>1, <4>2, <4>3
    <3>8. heads[t].prev = heads[s].hash
      BY <3>4, <3>5, <3>7 DEF RepoVerify
    <3>9. view[d][t] = heads[t]
      BY <3>1, <3>2, <3>4
    <3>10. PICK e \in Clients : Len(view[e]) >= s /\ view[e][s] = heads[s]
      BY <1>0, <3>2, Owner
    <3>11. Len(view[e]) \in Nat /\ s \in 1..Len(view[e]) /\ t \in 1..Len(view[d])
      BY <1>0, <2>2, <2>3, <3>2, <3>4, <3>10, LenNat
    <3>12. view[d][s] = view[e][s]
      BY <3>8, <3>9, <3>10, <3>11, Successor
    <3> QED
      BY <3>1, <3>10, <3>12
  <2> QED
    BY <2>4, <2>5
<1> QED
  BY <1>1, <1>2

-----------------------------------------------------------------------------
\* The listings of a host are of heads of the group.
LEMMA ListingServed ==
  ASSUME NEW n \in Nat, NEW listing \in Listings(n + 1, MaxSeq)
  PROVE  Served(listing) /\ \A s \in DOMAIN listing : s > n
<1>1. PICK S \in SUBSET ((n + 1)..MaxSeq) :
        listing \in {f \in [S -> UNION {Known(s) : s \in S}] : \A s \in S : f[s] \in Known(s)}
  BY DEF Listings
<1>2. DOMAIN listing = S /\ \A s \in S : listing[s] \in Known(s)
  BY <1>1
<1> QED
  BY <1>1, <1>2 DEF Served

\* The anchor of a reader is a hash, and never the mark for none.
LEMMA AnchorIsHash ==
  ASSUME IInv, NEW c \in Clients, NEW n \in 0..Len(view[c])
  PROVE  AnchorAt(c, n) # NoAnchor
<1>1. CASE n = 0
  BY <1>1 DEF AnchorAt, ZeroHash, NoAnchor
<1>2. CASE n # 0
  <2>1. n \in 1..Len(view[c])
    BY <1>2, LenNat
  <2>2. view[c][n].hash \in 1..MaxHash
    BY <2>1, EntryType DEF IInv
  <2> QED
    BY <1>2, <2>2 DEF AnchorAt, NoAnchor
<1> QED
  BY <1>1, <1>2

\* Heads that pass against an anchor have no gap and name each other.
LEMMA AnchoredRun ==
  ASSUME NEW heads, NEW anchor, VerifyHeadChain(heads, anchor)
  PROVE  RepoVerify(heads)
BY DEF VerifyHeadChain, RepoVerify

\* So do heads of which the first is taken as it is.
LEMMA UnanchoredRun ==
  ASSUME IInv, NEW heads, Served(heads), DOMAIN heads # {},
         VerifyHeadChain(Restrict(heads, DOMAIN heads \ {Min(DOMAIN heads)}),
                         heads[Min(DOMAIN heads)].hash)
  PROVE  RepoVerify(heads)
<1>0. PICK D : D = DOMAIN heads
  OBVIOUS
<1>1. PICK a : a = Min(D)
  OBVIOUS
<1>2. D \in SUBSET (1..MaxSeq) /\ a \in D /\ \A s \in D : a <= s
  BY <1>0, <1>1, MinIn DEF Served
<1>3. PICK r : r = Restrict(heads, D \ {a})
  OBVIOUS
<1>4. DOMAIN r = D \ {a} /\ \A s \in D \ {a} : r[s] = heads[s]
  BY <1>3 DEF Restrict
<1>5. VerifyHeadChain(r, heads[a].hash)
  BY <1>0, <1>1, <1>3
<1> SUFFICES ASSUME NEW s \in D, Below(heads, s) # {}
             PROVE  heads[s].prev = heads[Max(Below(heads, s))].hash /\ s = Max(Below(heads, s)) + 1
  BY <1>0 DEF RepoVerify
<1>6. s # a /\ a \in Below(heads, s) /\ s \in Nat /\ a \in Nat
  BY <1>0, <1>2 DEF Below
<1>7. MaxSeq \in Nat
  OBVIOUS
<1>8. CASE Below(r, s) = {}
  <2>1. heads[s].prev = heads[a].hash
    BY <1>4, <1>5, <1>6, <1>8 DEF VerifyHeadChain
  <2>2. PICK c \in Clients : Len(view[c]) >= a /\ view[c][a] = heads[a]
    BY <1>0, <1>2, Owner DEF Served
  <2>3. PICK d \in Clients : Len(view[d]) >= s /\ view[d][s] = heads[s]
    BY <1>0, Owner DEF Served
  <2>4. a \in 1..Len(view[c]) /\ s \in 1..Len(view[d])
    BY <1>2, <2>2, <2>3, LenNat
  <2>5. s = a + 1
    BY <2>1, <2>2, <2>3, <2>4, Successor
  <2>6. Below(heads, s) = {a}
    BY <1>0, <1>2, <1>6, <2>5 DEF Below
  <2>7. Max({a}) = a
    BY <1>6 DEF Max
  <2> QED
    BY <2>1, <2>5, <2>6, <2>7
<1>9. CASE Below(r, s) # {}
  <2>1. /\ heads[s].prev = r[Max(Below(r, s))].hash
        /\ s = Max(Below(r, s)) + 1
    BY <1>4, <1>5, <1>6, <1>9 DEF VerifyHeadChain
  <2>2. /\ Below(r, s) \in SUBSET (1..MaxSeq) /\ Below(r, s) \in SUBSET Below(heads, s)
        /\ Below(heads, s) \in SUBSET (1..MaxSeq)
    BY <1>0, <1>2, <1>4 DEF Below
  <2>3. PICK b : b = Max(Below(r, s))
    OBVIOUS
  <2>4. b \in Below(r, s) /\ b \in Below(heads, s) /\ b \in Nat
    <3>1. b \in Below(r, s)
      BY <1>7, <1>9, <2>2, <2>3, MaxIn
    <3> QED
      BY <2>2, <3>1
  <2>5. PICK x : x = Max(Below(heads, s))
    OBVIOUS
  <2>6. x \in Below(heads, s) /\ b <= x /\ x \in Nat
    <3>1. x \in Below(heads, s) /\ \A k \in Below(heads, s) : k <= x
      BY <1>7, <2>2, <2>4, <2>5, MaxIn
    <3> QED
      BY <2>2, <2>4, <3>1
  <2>7. x = b
    <3>1. x < s /\ s = b + 1
      BY <2>1, <2>3, <2>6 DEF Below
    <3> QED
      BY <1>6, <2>4, <2>6, <3>1
  <2>8. r[b] = heads[b]
    BY <1>4, <2>4 DEF Below
  <2> QED
    BY <2>1, <2>3, <2>5, <2>7, <2>8
<1> QED
  BY <1>8, <1>9

\* A run that passes against the last head a reader has applied goes on from there.
LEMMA GoesOn ==
  ASSUME IInv, NEW c \in Clients, NEW d \in Clients, NEW n \in 0..Len(view[c]),
         NEW heads, Served(heads), DOMAIN heads # {}, \A s \in DOMAIN heads : s > n,
         Holds(d, heads), VerifyHeadChain(heads, AnchorAt(c, n))
  PROVE  Holds(d, SubSeq(view[c], 1, n))
<1>0. n \in Nat /\ Len(view[c]) \in Nat /\ Len(view[d]) \in Nat /\ view[c] \in Seq(ChainEntry)
  BY LenNat DEF IInv, TypeOK
<1>1. DOMAIN SubSeq(view[c], 1, n) = 1..n /\ \A s \in 1..n : SubSeq(view[c], 1, n)[s] = view[c][s]
  BY <1>0
<1>2. CASE n = 0
  BY <1>0, <1>1, <1>2 DEF Holds
<1>3. CASE n # 0
  <2>1. PICK a : a = Min(DOMAIN heads)
    OBVIOUS
  <2>2. a \in DOMAIN heads /\ a \in Nat /\ a > 0 /\ \A s \in DOMAIN heads : a <= s /\ s \in Nat
    <3>1. \A s \in DOMAIN heads : s \in Nat /\ s > 0
      BY DEF Served
    <3> QED
      BY <2>1, <3>1, MinIn
  <2>3. Below(heads, a) = {}
    BY <2>2 DEF Below
  <2>4. heads[a].prev = AnchorAt(c, n)
    BY <2>2, <2>3 DEF VerifyHeadChain
  <2>5. heads[a].prev = view[c][n].hash
    BY <1>3, <2>4 DEF AnchorAt
  <2>6. a \in 1..Len(view[d]) /\ view[d][a] = heads[a] /\ n \in 1..Len(view[c])
    BY <1>0, <1>3, <2>2 DEF Holds
  <2>7. a = n + 1 /\ \A u \in 1..n : view[d][u] = view[c][u]
    BY <2>5, <2>6, Successor
  <2> QED
    BY <1>0, <1>1, <2>6, <2>7 DEF Holds
<1> QED
  BY <1>2, <1>3

\* The property holds in each state of the invariant.
LEMMA OneHistoryState == IInv => OneHistory
<1> SUFFICES ASSUME IInv, NEW c \in Clients, NEW n \in 0..Len(view[c]),
                    NEW listing \in Listings(n + 1, MaxSeq)
             PROVE  /\ \A from \in Epochs, epoch \in Epochs :
                         \A heads \in FetchBundlesSince(n, AnchorAt(c, n), from, epoch, listing, 0) :
                            \E d \in Clients :
                                /\ Holds(d, heads)
                                /\ heads = listing /\ DOMAIN heads # {} =>
                                        Holds(d, SubSeq(view[c], 1, n))
                    /\ RepoVerify(listing) => \E d \in Clients : Holds(d, listing)
  BY DEF OneHistory
<1>0. n \in Nat /\ Clients # {}
  BY LenNat
<1>1. Served(listing) /\ \A s \in DOMAIN listing : s > n
  BY <1>0, ListingServed
<1>2. RepoVerify(listing) => \E d \in Clients : Holds(d, listing)
  BY <1>0, <1>1, RunIsOne
<1>3. ASSUME NEW from \in Epochs, NEW epoch \in Epochs,
             NEW heads \in FetchBundlesSince(n, AnchorAt(c, n), from, epoch, listing, 0)
      PROVE  \E d \in Clients :
                /\ Holds(d, heads)
                /\ heads = listing /\ DOMAIN heads # {} => Holds(d, SubSeq(view[c], 1, n))
  <2>1. PICK kept : kept = {s \in DOMAIN listing : listing[s].epoch >= from}
    OBVIOUS
  <2>2. PICK base : base = IF kept = DOMAIN listing THEN AnchorAt(c, n) ELSE NoAnchor
    OBVIOUS
  <2>3. heads = Restrict(listing, kept) /\ VerifyFetchedHeads(heads, epoch, base)
    BY <1>3, <2>1, <2>2 DEF FetchBundlesSince
  <2>4. DOMAIN heads = kept /\ \A s \in kept : heads[s] = listing[s]
    BY <2>3 DEF Restrict
  <2>5. Served(heads) /\ \A s \in DOMAIN heads : s > n
    BY <1>1, <2>1, <2>4 DEF Served
  <2>6. CASE DOMAIN heads = {}
    BY <2>6 DEF Holds
  <2>7. CASE DOMAIN heads # {} /\ base = NoAnchor
    <3>1. RepoVerify(heads)
      BY <2>3, <2>5, <2>7, UnanchoredRun DEF VerifyFetchedHeads
    <3>2. AnchorAt(c, n) # NoAnchor
      BY AnchorIsHash
    <3>3. heads # listing
      BY <2>2, <2>4, <2>7, <3>2
    <3> QED
      BY <1>0, <2>5, <3>1, <3>3, RunIsOne
  <2>8. CASE DOMAIN heads # {} /\ base # NoAnchor
    <3>1. VerifyHeadChain(heads, AnchorAt(c, n))
      BY <2>2, <2>3, <2>8 DEF VerifyFetchedHeads
    <3>2. PICK d \in Clients : Holds(d, heads)
      BY <1>0, <2>5, <3>1, AnchoredRun, RunIsOne
    <3>3. Holds(d, SubSeq(view[c], 1, n))
      BY <2>5, <2>8, <3>1, <3>2, GoesOn
    <3> QED
      BY <3>2, <3>3
  <2> QED
    BY <2>6, <2>7, <2>8
<1> QED
  BY <1>2, <1>3

\* Whatever heads a host serves, what fetch_bundles_since or `sh repo verify` lets pass is
\* a run of one history, one that goes on from what the reader has if none was dropped.
THEOREM OneHistorySafe == Spec => []OneHistory
<1>1. Init => IInv
  BY InitIInv
<1>2. IInv /\ [Next]_vars => IInv'
  BY NextIInv
<1> QED
  BY <1>1, <1>2, OneHistoryState, PTL DEF Spec

-----------------------------------------------------------------------------
\* A part of one view without a gap passes, given what its first head names.
LEMMA RunPasses ==
  ASSUME IInv, NEW d \in Clients, NEW heads, NEW anchor,
         DOMAIN heads \in SUBSET (1..Len(view[d])),
         \A s \in DOMAIN heads : heads[s] = view[d][s],
         \A s, t \in DOMAIN heads : s < t => t - 1 \in DOMAIN heads,
         \A s \in DOMAIN heads : Below(heads, s) = {} => heads[s].prev = anchor
  PROVE  VerifyHeadChain(heads, anchor)
<1>0. Len(view[d]) \in Nat
  BY LenNat
<1> SUFFICES ASSUME NEW s \in DOMAIN heads, Below(heads, s) # {}
             PROVE  /\ heads[s].prev = heads[Max(Below(heads, s))].hash
                    /\ s = Max(Below(heads, s)) + 1
  BY DEF VerifyHeadChain
<1>1. s \in Nat /\ s - 1 \in DOMAIN heads /\ s - 1 \in 1..Len(view[d])
  BY <1>0 DEF Below
<1>2. s - 1 \in Below(heads, s) /\ Below(heads, s) \in SUBSET (1..Len(view[d]))
  BY <1>0, <1>1 DEF Below
<1>3. PICK b : b = Max(Below(heads, s))
  OBVIOUS
<1>4. b \in Below(heads, s) /\ s - 1 <= b
  BY <1>0, <1>2, <1>3, MaxIn
<1>5. b < s /\ b \in Nat
  BY <1>2, <1>4 DEF Below
<1>6. b = s - 1
  BY <1>1, <1>4, <1>5
<1>7. heads[s] = view[d][s] /\ heads[s - 1] = view[d][s - 1] /\ s # 1
  BY <1>0, <1>1
<1>8. view[d][s].prev = view[d][s - 1].hash
  BY <1>1, <1>7 DEF IInv, Linked
<1> QED
  BY <1>1, <1>3, <1>6, <1>7, <1>8

\* The answer that HonestFetch asks for.
FetchAnswers(c, d, n, from, epoch, listing, granted) ==
    FetchBundlesSince(n, AnchorAt(c, n), from, epoch, listing, Len(view[d])) =
        {h \in {Restrict(listing, granted)} :
            /\ \A s \in granted : listing[s].epoch <= epoch
            /\ granted # {} \/ n = Len(view[d])}

\* A reader with the first n heads of a view is given the rest of it.
LEMMA HonestAnswer ==
  ASSUME IInv, NEW c \in Clients, NEW d \in Clients, NEW n \in 0..Len(view[c]),
         NEW from \in Epochs, NEW epoch \in Epochs, Holds(d, SubSeq(view[c], 1, n)),
         NEW listing, NEW granted
  PROVE  /\ listing = [s \in (n + 1)..Len(view[d]) |-> view[d][s]]
         /\ granted = {s \in DOMAIN listing : listing[s].epoch >= from}
         => FetchAnswers(c, d, n, from, epoch, listing, granted)
<1>a. SUFFICES ASSUME listing = [s \in (n + 1)..Len(view[d]) |-> view[d][s]],
                      granted = {s \in DOMAIN listing : listing[s].epoch >= from}
               PROVE  FetchAnswers(c, d, n, from, epoch, listing, granted)
  OBVIOUS
<1>0. PICK L : L = Len(view[d])
  OBVIOUS
<1>1. n \in Nat /\ L \in Nat /\ L <= MaxSeq /\ Len(view[c]) \in Nat /\ view[c] \in Seq(ChainEntry)
  BY <1>0, LenNat DEF IInv, TypeOK
<1>2. n <= L /\ \A u \in 1..n : view[d][u] = view[c][u]
  <2>1. DOMAIN SubSeq(view[c], 1, n) = 1..n /\ \A s \in 1..n : SubSeq(view[c], 1, n)[s] = view[c][s]
    BY <1>1
  <2> QED
    <3>1. \A s \in 1..n : s <= L /\ view[d][s] = view[c][s]
      BY <1>0, <2>1 DEF Holds
    <3>2. n \in 1..n \/ n = 0
      BY <1>1
    <3> QED
      BY <1>1, <3>1, <3>2
<1>3. DOMAIN listing = (n + 1)..L /\ \A s \in (n + 1)..L : listing[s] = view[d][s]
  BY <1>0, <1>a
<1>4. granted \in SUBSET ((n + 1)..L) /\ granted \in SUBSET (1..L)
  BY <1>1, <1>3, <1>a
<1>5. ASSUME NEW s \in granted, NEW t \in s..L  PROVE t \in granted
  <2>1. s \in 1..t /\ t \in 1..L /\ t \in (n + 1)..L
    BY <1>1, <1>4
  <2>2. view[d][s].epoch <= view[d][t].epoch
    BY <1>0, <2>1 DEF IInv, EpochsGrow
  <2>3. view[d][s].epoch \in Nat /\ view[d][t].epoch \in Nat /\ from \in Nat
    <3>1. s \in 1..Len(view[d]) /\ t \in 1..Len(view[d])
      BY <1>0, <1>1, <2>1
    <3> QED
      BY <3>1, EntryType DEF IInv, Epochs
  <2>4. view[d][s].epoch >= from
    BY <1>3, <1>4, <1>a
  <2> QED
    <3>1. view[d][t].epoch >= from
      BY <2>2, <2>3, <2>4
    <3>2. t \in DOMAIN listing /\ listing[t].epoch >= from
      BY <1>3, <2>1, <3>1
    <3> QED
      BY <1>a, <3>2
<1>6. PICK heads : heads = Restrict(listing, granted)
  OBVIOUS
<1>7. DOMAIN heads = granted /\ \A s \in granted : heads[s] = view[d][s]
  BY <1>3, <1>4, <1>6 DEF Restrict
<1>8. PICK base : base = IF granted = DOMAIN listing THEN AnchorAt(c, n) ELSE NoAnchor
  OBVIOUS
<1>9. \A h : h \in FetchBundlesSince(n, AnchorAt(c, n), from, epoch, listing, L) <=>
               /\ h = heads /\ VerifyFetchedHeads(h, epoch, base)
               /\ L <= IF granted = {} THEN n ELSE Max(granted)
  BY <1>6, <1>8, <1>a DEF FetchBundlesSince
<1>10. (L <= IF granted = {} THEN n ELSE Max(granted)) <=> granted # {} \/ n = L
  <2>1. CASE granted = {}
    BY <1>1, <1>2, <2>1
  <2>2. CASE granted # {}
    <3>1. PICK s \in granted : TRUE
      BY <2>2
    <3>2. L \in granted
      BY <1>1, <1>4, <1>5, <3>1
    <3>3. L <= Max(granted)
      BY <1>1, <1>4, <3>2, MaxIn
    <3> QED
      BY <2>2, <3>3
  <2> QED
    BY <2>1, <2>2
<1>11. \A s \in granted : listing[s].epoch = heads[s].epoch
  BY <1>3, <1>4, <1>7
<1>12. \A s, t \in granted : s < t => t - 1 \in granted
  BY <1>1, <1>4, <1>5
<1>13. CASE granted = DOMAIN listing
  <2>1. VerifyHeadChain(heads, AnchorAt(c, n))
    <3>1. ASSUME NEW s \in granted, Below(heads, s) = {}  PROVE heads[s].prev = AnchorAt(c, n)
      <4>1. n + 1 \in granted /\ n + 1 <= s /\ s \in Nat
        BY <1>1, <1>3, <1>4, <1>13
      <4>2. ~(n + 1 < s)
        BY <1>7, <3>1, <4>1 DEF Below
      <4>3. s = n + 1
        BY <1>1, <4>1, <4>2
      <4>4. view[d][s].prev = IF s = 1 THEN ZeroHash ELSE view[d][s - 1].hash
        BY <1>0, <1>4 DEF IInv, Linked
      <4>5. n # 0 => view[d][n] = view[c][n]
        BY <1>1, <1>2
      <4> QED
        BY <1>1, <1>7, <4>3, <4>4, <4>5 DEF AnchorAt
    <3> QED
      BY <1>0, <1>4, <1>7, <1>12, <3>1, RunPasses
  <2>2. VerifyFetchedHeads(heads, epoch, base) <=> \A s \in granted : heads[s].epoch <= epoch
    BY <1>7, <1>8, <1>13, <2>1, AnchorIsHash DEF VerifyFetchedHeads
  <2> QED
    BY <1>0, <1>6, <1>9, <1>10, <1>11, <2>2 DEF FetchAnswers
<1>14. CASE granted # DOMAIN listing
  <2>1. granted # {} =>
          VerifyHeadChain(Restrict(heads, granted \ {Min(granted)}), heads[Min(granted)].hash)
    <3> SUFFICES ASSUME granted # {}
                 PROVE  VerifyHeadChain(Restrict(heads, granted \ {Min(granted)}), heads[Min(granted)].hash)
      OBVIOUS
    <3>1. PICK a : a = Min(granted)
      OBVIOUS
    <3>2. \A s \in granted : s \in Nat
      BY <1>1, <1>4
    <3>3. a \in granted /\ \A s \in granted : a <= s
      BY <3>1, <3>2, MinIn
    <3>4. PICK r : r = Restrict(heads, granted \ {a})
      OBVIOUS
    <3>5. DOMAIN r = granted \ {a} /\ \A s \in granted \ {a} : r[s] = view[d][s]
      BY <1>7, <3>4 DEF Restrict
    <3>6. \A s, t \in granted \ {a} : s < t => t - 1 \in granted \ {a}
      BY <1>12, <3>2, <3>3
    <3>7. ASSUME NEW s \in granted \ {a}, Below(r, s) = {}  PROVE r[s].prev = heads[a].hash
      <4>1. a < s /\ s - 1 \in granted /\ s - 1 < s
        BY <1>12, <3>2, <3>3
      <4>2. s - 1 = a
        BY <3>5, <3>7, <4>1 DEF Below
      <4>3. s # 1 /\ s \in 1..L
        BY <1>1, <1>4, <4>1
      <4>4. view[d][s].prev = view[d][s - 1].hash
        BY <1>0, <4>3 DEF IInv, Linked
      <4> QED
        BY <1>7, <3>3, <3>5, <4>2, <4>4
    <3>8. VerifyHeadChain(r, heads[a].hash)
      <4>1. DOMAIN r \in SUBSET (1..Len(view[d]))
        BY <1>0, <1>4, <3>5
      <4>2. \A s \in DOMAIN r : r[s] = view[d][s]
        BY <3>5
      <4>3. \A s, t \in DOMAIN r : s < t => t - 1 \in DOMAIN r
        BY <3>5, <3>6
      <4>4. \A s \in DOMAIN r : Below(r, s) = {} => r[s].prev = heads[a].hash
        BY <3>5, <3>7
      <4> QED
        BY <4>1, <4>2, <4>3, <4>4, RunPasses, ZenonT(30)
    <3> QED
      BY <3>1, <3>4, <3>8
  <2>2. VerifyFetchedHeads(heads, epoch, base) <=> \A s \in granted : heads[s].epoch <= epoch
    BY <1>7, <1>8, <1>14, <2>1 DEF VerifyFetchedHeads
  <2> QED
    BY <1>0, <1>6, <1>9, <1>10, <1>11, <2>2 DEF FetchAnswers
<1> QED
  BY <1>13, <1>14

\* The property holds in each state of the invariant.
LEMMA HonestFetchState == IInv => HonestFetch
<1> SUFFICES ASSUME IInv, NEW c \in Clients, NEW d \in Clients, NEW n \in 0..Len(view[c]),
                    NEW from \in Epochs, NEW epoch \in Epochs, Holds(d, SubSeq(view[c], 1, n))
             PROVE  LET listing == [s \in (n + 1)..Len(view[d]) |-> view[d][s]]
                        granted == {s \in DOMAIN listing : listing[s].epoch >= from} IN
                    FetchAnswers(c, d, n, from, epoch, listing, granted)
  BY Zenon DEF HonestFetch, FetchAnswers
<1> QED
  BY HonestAnswer

\* A host that hides nothing satisfies every reader that has reached the epochs of the
\* heads and is granted at least one of them (fetch_bundles_since): no honest fetch
\* fails for another reason than the one HonestFetch names.
THEOREM HonestFetchSafe == Spec => []HonestFetch
<1>1. Init => IInv
  BY InitIInv
<1>2. IInv /\ [Next]_vars => IInv'
  BY NextIInv
<1> QED
  BY <1>1, <1>2, HonestFetchState, PTL DEF Spec

-----------------------------------------------------------------------------
(* The Merkle tree.  A recursive function is a CHOOSE; that one exists is shown of its
   finite parts first, by a least counterexample. *)

\* A turn of the loop of Climb: the level above, and the place in it.
Above(b) == [level |-> NextLevel(b.level), at |-> (b.at + 1) \div 2]
IsClimb(up, leaves, i) ==
    up = [k \in Nat |-> IF k = 0 THEN [level |-> leaves, at |-> i] ELSE Above(up[k - 1])]

\* A turn of the loop of MerkleRootFromPath.
Hop(b, s) == IF s.right THEN Node(b, s.sibling) ELSE Node(s.sibling, b)
IsRunning(r, leaf, path) ==
    r = [k \in Nat |-> IF k = 0 THEN leaf ELSE Hop(r[k - 1], path[k])]

\* Either of them.
Turn(climb, path, k, b) == IF climb THEN Above(b) ELSE Hop(b, path[k])
IsLoop(climb, path, base, up) ==
    /\ up = [k \in Nat |-> up[k]]
    /\ \A k \in Nat : up[k] = IF k = 0 THEN base ELSE Turn(climb, path, k, up[k - 1])

\* What holds of 0 and of each successor holds of all numbers.
LEMMA Least ==
  ASSUME NEW Good \in SUBSET Nat, 0 \in Good, \A n \in Nat : n \in Good => n + 1 \in Good
  PROVE  Good = Nat
<1> SUFFICES ASSUME Nat \ Good # {} PROVE FALSE
  OBVIOUS
<1>1. PICK S : S = Nat \ Good
  OBVIOUS
<1>2. S # {} /\ \A x \in S : x \in Nat
  BY <1>1
<1>3. PICK n \in S : \A x \in S : n <= x
  BY <1>2, MinIn
<1>4. n \in Nat /\ n # 0 /\ n - 1 \in Nat
  BY <1>1, <1>3
<1>5. n - 1 \in Good
  BY <1>1, <1>3, <1>4
<1> QED
  BY <1>1, <1>3, <1>4, <1>5

\* A loop that starts with base has a value after every turn.
LEMMA LoopExists ==
  ASSUME NEW climb, NEW path, NEW base
  PROVE  \E up : IsLoop(climb, path, base, up)
<1> DEFINE Part(n, f) == f = [k \in 0..n |-> IF k = 0 THEN base ELSE Turn(climb, path, k, f[k - 1])]
           Good == {n \in Nat : \E f : Part(n, f)}
<1>1. 0 \in Good
  <2>1. Part(0, [k \in 0..0 |-> base])
    OBVIOUS
  <2> QED
    BY <2>1
<1>2. ASSUME NEW n \in Good  PROVE n + 1 \in Good
  <2>1. PICK f : Part(n, f)
    OBVIOUS
  <2>2. PICK g : g = [k \in 0..(n + 1) |-> IF k = n + 1 THEN Turn(climb, path, n + 1, f[n]) ELSE f[k]]
    OBVIOUS
  <2>3. n \in Nat
    OBVIOUS
  <2> HIDE DEF Good
  <2>4. \A k \in 0..(n + 1) : g[k] = IF k = 0 THEN base ELSE Turn(climb, path, k, g[k - 1])
    <3> SUFFICES ASSUME NEW k \in 0..(n + 1)
                 PROVE  g[k] = IF k = 0 THEN base ELSE Turn(climb, path, k, g[k - 1])
      OBVIOUS
    <3>1. CASE k = n + 1
      BY <2>2, <2>3, <3>1
    <3>2. CASE k # n + 1 /\ k = 0
      BY <2>1, <2>2, <2>3, <3>2
    <3>3. CASE k # n + 1 /\ k # 0
      <4>1. k \in 0..n /\ k - 1 \in 0..n /\ k - 1 \in 0..(n + 1) /\ k - 1 # n + 1
        BY <2>3, <3>3
      <4>2. f[k] = Turn(climb, path, k, f[k - 1])
        BY <2>1, <3>3, <4>1
      <4>3. g[k] = f[k] /\ g[k - 1] = f[k - 1]
        BY <2>2, <3>3, <4>1
      <4> QED
        BY <3>3, <4>2, <4>3
    <3> QED
      BY <3>1, <3>2, <3>3
  <2>5. Part(n + 1, g)
    BY <2>2, <2>4
  <2> QED
    BY <2>3, <2>5 DEF Good
<1>3. Good = Nat
  <2> HIDE DEF Good
  <2>1. Good \in SUBSET Nat
    BY DEF Good
  <2> QED
    BY <1>1, <1>2, <2>1, Least
<1>4. PICK part : part = [n \in Nat |-> CHOOSE f : Part(n, f)]
  OBVIOUS
<1>5. \A n \in Nat : Part(n, part[n])
  <2> TAKE n \in Nat
  <2>1. \E f : Part(n, f)
    BY <1>3
  <2> QED
    BY <1>4, <2>1
<1>6. ASSUME NEW n \in Nat  PROVE part[n + 1][n] = part[n][n]
  <2> DEFINE Same == {k \in Nat : k <= n => part[n + 1][k] = part[n][k]}
  <2>0. /\ \A k \in 0..n : part[n][k] = IF k = 0 THEN base ELSE Turn(climb, path, k, part[n][k - 1])
        /\ \A k \in 0..(n + 1) : part[n + 1][k] = IF k = 0 THEN base ELSE Turn(climb, path, k, part[n + 1][k - 1])
    <3>1. Part(n, part[n]) /\ Part(n + 1, part[n + 1])
      <4>1. n + 1 \in Nat
        OBVIOUS
      <4> HIDE DEF Part
      <4> QED
        BY <1>5, <4>1
    <3>2. PICK f, g : f = part[n] /\ g = part[n + 1]
      OBVIOUS
    <3>3. Part(n, f) /\ Part(n + 1, g)
      BY <3>1, <3>2
    <3>4. /\ \A k \in 0..n : f[k] = IF k = 0 THEN base ELSE Turn(climb, path, k, f[k - 1])
          /\ \A k \in 0..(n + 1) : g[k] = IF k = 0 THEN base ELSE Turn(climb, path, k, g[k - 1])
      BY <3>3
    <3> QED
      BY <3>2, <3>4
  <2> HIDE DEF Part
  <2>1. 0 \in Same
    BY <2>0
  <2>2. ASSUME NEW k \in Nat, k \in Same  PROVE k + 1 \in Same
    <3> SUFFICES ASSUME k + 1 <= n  PROVE part[n + 1][k + 1] = part[n][k + 1]
      OBVIOUS
    <3>1. part[n + 1][k] = part[n][k]
      BY <2>2
    <3>2. k + 1 \in 0..n /\ k + 1 \in 0..(n + 1) /\ k + 1 # 0 /\ (k + 1) - 1 = k
      OBVIOUS
    <3>3. part[n][k + 1] = Turn(climb, path, k + 1, part[n][k]) /\ part[n + 1][k + 1] = Turn(climb, path, k + 1, part[n + 1][k])
      BY <2>0, <3>2
    <3> QED
      BY <3>1, <3>3
  <2>3. Same = Nat
    <3>1. Same \in SUBSET Nat
      OBVIOUS
    <3> HIDE DEF Same
    <3> QED
      BY <2>1, <2>2, <3>1, Least
  <2> QED
    BY <2>3
<1>7. PICK up : up = [k \in Nat |-> part[k][k]]
  OBVIOUS
<1>8. \A k \in Nat : up[k] = IF k = 0 THEN base ELSE Turn(climb, path, k, up[k - 1])
  <2> SUFFICES ASSUME NEW k \in Nat  PROVE up[k] = IF k = 0 THEN base ELSE Turn(climb, path, k, up[k - 1])
    OBVIOUS
  <2>0. PICK f : f = part[k]
    OBVIOUS
  <2>1. \A j \in 0..k : f[j] = IF j = 0 THEN base ELSE Turn(climb, path, j, f[j - 1])
    <3>1. Part(k, f)
      BY <1>5, <2>0
    <3> QED
      BY <3>1
  <2> HIDE DEF Part
  <2>2. CASE k = 0
    BY <1>7, <2>0, <2>1, <2>2
  <2>3. CASE k # 0
    <3>1. k - 1 \in Nat /\ (k - 1) + 1 = k /\ k \in 0..k
      BY <2>3
    <3>2. part[k][k - 1] = part[k - 1][k - 1]
      BY <1>6, <3>1
    <3>3. up[k] = f[k] /\ up[k - 1] = f[k - 1]
      BY <1>7, <2>0, <3>1, <3>2
    <3> QED
      BY <2>1, <2>3, <3>1, <3>3
  <2> QED
    BY <2>2, <2>3
<1> HIDE DEF Part
<1> QED
  BY <1>7, <1>8 DEF IsLoop

\* The recursive function of Climb is what it looks like.
LEMMA ClimbLoop ==
  ASSUME NEW leaves, NEW i
  PROVE  \E up : /\ IsClimb(up, leaves, i)
                 /\ LET top == Min({k \in 0..Len(leaves) : Len(up[k].level) = 1}) IN
                    Climb(leaves, i) = [k \in 0..top |-> up[k]]
<1>1. PICK base : base = [level |-> leaves, at |-> i]
  OBVIOUS
<1>2. PICK up : IsLoop(TRUE, <<>>, base, up)
  BY LoopExists
<1>3. \A k \in Nat : up[k] = IF k = 0 THEN [level |-> leaves, at |-> i] ELSE Above(up[k - 1])
  BY <1>1, <1>2 DEF IsLoop, Turn
<1>4. IsClimb(up, leaves, i)
  BY <1>2, <1>3 DEF IsClimb, IsLoop
<1>5. PICK it : it = CHOOSE f : IsClimb(f, leaves, i)
  OBVIOUS
<1>6. IsClimb(it, leaves, i)
  BY <1>4, <1>5
<1>7. it = CHOOSE f : f = [k \in Nat |-> IF k = 0 THEN [level |-> leaves, at |-> i]
                                         ELSE [level |-> NextLevel(f[k - 1].level),
                                               at |-> (f[k - 1].at + 1) \div 2]]
  BY <1>5 DEF IsClimb, Above
<1>8. LET top == Min({k \in 0..Len(leaves) : Len(it[k].level) = 1}) IN
      Climb(leaves, i) = [k \in 0..top |-> it[k]]
  BY <1>7 DEF Climb
<1> QED
  BY <1>6, <1>8

\* So is that of MerkleRootFromPath.
LEMMA RunningLoop ==
  ASSUME NEW leaf, NEW path
  PROVE  \E r : /\ \A k \in Nat : r[k] = IF k = 0 THEN leaf ELSE Hop(r[k - 1], path[k])
                /\ MerkleRootFromPath(leaf, path) = r[Len(path)]
<1>1. PICK r : IsLoop(FALSE, path, leaf, r)
  BY LoopExists
<1>2. \A k \in Nat : r[k] = IF k = 0 THEN leaf ELSE Hop(r[k - 1], path[k])
  BY <1>1 DEF IsLoop, Turn
<1>3. IsRunning(r, leaf, path)
  BY <1>1, <1>2 DEF IsRunning, IsLoop
<1>4. PICK it : it = CHOOSE f : IsRunning(f, leaf, path)
  OBVIOUS
<1>5. IsRunning(it, leaf, path)
  BY <1>3, <1>4
<1>6. it = CHOOSE f : f = [k \in Nat |->
              IF k = 0 THEN leaf
              ELSE IF path[k].right THEN Node(f[k - 1], path[k].sibling)
              ELSE Node(path[k].sibling, f[k - 1])]
  BY <1>4 DEF IsRunning, Hop
<1>7. MerkleRootFromPath(leaf, path) = it[Len(path)]
  BY <1>6 DEF MerkleRootFromPath
<1>8. \A k \in Nat : it[k] = IF k = 0 THEN leaf ELSE Hop(it[k - 1], path[k])
  BY <1>5 DEF IsRunning
<1> QED
  BY <1>7, <1>8

\* A function on 1..n is a sequence of that length.
LEMMA LenIs ==
  ASSUME NEW n \in Nat, NEW f, f = [x \in 1..n |-> f[x]]
  PROVE  Len(f) = n /\ DOMAIN f = 1..n
<1>1. f \in Seq({f[x] : x \in 1..n})
  OBVIOUS
<1> QED
  BY <1>1

\* A level of the tree, and a place in it.
LevelOK(b) ==
    /\ Len(b.level) \in Nat \ {0} /\ DOMAIN b.level = 1..Len(b.level)
    /\ b.at \in 1..Len(b.level)

\* A level has half the length of the one below it, rounded up.
LEMMA AboveIs ==
  ASSUME NEW b, LevelOK(b)
  PROVE  /\ LevelOK(Above(b)) /\ Above(b).at = (b.at + 1) \div 2
         /\ Len(Above(b).level) = (Len(b.level) + 1) \div 2
         /\ \A j \in 1..Len(Above(b).level) :
                Above(b).level[j] = Node(b.level[2 * j - 1],
                                         b.level[IF 2 * j <= Len(b.level) THEN 2 * j ELSE 2 * j - 1])
<1>1. PICK n, l, at : n = Len(b.level) /\ l = b.level /\ at = b.at
  OBVIOUS
<1>2. n \in Nat /\ n # 0 /\ at \in 1..n /\ Len(l) = n
  BY <1>1 DEF LevelOK
<1>3. PICK m : m = (n + 1) \div 2
  OBVIOUS
<1>4. m \in Nat /\ m # 0 /\ (at + 1) \div 2 \in 1..m
  BY <1>2, <1>3
<1>5. PICK f : f = NextLevel(l)
  OBVIOUS
<1>6. /\ f = [x \in 1..m |-> f[x]]
      /\ \A x \in 1..m : f[x] = Node(l[2 * x - 1], l[IF 2 * x <= n THEN 2 * x ELSE 2 * x - 1])
  BY <1>2, <1>3, <1>5 DEF NextLevel
<1>7. Len(f) = m /\ DOMAIN f = 1..m
  BY <1>4, <1>6, LenIs
<1>8. Above(b).level = f /\ Above(b).at = (at + 1) \div 2
  BY <1>1, <1>5 DEF Above
<1> QED
  BY <1>1, <1>3, <1>4, <1>6, <1>7, <1>8 DEF LevelOK

\* The climb from leaf i: level after level, up to the first of length 1, which comes.
IsTree(up, top, leaves, i) ==
    /\ up[0] = [level |-> leaves, at |-> i]
    /\ \A k \in Nat : up[k + 1] = Above(up[k]) /\ LevelOK(up[k])
    /\ top \in Nat /\ Len(up[top].level) = 1
    /\ \A k \in Nat : k < top => Len(up[k].level) # 1

IsClimbed(up, top, leaves, i) ==
    IsTree(up, top, leaves, i) /\ Climb(leaves, i) = [k \in 0..top |-> up[k]]

\* There are n leaves.
LeavesOK(leaves, n) == n \in Nat \ {0} /\ leaves = [x \in 1..n |-> leaves[x]]

\* Climb is that climb.
LEMMA ClimbIs ==
  ASSUME NEW leaves, NEW n \in Nat, LeavesOK(leaves, n), NEW i \in 1..n
  PROVE  \E up, top : IsClimbed(up, top, leaves, i)
<1>0. n \in Nat /\ n # 0 /\ Len(leaves) = n /\ DOMAIN leaves = 1..n
  BY LenIs DEF LeavesOK
<1>1. PICK up : /\ IsClimb(up, leaves, i)
                /\ LET top == Min({k \in 0..Len(leaves) : Len(up[k].level) = 1}) IN
                   Climb(leaves, i) = [k \in 0..top |-> up[k]]
  BY ClimbLoop
<1>2. up[0] = [level |-> leaves, at |-> i] /\ \A k \in Nat : up[k + 1] = Above(up[k])
  <2>1. \A k \in Nat : up[k] = IF k = 0 THEN [level |-> leaves, at |-> i] ELSE Above(up[k - 1])
    BY <1>1 DEF IsClimb
  <2>2. \A k \in Nat : k + 1 # 0 /\ k + 1 \in Nat /\ (k + 1) - 1 = k
    OBVIOUS
  <2> QED
    BY <2>1, <2>2
<1> DEFINE Good == {k \in Nat : /\ LevelOK(up[k])
                                /\ Len(up[k].level) = 1 \/ Len(up[k].level) + k <= n}
<1>3. Good = Nat
  <2>1. 0 \in Good
    <3>1. up[0].level = leaves /\ up[0].at = i
      BY <1>2
    <3>2. LevelOK(up[0])
      BY <1>0, <3>1 DEF LevelOK
    <3>3. Len(up[0].level) + 0 <= n
      BY <1>0, <3>1
    <3> QED
      BY <3>2, <3>3
  <2>2. ASSUME NEW k \in Nat, k \in Good  PROVE k + 1 \in Good
    <3>1. PICK b, c : b = up[k] /\ c = up[k + 1] /\ c = Above(b)
      BY <1>2
    <3>2. LevelOK(b) /\ (Len(b.level) = 1 \/ Len(b.level) + k <= n)
      BY <2>2, <3>1
    <3>3. LevelOK(c) /\ Len(c.level) = (Len(b.level) + 1) \div 2
      BY <3>1, <3>2, AboveIs
    <3>4. PICK l : l = Len(b.level)
      OBVIOUS
    <3>5. l \in Nat /\ l # 0 /\ (l = 1 \/ l + k <= n)
      BY <3>2, <3>4 DEF LevelOK
    <3>6. (l + 1) \div 2 = 1 \/ ((l + 1) \div 2) + (k + 1) <= n
      BY <3>5
    <3>7. Len(c.level) = 1 \/ Len(c.level) + (k + 1) <= n
      BY <3>3, <3>4, <3>6
    <3>8. k + 1 \in Nat
      OBVIOUS
    <3> QED
      BY <3>1, <3>3, <3>7, <3>8
  <2>3. Good \in SUBSET Nat
    OBVIOUS
  <2> HIDE DEF Good
  <2> QED
    BY <2>1, <2>2, <2>3, Least
<1>4. \A k \in Nat : LevelOK(up[k])
  BY <1>3
<1>5. Len(up[n].level) = 1
  <2>1. LevelOK(up[n]) /\ (Len(up[n].level) = 1 \/ Len(up[n].level) + n <= n)
    BY <1>3
  <2>2. PICK l : l = Len(up[n].level)
    OBVIOUS
  <2>3. l \in Nat /\ l # 0 /\ (l = 1 \/ l + n <= n)
    BY <2>1, <2>2 DEF LevelOK
  <2> QED
    BY <2>2, <2>3
<1>6. PICK S : S = {k \in 0..n : Len(up[k].level) = 1}
  OBVIOUS
<1>7. PICK top : top = Min(S)
  OBVIOUS
<1>8. n \in S /\ \A k \in S : k \in Nat
  BY <1>5, <1>6
<1>9. top \in S /\ \A k \in S : top <= k
  BY <1>7, <1>8, MinIn
<1>10. \A k \in Nat : k < top => Len(up[k].level) # 1
  BY <1>6, <1>9
<1>11. IsTree(up, top, leaves, i)
  BY <1>2, <1>4, <1>6, <1>9, <1>10 DEF IsTree
<1>12. Climb(leaves, i) = [k \in 0..top |-> up[k]]
  BY <1>0, <1>1, <1>6, <1>7
<1> QED
  BY <1>11, <1>12 DEF IsClimbed

\* From whatever leaf, the levels are the same.
LEMMA OneTree ==
  ASSUME NEW up, NEW top, NEW it, NEW end, NEW leaves, NEW i, NEW j,
         IsTree(up, top, leaves, i), IsTree(it, end, leaves, j)
  PROVE  top = end /\ \A k \in Nat : up[k].level = it[k].level
<1> DEFINE Same == {k \in Nat : up[k].level = it[k].level}
<1>1. 0 \in Same
  BY DEF IsTree
<1>2. ASSUME NEW k \in Nat, k \in Same  PROVE k + 1 \in Same
  <2>1. up[k + 1] = Above(up[k]) /\ it[k + 1] = Above(it[k]) /\ up[k].level = it[k].level
    BY <1>2 DEF IsTree
  <2> QED
    BY <2>1 DEF Above
<1>3. Same = Nat
  <2>1. Same \in SUBSET Nat
    OBVIOUS
  <2> HIDE DEF Same
  <2> QED
    BY <1>1, <1>2, <2>1, Least
<1>4. \A k \in Nat : up[k].level = it[k].level
  BY <1>3
<1>5. /\ top \in Nat /\ Len(up[top].level) = 1 /\ \A k \in Nat : k < top => Len(up[k].level) # 1
      /\ end \in Nat /\ Len(it[end].level) = 1 /\ \A k \in Nat : k < end => Len(it[k].level) # 1
  BY DEF IsTree
<1>6. ~(top < end) /\ ~(end < top)
  BY <1>4, <1>5
<1> QED
  BY <1>4, <1>5, <1>6

\* A step of the path: what stands beside place b of its level.
Beside(b) ==
    [sibling |-> b.level[IF b.at % 2 = 1 THEN (IF b.at + 1 <= Len(b.level) THEN b.at + 1 ELSE b.at)
                         ELSE b.at - 1],
     right |-> b.at % 2 = 1]

\* The root of a tree, and the path from leaf i.
IsPath(up, top, leaves, i) ==
    /\ MerkleRoot(leaves) = up[top].level[1]
    /\ Len(MerklePath(leaves, i)) = top
    /\ \A k \in Nat : k < top => MerklePath(leaves, i)[k + 1] = Beside(up[k])

\* MerkleRoot and MerklePath climb the same levels.
LEMMA RootAndPath ==
  ASSUME NEW leaves, NEW n \in Nat, LeavesOK(leaves, n), NEW i \in 1..n
  PROVE  \E up, top : IsTree(up, top, leaves, i) /\ IsPath(up, top, leaves, i)
<1>1. PICK up, top : IsClimbed(up, top, leaves, i)
  BY ClimbIs
<1>2. PICK it, end : IsClimbed(it, end, leaves, 1)
  <2>1. 1 \in 1..n
    BY DEF LeavesOK
  <2> QED
    BY <2>1, ClimbIs
<1>3. /\ IsTree(up, top, leaves, i) /\ Climb(leaves, i) = [k \in 0..top |-> up[k]]
      /\ Climb(leaves, 1) = [k \in 0..top |-> it[k]]
      /\ top = end /\ top \in Nat /\ it[top].level = up[top].level
  <2>1. IsTree(up, top, leaves, i) /\ IsTree(it, end, leaves, 1)
    BY <1>1, <1>2 DEF IsClimbed
  <2>2. top = end /\ \A k \in Nat : up[k].level = it[k].level
    BY <2>1, OneTree
  <2>3. top \in Nat
    BY <2>1 DEF IsTree
  <2> QED
    BY <1>1, <1>2, <2>1, <2>2, <2>3 DEF IsClimbed
<1>4. Max(0..top) = top
  BY <1>3 DEF Max
<1>5. MerkleRoot(leaves) = up[top].level[1]
  <2>1. PICK f : f = Climb(leaves, 1)
    OBVIOUS
  <2>2. DOMAIN f = 0..top /\ f[top] = it[top]
    BY <1>3, <2>1
  <2>3. MerkleRoot(leaves) = f[top].level[1]
    BY <1>4, <2>1, <2>2 DEF MerkleRoot
  <2> QED
    BY <1>3, <2>2, <2>3
<1>6. PICK f : f = Climb(leaves, i)
  OBVIOUS
<1>7. DOMAIN f = 0..top /\ \A k \in 0..top : f[k] = up[k]
  BY <1>3, <1>6
<1>8. PICK path : path = MerklePath(leaves, i)
  OBVIOUS
<1>9. path = [k \in 1..top |->
                LET level == f[k - 1].level
                    at == f[k - 1].at
                    right == at % 2 = 1
                    sibling == IF right THEN at + 1 ELSE at - 1
                IN [sibling |-> level[IF sibling <= Len(level) THEN sibling ELSE at], right |-> right]]
  BY <1>4, <1>6, <1>7, <1>8 DEF MerklePath
<1>10. Len(path) = top
  <2>1. path = [k \in 1..top |-> path[k]]
    BY <1>9
  <2> QED
    BY <1>3, <2>1, LenIs
<1>11. ASSUME NEW k \in Nat, k < top  PROVE path[k + 1] = Beside(up[k])
  <2>1. k + 1 \in 1..top /\ (k + 1) - 1 = k /\ k \in 0..top
    BY <1>3, <1>11
  <2>2. PICK l, at : l = up[k].level /\ at = up[k].at /\ l = f[k].level /\ at = f[k].at
    BY <1>7, <2>1
  <2>3. path[k + 1] = LET right == at % 2 = 1
                          sibling == IF right THEN at + 1 ELSE at - 1
                      IN [sibling |-> l[IF sibling <= Len(l) THEN sibling ELSE at], right |-> right]
    BY <1>9, <2>1, <2>2
  <2>4. at \in Nat /\ at <= Len(l) /\ Len(l) \in Nat
    <3>1. LevelOK(up[k])
      BY <1>3 DEF IsTree
    <3> QED
      BY <2>2, <3>1 DEF LevelOK
  <2>5. CASE at % 2 = 1
    <3>1. path[k + 1] = [sibling |-> l[IF at + 1 <= Len(l) THEN at + 1 ELSE at], right |-> TRUE]
      BY <2>3, <2>5
    <3>2. Beside(up[k]) = [sibling |-> l[IF at + 1 <= Len(l) THEN at + 1 ELSE at], right |-> TRUE]
      BY <2>2, <2>5 DEF Beside
    <3> QED
      BY <3>1, <3>2
  <2>6. CASE at % 2 # 1
    <3>1. path[k + 1] = [sibling |-> l[IF at - 1 <= Len(l) THEN at - 1 ELSE at], right |-> FALSE]
      BY <2>3, <2>6
    <3>2. at - 1 <= Len(l)
      BY <2>4
    <3>3. Beside(up[k]) = [sibling |-> l[at - 1], right |-> FALSE]
      <4>1. PICK right : right = (at % 2 = 1)
        OBVIOUS
      <4>2. right = FALSE
        BY <2>6, <4>1
      <4>3. Beside(up[k]) = [sibling |-> l[IF right THEN (IF at + 1 <= Len(l) THEN at + 1 ELSE at)
                                           ELSE at - 1], right |-> right]
        BY <2>2, <4>1, Zenon DEF Beside
      <4> QED
        BY <4>2, <4>3
    <3> QED
      BY <3>1, <3>2, <3>3
  <2> QED
    BY <2>5, <2>6
<1> QED
  BY <1>3, <1>5, <1>8, <1>10, <1>11 DEF IsPath

\* One step of a path leads from the item of a level to the one above it, and from
\* nothing else to that.
LEMMA HopLeads ==
  ASSUME NEW b, LevelOK(b), NEW x, Len(b.level) # 1
  PROVE  Hop(x, Beside(b)) = Above(b).level[Above(b).at] <=> x = b.level[b.at]
<1>1. PICK n, l, at : n = Len(b.level) /\ l = b.level /\ at = b.at
  OBVIOUS
<1>2. n \in Nat /\ n # 0 /\ n # 1 /\ at \in 1..n
  BY <1>1 DEF LevelOK
<1>3. PICK j : j = (at + 1) \div 2
  OBVIOUS
<1>4. /\ Above(b).at = j
      /\ \A y \in 1..((n + 1) \div 2) :
            Above(b).level[y] = Node(l[2 * y - 1], l[IF 2 * y <= n THEN 2 * y ELSE 2 * y - 1])
  BY <1>1, <1>3, AboveIs
<1>5. j \in 1..((n + 1) \div 2) /\ j \in Nat
  BY <1>2, <1>3
<1>6. Above(b).level[j] = Node(l[2 * j - 1], l[IF 2 * j <= n THEN 2 * j ELSE 2 * j - 1])
  BY <1>4, <1>5
<1>7. \A p, q, r, s : Node(p, q) = Node(r, s) <=> p = r /\ q = s
  BY DEF Node
<1>8. CASE at % 2 = 1
  <2>1. 2 * j - 1 = at
    BY <1>2, <1>3, <1>8
  <2>2. Beside(b).right = TRUE /\ Beside(b).sibling = l[IF at + 1 <= n THEN at + 1 ELSE at]
    BY <1>1, <1>8 DEF Beside
  <2>3. Hop(x, Beside(b)) = Node(x, l[IF at + 1 <= n THEN at + 1 ELSE at])
    BY <2>2 DEF Hop
  <2>4. 2 * j = at + 1
    BY <1>2, <1>5, <2>1
  <2>5. Above(b).level[j] = Node(l[at], l[IF at + 1 <= n THEN at + 1 ELSE at])
    BY <1>6, <2>1, <2>4
  <2> QED
    BY <1>1, <1>4, <1>7, <2>3, <2>5
<1>9. CASE at % 2 # 1
  <2>1. 2 * j = at
    BY <1>2, <1>3, <1>9
  <2>2. Beside(b).right = FALSE /\ Beside(b).sibling = l[at - 1]
    BY <1>1, <1>9 DEF Beside
  <2>3. Hop(x, Beside(b)) = Node(l[at - 1], x)
    BY <2>2 DEF Hop
  <2>4. Above(b).level[j] = Node(l[at - 1], l[at])
    BY <1>2, <1>6, <2>1
  <2> QED
    BY <1>1, <1>4, <1>7, <2>3, <2>4
<1> QED
  BY <1>8, <1>9

\* The path of leaf i leads from that leaf to the root, and from nothing else.
LEMMA PathLeads ==
  ASSUME NEW leaves, NEW n \in Nat, LeavesOK(leaves, n), NEW i \in 1..n, NEW leaf
  PROVE  MerkleRootFromPath(leaf, MerklePath(leaves, i)) = MerkleRoot(leaves) <=> leaf = leaves[i]
<1>1. PICK up, top : IsTree(up, top, leaves, i) /\ IsPath(up, top, leaves, i)
  BY RootAndPath
<1>2. PICK path : path = MerklePath(leaves, i)
  OBVIOUS
<1>3. PICK r : /\ \A k \in Nat : r[k] = IF k = 0 THEN leaf ELSE Hop(r[k - 1], path[k])
               /\ MerkleRootFromPath(leaf, path) = r[Len(path)]
  BY RunningLoop
<1>4. r[0] = leaf /\ \A k \in Nat : r[k + 1] = Hop(r[k], path[k + 1])
  <2>1. \A k \in Nat : k + 1 # 0 /\ k + 1 \in Nat /\ (k + 1) - 1 = k
    OBVIOUS
  <2> QED
    BY <1>3, <2>1
<1> DEFINE Good == {k \in Nat : k <= top => (r[k] = up[k].level[up[k].at] <=> leaf = leaves[i])}
<1>5. top \in Nat /\ top \in Good
  <2>1. 0 \in Good
    BY <1>1, <1>4 DEF IsTree
  <2>2. ASSUME NEW k \in Nat, k \in Good  PROVE k + 1 \in Good
    <3> SUFFICES ASSUME k + 1 <= top
                 PROVE  r[k + 1] = up[k + 1].level[up[k + 1].at] <=> leaf = leaves[i]
      OBVIOUS
    <3>1. top \in Nat /\ k < top
      BY <1>1 DEF IsTree
    <3>2. PICK b : b = up[k]
      OBVIOUS
    <3>3. LevelOK(b) /\ up[k + 1] = Above(b) /\ Len(b.level) # 1
      BY <1>1, <3>1, <3>2 DEF IsTree
    <3>4. path[k + 1] = Beside(b)
      BY <1>1, <1>2, <3>1, <3>2 DEF IsPath
    <3>5. r[k + 1] = Above(b).level[Above(b).at] <=> r[k] = b.level[b.at]
      BY <1>4, <3>3, <3>4, HopLeads
    <3> QED
      BY <2>2, <3>1, <3>2, <3>3, <3>5
  <2>3. Good = Nat
    <3>1. Good \in SUBSET Nat
      OBVIOUS
    <3> HIDE DEF Good
    <3> QED
      BY <2>1, <2>2, <3>1, Least
  <2> QED
    BY <1>1, <2>3 DEF IsTree
<1>6. up[top].at = 1
  <2>1. LevelOK(up[top]) /\ Len(up[top].level) = 1
    BY <1>1, <1>5 DEF IsTree
  <2> QED
    BY <2>1 DEF LevelOK
<1>7. MerkleRoot(leaves) = up[top].level[1] /\ MerkleRootFromPath(leaf, path) = r[top]
  BY <1>1, <1>2, <1>3 DEF IsPath
<1> QED
  BY <1>2, <1>5, <1>6, <1>7

-----------------------------------------------------------------------------
(* Receipts *)


\* The least and the largest number of an interval.
LEMMA Ends ==
  ASSUME NEW i \in Nat, NEW j \in Nat, i <= j
  PROVE  Min(i..j) = i /\ Max(i..j) = j
<1>1. \A x \in i..j : (\A y \in i..j : x <= y) => x = i
  OBVIOUS
<1>2. \A x \in i..j : (\A y \in i..j : x >= y) => x = j
  OBVIOUS
<1>3. i \in i..j /\ j \in i..j /\ \A y \in i..j : i <= y /\ j >= y
  OBVIOUS
<1>4. Min(i..j) = i
  BY <1>1, <1>3 DEF Min
<1>5. Max(i..j) = j
  BY <1>2, <1>3 DEF Max
<1> QED
  BY <1>4, <1>5

\* The leaves of the tree over a span from i to j.
LEMMA LeavesAre ==
  ASSUME NEW i \in Nat, NEW j \in Nat, i <= j, NEW span, DOMAIN span = i..j
  PROVE  /\ j - i + 1 \in Nat /\ LeavesOK(Leaves(span), j - i + 1)
         /\ \A s \in i..j : /\ s - i + 1 \in 1..(j - i + 1)
                            /\ Leaves(span)[s - i + 1] = LogicalLeaf(s, span[s])
<1>1. PICK n : n = j - i + 1
  OBVIOUS
<1>2. n \in Nat \ {0} /\ Cardinality(i..j) = n
  <2>1. i \in Int /\ j \in Int /\ ~(i > j)
    OBVIOUS
  <2>2. Cardinality(i..j) = j - i + 1
    BY <2>1, FS_Interval
  <2> QED
    BY <1>1, <2>2
<1>3. Min(i..j) = i
  BY Ends
<1>4. PICK l : l = Leaves(span)
  OBVIOUS
<1>5. l = [x \in 1..n |-> LogicalLeaf(i + x - 1, span[i + x - 1])]
  BY <1>2, <1>3, <1>4 DEF Leaves
<1>6. LeavesOK(l, n)
  BY <1>2, <1>5 DEF LeavesOK
<1>7. ASSUME NEW s \in i..j
      PROVE  s - i + 1 \in 1..n /\ l[s - i + 1] = LogicalLeaf(s, span[s])
  <2>1. s - i + 1 \in 1..n /\ i + (s - i + 1) - 1 = s
    BY <1>1
  <2> QED
    BY <1>5, <2>1
<1> QED
  BY <1>1, <1>2, <1>4, <1>6, <1>7

\* The proof of a head of the span is good for that head and for no other.
LEMMA ProofsBind ==
  ASSUME NEW i \in Nat, NEW j \in Nat, i <= j, NEW span, DOMAIN span = i..j,
         NEW s \in i..j, NEW head
  PROVE  /\ DOMAIN Proofs(span) = i..j /\ Proofs(span)[s].index = s - i
         /\ MerkleRootFromPath(LogicalLeaf(s, head), Proofs(span)[s].steps)
                = MerkleRoot(Leaves(span)) <=> head = span[s]
<1>1. PICK n, l : n = j - i + 1 /\ l = Leaves(span)
  OBVIOUS
<1>2. n \in Nat /\ LeavesOK(l, n) /\ s - i + 1 \in 1..n /\ l[s - i + 1] = LogicalLeaf(s, span[s])
  BY <1>1, LeavesAre
<1>3. MerkleRootFromPath(LogicalLeaf(s, head), MerklePath(l, s - i + 1)) = MerkleRoot(l)
        <=> LogicalLeaf(s, head) = LogicalLeaf(s, span[s])
  BY <1>2, PathLeads
<1>4. LogicalLeaf(s, head) = LogicalLeaf(s, span[s]) <=> head = span[s]
  BY DEF LogicalLeaf
<1>5. PICK ps : ps = Proofs(span)
  OBVIOUS
<1>6. ps = [t \in i..j |-> [index |-> t - i, steps |-> MerklePath(l, t - i + 1)]]
  BY <1>1, <1>5, Ends DEF Proofs
<1>7. DOMAIN ps = i..j /\ ps[s].index = s - i /\ ps[s].steps = MerklePath(l, s - i + 1)
  BY <1>6
<1> QED
  BY <1>1, <1>3, <1>4, <1>5, <1>7

\* Whoever's window is committed to holds the heads the receipt was made of.
LEMMA CommittedBinds ==
  ASSUME NEW i \in Nat, NEW j \in Nat, i <= j, NEW span, DOMAIN span = i..j, NEW refs,
         NEW held, DOMAIN held \in SUBSET (i..j),
         WindowCommitted(PlanCompaction(span, refs), held, Proofs(span))
  PROVE  DOMAIN held # {} /\ \A s \in DOMAIN held : held[s] = span[s]
<1>1. PICK receipt : receipt = PlanCompaction(span, refs)
  OBVIOUS
<1>2. receipt.root = MerkleRoot(Leaves(span))
  <2>1. PlanCompaction(span, refs).root = MerkleRoot(Leaves(span))
    BY DEF PlanCompaction
  <2> QED
    BY <1>1, <2>1
<1>3. /\ DOMAIN held # {}
      /\ \A s \in DOMAIN held :
            MerkleRootFromPath(LogicalLeaf(s, held[s]), Proofs(span)[s].steps) = receipt.root
  BY <1>1 DEF WindowCommitted
<1>4. ASSUME NEW s \in DOMAIN held  PROVE held[s] = span[s]
  <2>1. s \in i..j
    OBVIOUS
  <2>2. PICK head : head = held[s]
    OBVIOUS
  <2>3. MerkleRootFromPath(LogicalLeaf(s, head), Proofs(span)[s].steps) = MerkleRoot(Leaves(span))
    BY <1>2, <1>3, <2>2
  <2> QED
    BY <2>1, <2>2, <2>3, ProofsBind
<1> QED
  BY <1>3, <1>4

\* A window of a view.
LEMMA WindowIs ==
  ASSUME NEW d \in Clients, NEW w
  PROVE  /\ DOMAIN Window(d, w) = {s \in 1..Len(view[d]) : view[d][s].epoch >= w}
         /\ \A s \in DOMAIN Window(d, w) : Window(d, w)[s] = view[d][s]
<1>1. DOMAIN Window(d, w) = {s \in 1..Len(view[d]) : view[d][s].epoch >= w}
  BY DEF Window, Restrict
<1>2. \A s \in DOMAIN Window(d, w) : Window(d, w)[s] = view[d][s]
  BY DEF Window, Restrict
<1> QED
  BY <1>1, <1>2

\* A run of heads that a host can serve has no gap between its ends.
LEMMA Gapless ==
  ASSUME NEW span \in Listings(1, MaxSeq), span # <<>>,
         Max(DOMAIN span) - Min(DOMAIN span) + 1 = Cardinality(DOMAIN span)
  PROVE  \E i, j \in Nat : i # 0 /\ i <= j /\ DOMAIN span = i..j
<1>1. Served(span)
  <2>1. span \in Listings(0 + 1, MaxSeq)
    OBVIOUS
  <2> QED
    BY <2>1, ListingServed
<1>2. PICK D : D = DOMAIN span
  OBVIOUS
<1>3. D \in SUBSET (1..MaxSeq) /\ MaxSeq \in Nat
  BY <1>1, <1>2 DEF Served
<1>4. D # {}
  <2>1. PICK S : span \in [S -> UNION {Known(s) : s \in S}]
    BY DEF Listings
  <2>2. span = [s \in D |-> span[s]]
    BY <1>2, <2>1
  <2>3. D = {} => span = <<>>
    BY <2>2
  <2> QED
    BY <2>3
<1>5. PICK i, j : i = Min(D) /\ j = Max(D)
  OBVIOUS
<1>6. i \in D /\ \A s \in D : i <= s
  <2>1. \A s \in D : s \in Nat
    BY <1>3
  <2> QED
    BY <1>4, <1>5, <2>1, MinIn
<1>7. j \in D /\ \A s \in D : s <= j
  BY <1>3, <1>4, <1>5, MaxIn
<1>8. i \in Nat /\ j \in Nat /\ i # 0 /\ i <= j /\ D \in SUBSET (i..j)
  BY <1>3, <1>6, <1>7
<1>9. D = i..j
  <2>1. i \in Int /\ j \in Int /\ ~(i > j)
    BY <1>8
  <2>2. IsFiniteSet(i..j) /\ Cardinality(i..j) = j - i + 1
    BY <2>1, FS_Interval
  <2>3. Cardinality(D) = Cardinality(i..j)
    BY <1>2, <1>5, <2>2
  <2> QED
    BY <1>8, <2>2, <2>3, FS_Subset
<1> QED
  BY <1>2, <1>8, <1>9

\* Two clients that hold one head hold the same heads below it.
LEMMA BackFrom ==
  ASSUME IInv, NEW c \in Clients, NEW d \in Clients, NEW m \in Nat, m # 0,
         m <= Len(view[c]), m <= Len(view[d]), view[c][m].hash = view[d][m].hash
  PROVE  \A s \in 1..m : view[c][s] = view[d][s]
<1>1. m \in 1..Len(view[c]) /\ m \in 1..Len(view[d])
  BY LenNat
<1> QED
  BY <1>1 DEF IInv, OneOrigin

\* The property holds in each state of the invariant.
LEMMA ReceiptBindsState == IInv => ReceiptBinds
<1> SUFFICES ASSUME IInv, NEW d \in Clients, NEW w \in Epochs, NEW a \in Admins,
                    NEW span \in Listings(1, MaxSeq), span # <<>>,
                    Max(DOMAIN span) - Min(DOMAIN span) + 1 = Cardinality(DOMAIN span)
             PROVE  LET top == Max(DOMAIN span)
                        receipt == PlanCompaction(span, OpenRefs(span[top]))
                        sig == SignConsolidation(receipt, 1, <<a>>)
                        held == DOMAIN Window(d, w) \cap DOMAIN span IN
                    /\ VerifyConsolidationWindow(receipt, Admins, sig, Window(d, w), Proofs(span)) =>
                        /\ \A s \in held : view[d][s] = span[s]
                        /\ \A c \in Clients : Holds(c, span) =>
                            \A s \in 1..Max(held) : view[c][s] = view[d][s]
                    /\ top <= Len(view[d]) /\ VerifyCheckpointAnchor(receipt, Admins, sig, top,
                                                    view[d][top], OpenRefs(view[d][top])) =>
                        \A c \in Clients : Holds(c, span) =>
                            \A s \in 1..top : view[c][s] = view[d][s]
  BY DEF ReceiptBinds
<1>1. PICK i \in Nat, j \in Nat : i # 0 /\ i <= j /\ DOMAIN span = i..j
  BY Gapless
<1>2. Max(DOMAIN span) = j
  BY <1>1, Ends
<1>3. PICK refs : refs = OpenRefs(span[j])
  OBVIOUS
<1>4. PICK receipt : receipt = PlanCompaction(span, refs)
  OBVIOUS
<1>5. PICK sig : sig = SignConsolidation(receipt, 1, <<a>>)
  OBVIOUS
<1>6. /\ receipt.from = i /\ receipt.to = j
      /\ receipt.checkpoint = [at |-> j, anchor |-> span[j].hash, refs |-> <<j, refs>>]
  BY <1>1, <1>4, Ends DEF PlanCompaction
<1>7. PICK window, held : window = Window(d, w) /\ held = DOMAIN window \cap (i..j)
  OBVIOUS
<1>8. ASSUME VerifyConsolidationWindow(receipt, Admins, sig, window, Proofs(span))
      PROVE  /\ \A s \in held : view[d][s] = span[s]
             /\ \A c \in Clients : Holds(c, span) => \A s \in 1..Max(held) : view[c][s] = view[d][s]
  <2>1. PICK S : S = {s \in DOMAIN window : s >= i /\ s <= j}
    OBVIOUS
  <2>2. /\ S = held /\ DOMAIN Restrict(window, S) = S
        /\ \A s \in S : Restrict(window, S)[s] = view[d][s]
        /\ held \in SUBSET (1..Len(view[d]))
    <3>1. /\ DOMAIN Window(d, w) = {s \in 1..Len(view[d]) : view[d][s].epoch >= w}
          /\ \A s \in DOMAIN Window(d, w) : Window(d, w)[s] = view[d][s]
      BY WindowIs
    <3>2. /\ \A s \in DOMAIN window : s \in 1..Len(view[d]) /\ s \in Int
          /\ \A s \in DOMAIN window : window[s] = view[d][s]
      BY <1>7, <3>1, LenNat
    <3>3. S = held
      BY <1>7, <2>1, <3>2
    <3>4. PICK r : r = Restrict(window, S)
      OBVIOUS
    <3>5. DOMAIN r = S /\ \A s \in S : r[s] = window[s]
      BY <3>4 DEF Restrict
    <3>6. \A s \in S : s \in DOMAIN window
      BY <2>1
    <3> QED
      BY <3>2, <3>3, <3>4, <3>5, <3>6
  <2>3. WindowCommitted(receipt, Restrict(window, S), Proofs(span))
    BY <1>6, <1>8, <2>1 DEF VerifyConsolidationWindow
  <2>4. PICK h : h = Restrict(window, S)
    OBVIOUS
  <2>5. DOMAIN h # {} /\ \A s \in DOMAIN h : h[s] = span[s]
    <3>1. DOMAIN h \in SUBSET (i..j)
      BY <1>7, <2>2, <2>4
    <3> QED
      BY <1>1, <1>4, <2>3, <2>4, <3>1, CommittedBinds
  <2>6. held # {} /\ \A s \in held : view[d][s] = span[s]
    BY <2>2, <2>4, <2>5
  <2>7. ASSUME NEW c \in Clients, Holds(c, span), NEW s \in 1..Max(held)
        PROVE  view[c][s] = view[d][s]
    <3>1. PICK m : m = Max(held)
      OBVIOUS
    <3>2. m \in held /\ m \in 1..Len(view[d]) /\ m \in i..j
      <4>1. Len(view[d]) \in Nat
        BY LenNat
      <4> QED
        BY <1>7, <2>2, <2>6, <3>1, <4>1, MaxIn
    <3>3. m <= Len(view[c]) /\ view[c][m] = view[d][m]
      BY <1>1, <2>6, <2>7, <3>2 DEF Holds
    <3>4. m \in Nat /\ m # 0 /\ m <= Len(view[d])
      BY <3>2, LenNat
    <3> QED
      BY <2>7, <3>1, <3>3, <3>4, BackFrom
  <2> QED
    BY <2>6, <2>7
<1>9. ASSUME j <= Len(view[d]), NEW c \in Clients, Holds(c, span), NEW s \in 1..j,
             VerifyCheckpointAnchor(receipt, Admins, sig, j, view[d][j], OpenRefs(view[d][j]))
      PROVE  view[c][s] = view[d][s]
  <2>1. view[d][j].hash = span[j].hash
    BY <1>6, <1>9 DEF VerifyCheckpointAnchor
  <2>2. j <= Len(view[c]) /\ view[c][j] = span[j] /\ j # 0
    <3>1. j \in DOMAIN span /\ j # 0
      BY <1>1
    <3> QED
      BY <1>9, <3>1 DEF Holds
  <2> QED
    BY <1>9, <2>1, <2>2, BackFrom
<1> QED
  BY <1>1, <1>2, <1>3, <1>4, <1>5, <1>7, <1>8, <1>9

\* ReceiptBinds of every behaviour: a receipt over any run of heads, with the proofs that
\* go with it, is accepted only by a window that holds those very heads
\* (verify_consolidation_window, verify_checkpoint_anchor).
THEOREM ReceiptBindsSafe == Spec => []ReceiptBinds
<1>1. Init => IInv
  BY InitIInv
<1>2. IInv /\ [Next]_vars => IInv'
  BY NextIInv
<1> QED
  BY <1>1, <1>2, ReceiptBindsState, PTL DEF Spec

-----------------------------------------------------------------------------
(* Receipts that are accepted *)

\* As many signatures as a quorum asks for are made by admins.
LEMMA QuorumIs ==
  ASSUME NEW q \in Quorums
  PROVE  \E n \in Nat : /\ n # 0 /\ q[2] \in [1..n -> Admins] /\ q[1] <= n
                        /\ q[1] \in 1..2 /\ Admins # {}
<1>1. q[1] \in 1..2 /\ q[2] \in {<<a>> : a \in Admins} \cup {SetToSeq(Admins)} /\ q[1] <= Len(q[2])
  BY DEF Quorums
<1>2. ASSUME NEW n \in Nat, q[2] \in [1..n -> Admins]
      PROVE  n # 0 /\ q[1] <= n /\ Admins # {}
  <2>1. Len(q[2]) = n
    BY <1>2
  <2>2. q[1] <= n /\ n # 0
    BY <1>1, <1>2, <2>1
  <2>3. 1 \in 1..n
    BY <1>2, <2>2
  <2> QED
    BY <1>2, <2>2, <2>3
<1>3. CASE q[2] \in {<<a>> : a \in Admins}
  <2>1. q[2] \in [1..1 -> Admins]
    BY <1>3
  <2> QED
    BY <1>1, <1>2, <2>1
<1>4. CASE q[2] = SetToSeq(Admins)
  <2>1. PICK n : n = Cardinality(Admins)
    OBVIOUS
  <2>2. n \in Nat /\ ExistsBijection(1..n, Admins)
    BY <2>1, FS_CardinalityType DEF ConsolidateAssumption
  <2>3. PICK f \in [1..n -> Admins] : \A a, b \in 1..n : f[a] = f[b] => a = b
    BY <2>2 DEF ExistsBijection, Bijection, Injection, IsInjective
  <2>4. \E g \in [1..n -> Admins] : IsInjective(g)
    BY <2>3 DEF IsInjective
  <2>5. SetToSeq(Admins) \in [1..n -> Admins]
    BY <2>1, <2>4 DEF SetToSeq
  <2> QED
    BY <1>1, <1>2, <1>4, <2>2, <2>5
<1> QED
  BY <1>1, <1>3, <1>4

\* So the signatures of a quorum over a receipt are enough.
LEMMA QuorumSigns ==
  ASSUME NEW q \in Quorums, NEW receipt, NEW sig, sig = SignConsolidation(receipt, q[1], q[2])
  PROVE  Admins # {} /\ sig.sigs # <<>> /\ VerifyAdminAuthorization(receipt, Admins, sig)
<1>1. PICK n \in Nat : /\ n # 0 /\ q[2] \in [1..n -> Admins] /\ q[1] <= n
                       /\ q[1] \in 1..2 /\ Admins # {}
  BY QuorumIs
<1>2. PICK admins : admins = q[2]
  OBVIOUS
<1>3. DOMAIN admins = 1..n /\ \A x \in 1..n : admins[x] \in Admins
  BY <1>1, <1>2
<1>4. PICK sigs : sigs = sig.sigs
  OBVIOUS
<1>5. sigs = [x \in DOMAIN admins |-> [by |-> admins[x], over |-> receipt]] /\ sig.m = q[1]
  BY <1>2, <1>4 DEF SignConsolidation
<1>6. /\ DOMAIN sigs = 1..n
      /\ \A x \in 1..n : sigs[x].by \in Admins /\ sigs[x].over = receipt
  BY <1>3, <1>5
<1>7. sigs # <<>>
  BY <1>1, <1>6
<1>8. {x \in DOMAIN sigs : sigs[x].by \in Admins /\ sigs[x].over = receipt} = 1..n
  BY <1>6
<1>9. Cardinality(1..n) = n
  BY FS_Interval
<1>10. Cardinality({x \in DOMAIN sigs : sigs[x].by \in Admins /\ sigs[x].over = receipt}) >= sig.m
  BY <1>1, <1>5, <1>8, <1>9
<1> QED
  BY <1>1, <1>4, <1>7, <1>10 DEF VerifyAdminAuthorization

\* The commitment to one epoch of a run of heads.
Group(heads, e) == {s \in DOMAIN heads : heads[s].epoch = e}
Commitment(heads, group) ==
    [lo |-> Min(group), hi |-> Max(group), digest |-> {<<s, heads[s].hash>> : s \in group}]
LEMMA CommitmentIs ==
  ASSUME NEW heads, NEW e
  PROVE  /\ e \in DOMAIN EpochCommitments(heads) <=> Group(heads, e) # {}
         /\ e \in DOMAIN EpochCommitments(heads) =>
              EpochCommitments(heads)[e] = Commitment(heads, Group(heads, e))
<1>1. PICK all : all = EpochCommitments(heads)
  OBVIOUS
<1>2. DOMAIN all = {heads[s].epoch : s \in DOMAIN heads}
  BY <1>1 DEF EpochCommitments
<1>3. e \in DOMAIN all <=> Group(heads, e) # {}
  BY <1>2 DEF Group
<1>4. e \in DOMAIN all => all[e] = Commitment(heads, Group(heads, e))
  BY <1>1 DEF EpochCommitments, Commitment, Group
<1> QED
  BY <1>1, <1>3, <1>4

\* The commitments of a receipt cover those of a part that is cut off below a window and
\* above what was shown, and are the same where they cover the same.
CutOff(i, j, span, n, w, h) ==
    /\ DOMAIN h = {s \in i..j : s <= n /\ span[s].epoch >= w}
    /\ \A s \in DOMAIN h : h[s] = span[s]
LEMMA CommitmentsFit ==
  ASSUME NEW i \in Nat, NEW j \in Nat, i # 0, i <= j, NEW span, DOMAIN span = i..j,
         NEW n \in Nat, NEW w, NEW h, CutOff(i, j, span, n, w, h),
         NEW e \in DOMAIN EpochCommitments(h)
  PROVE  /\ e \in DOMAIN EpochCommitments(span)
         /\ LET mine == EpochCommitments(h)[e]
                theirs == EpochCommitments(span)[e] IN
            /\ mine.lo = theirs.lo /\ mine.hi = theirs.hi => mine.digest = theirs.digest
            /\ mine.lo >= theirs.lo /\ mine.hi <= theirs.hi
<1>1. PICK g, k : g = Group(h, e) /\ k = Group(span, e)
  OBVIOUS
<1>2. g = {s \in DOMAIN h : h[s].epoch = e} /\ k = {s \in i..j : span[s].epoch = e}
  BY <1>1 DEF Group
<1>3. /\ DOMAIN h = {s \in i..j : s <= n /\ span[s].epoch >= w}
       /\ \A s \in DOMAIN h : h[s] = span[s]
  BY DEF CutOff
<1>4. g # {} /\ EpochCommitments(h)[e] = Commitment(h, g)
  BY <1>1, CommitmentIs
<1>5. g \in SUBSET k /\ k \in SUBSET (1..j)
  BY <1>2, <1>3
<1>6. e \in DOMAIN EpochCommitments(span) /\ EpochCommitments(span)[e] = Commitment(span, k)
  BY <1>1, <1>4, <1>5, CommitmentIs
<1>7. PICK lo, hi, low, high : lo = Min(g) /\ hi = Max(g) /\ low = Min(k) /\ high = Max(k)
  OBVIOUS
<1>8. lo \in g /\ low \in k /\ \A s \in k : low <= s
  <2>1. \A s \in k : s \in Nat
    BY <1>5
  <2>2. k # {} /\ \A s \in g : s \in Nat
    BY <1>4, <1>5, <2>1
  <2> QED
    BY <1>4, <1>7, <2>1, <2>2, MinIn
<1>9. hi \in g /\ high \in k /\ \A s \in k : s <= high
  <2>1. k # {} /\ g \in SUBSET (1..j)
    BY <1>4, <1>5
  <2> QED
    BY <1>4, <1>5, <1>7, <2>1, MaxIn
<1>10. lo >= low /\ hi <= high
  <2>1. low <= lo /\ lo \in Nat /\ low \in Nat
    BY <1>5, <1>8
  <2>2. hi <= high
    BY <1>5, <1>9
  <2> QED
    BY <2>1, <2>2
<1>11. ASSUME hi = high
      PROVE  {<<s, h[s].hash>> : s \in g} = {<<s, span[s].hash>> : s \in k}
  <2>1. hi <= n /\ hi \in Nat /\ span[hi].epoch = e /\ span[hi].epoch >= w
    BY <1>2, <1>3, <1>5, <1>9
  <2>2. ASSUME NEW s \in k  PROVE s \in g
    <3>1. s <= hi /\ s \in Nat /\ s \in i..j /\ span[s].epoch = e
      BY <1>2, <1>5, <1>9, <1>11
    <3>2. s <= n
      BY <2>1, <3>1
    <3>3. s \in DOMAIN h
      BY <1>3, <2>1, <3>1, <3>2
    <3> QED
      BY <1>2, <1>3, <3>1, <3>3
  <2>3. g = k
    BY <1>5, <2>2
  <2>4. \A s \in g : h[s].hash = span[s].hash
    BY <1>2, <1>3
  <2> QED
    BY <2>3, <2>4
<1> QED
  BY <1>4, <1>6, <1>7, <1>10, <1>11 DEF Commitment

\* A window that holds the heads of a span that it reaches, and no others, passes the
\* checks of the tree and of the epochs.
LEMMA FitCommitted ==
  ASSUME NEW i \in Nat, NEW j \in Nat, i # 0, i <= j, NEW span, DOMAIN span = i..j, NEW refs,
         NEW n \in Nat, NEW w, NEW h, CutOff(i, j, span, n, w, h), DOMAIN h # {}
  PROVE  WindowCommitted(PlanCompaction(span, refs), h, Proofs(span))
<1>1. PICK receipt : receipt = PlanCompaction(span, refs)
  OBVIOUS
<1>2. /\ receipt.from = i /\ receipt.root = MerkleRoot(Leaves(span))
      /\ receipt.commitments = EpochCommitments(span)
  <2>1. /\ PlanCompaction(span, refs).from = Min(DOMAIN span)
        /\ PlanCompaction(span, refs).root = MerkleRoot(Leaves(span))
        /\ PlanCompaction(span, refs).commitments = EpochCommitments(span)
    BY DEF PlanCompaction
  <2> QED
    BY <1>1, <2>1, Ends
<1>3. PICK proofs : proofs = Proofs(span)
  OBVIOUS
<1>4. ASSUME NEW s \in DOMAIN h
      PROVE  /\ s \in DOMAIN proofs /\ proofs[s].index = s - receipt.from
             /\ MerkleRootFromPath(LogicalLeaf(s, h[s]), proofs[s].steps) = receipt.root
  <2>1. s \in i..j /\ h[s] = span[s]
    BY DEF CutOff
  <2>2. PICK head : head = span[s]
    OBVIOUS
  <2>3. DOMAIN proofs = i..j /\ proofs[s].index = s - i
    <3>1. DOMAIN proofs = i..j /\ proofs[s].index = s - Min(i..j)
      BY <1>3, <2>1 DEF Proofs
    <3> QED
      BY <3>1, Ends
  <2>4. MerkleRootFromPath(LogicalLeaf(s, head), Proofs(span)[s].steps) = MerkleRoot(Leaves(span))
    BY <2>1, <2>2, ProofsBind
  <2> QED
    BY <1>2, <1>3, <2>1, <2>2, <2>3, <2>4
<1>5. ASSUME NEW e \in DOMAIN EpochCommitments(h)
      PROVE  /\ e \in DOMAIN receipt.commitments
             /\ LET mine == EpochCommitments(h)[e]
                    theirs == receipt.commitments[e] IN
                /\ mine.lo = theirs.lo /\ mine.hi = theirs.hi => mine.digest = theirs.digest
                /\ mine.lo >= theirs.lo /\ mine.hi <= theirs.hi
  <2>1. /\ e \in DOMAIN EpochCommitments(span)
        /\ LET mine == EpochCommitments(h)[e]
               theirs == EpochCommitments(span)[e] IN
           /\ mine.lo = theirs.lo /\ mine.hi = theirs.hi => mine.digest = theirs.digest
           /\ mine.lo >= theirs.lo /\ mine.hi <= theirs.hi
    BY CommitmentsFit
  <2> QED
    BY <1>2, <2>1
<1>6. WindowCommitted(receipt, h, proofs)
  BY <1>4, <1>5 DEF WindowCommitted
<1> QED
  BY <1>1, <1>3, <1>6

\* The property holds in each state of the invariant.
LEMMA HonestReceiptsState == IInv => HonestReceipts
<1> SUFFICES ASSUME IInv, NEW c \in Clients, NEW d \in Clients, NEW i \in 1..Len(view[c]),
                    NEW j \in i..Len(view[c]), Comparable(c, d), NEW q \in Quorums
             PROVE  LET span == Span(c, i, j)
                        receipt == PlanCompaction(span, OpenRefs(span[j]))
                        proofs == Proofs(span)
                        sig == SignConsolidation(receipt, q[1], q[2]) IN
                    /\ \A w \in Epochs :
                        VerifyConsolidationWindow(receipt, Admins, sig, Window(d, w), proofs)
                            <=> DOMAIN Window(d, w) \cap (i..j) # {}
                    /\ j <= Len(view[d]) =>
                        VerifyCheckpointAnchor(receipt, Admins, sig, j, view[d][j],
                                               OpenRefs(view[d][j]))
  BY DEF HonestReceipts
<1>1. PICK m, n : m = Len(view[c]) /\ n = Len(view[d])
  OBVIOUS
<1>2. m \in Nat /\ n \in Nat /\ i \in Nat /\ j \in Nat /\ i # 0 /\ i <= j /\ j <= m
  BY <1>1, LenNat
<1>3. \A s \in 1..m : s <= n => view[d][s] = view[c][s]
  BY <1>1, <1>2 DEF Comparable, Extends
<1>4. PICK span : span = Span(c, i, j)
  OBVIOUS
<1>5. DOMAIN span = i..j /\ \A s \in i..j : span[s] = view[c][s]
  BY <1>4 DEF Span
<1>6. PICK refs : refs = OpenRefs(span[j])
  OBVIOUS
<1>7. PICK receipt : receipt = PlanCompaction(span, refs)
  OBVIOUS
<1>8. PICK proofs, sig : proofs = Proofs(span) /\ sig = SignConsolidation(receipt, q[1], q[2])
  OBVIOUS
<1>9. /\ receipt.from = i /\ receipt.to = j
      /\ receipt.checkpoint = [at |-> j, anchor |-> span[j].hash, refs |-> <<j, refs>>]
  BY <1>2, <1>5, <1>7, Ends DEF PlanCompaction
<1>10. Admins # {} /\ sig.sigs # <<>> /\ VerifyAdminAuthorization(receipt, Admins, sig)
  BY <1>8, QuorumSigns
<1>11. ASSUME NEW w \in Epochs
       PROVE  VerifyConsolidationWindow(receipt, Admins, sig, Window(d, w), proofs)
                <=> DOMAIN Window(d, w) \cap (i..j) # {}
  <2>1. PICK window : window = Window(d, w)
    OBVIOUS
  <2>2. /\ DOMAIN window = {s \in 1..n : view[d][s].epoch >= w}
        /\ \A s \in DOMAIN window : window[s] = view[d][s]
    <3>1. /\ DOMAIN Window(d, w) = {s \in 1..Len(view[d]) : view[d][s].epoch >= w}
          /\ \A s \in DOMAIN Window(d, w) : Window(d, w)[s] = view[d][s]
      BY WindowIs
    <3> QED
      BY <1>1, <2>1, <3>1
  <2>3. PICK S : S = {s \in DOMAIN window : s >= i /\ s <= j}
    OBVIOUS
  <2>4. S = DOMAIN window \cap (i..j)
    BY <1>2, <2>2, <2>3
  <2>5. S = {s \in i..j : s <= n /\ span[s].epoch >= w}
    <3>1. \A s \in i..j : s \in 1..m /\ s \in Nat
      BY <1>2
    <3>2. \A s \in i..j : s <= n => s \in 1..n /\ span[s] = view[d][s]
      <4> TAKE s \in i..j
      <4> SUFFICES ASSUME s <= n PROVE s \in 1..n /\ span[s] = view[d][s]
        OBVIOUS
      <4>1. s \in 1..m /\ s \in 1..n
        BY <1>2, <3>1
      <4>2. view[d][s] = view[c][s]
        BY <1>3, <4>1
      <4> QED
        BY <1>5, <4>1, <4>2
    <3>3. \A s \in 1..n : s \in Nat /\ s <= n
      BY <1>2
    <3> QED
      BY <2>2, <2>4, <3>2, <3>3
  <2>6. PICK h : h = Restrict(window, S)
    OBVIOUS
  <2>7. DOMAIN h = S /\ \A s \in S : h[s] = window[s]
    BY <2>6 DEF Restrict
  <2>8. \A s \in S : h[s] = span[s]
    BY <1>2, <1>3, <1>5, <2>2, <2>4, <2>7
  <2>9. S # {} => WindowCommitted(receipt, h, proofs)
    <3> SUFFICES ASSUME S # {} PROVE WindowCommitted(receipt, h, proofs)
      OBVIOUS
    <3>1. CutOff(i, j, span, n, w, h)
      BY <2>5, <2>7, <2>8 DEF CutOff
    <3>2. DOMAIN h # {}
      BY <2>7
    <3>3. DOMAIN span = i..j
      BY <1>5
    <3>4. WindowCommitted(PlanCompaction(span, refs), h, Proofs(span))
      BY <1>2, <3>1, <3>2, <3>3, FitCommitted
    <3> QED
      BY <1>7, <1>8, <3>4
  <2>10. WindowCommitted(receipt, h, proofs) => S # {}
    BY <2>7 DEF WindowCommitted
  <2>11. PICK cp : cp = receipt.checkpoint
    OBVIOUS
  <2>12. cp.at = j /\ cp.anchor = span[j].hash
    BY <1>9, <2>11
  <2>13. (cp.at \in S => h[cp.at].hash = cp.anchor) /\ cp.at >= i /\ cp.at <= j
    BY <1>2, <2>8, <2>12
  <2>14. VerifyConsolidationWindow(receipt, Admins, sig, window, proofs)
            <=> WindowCommitted(receipt, h, proofs)
    BY <1>9, <1>10, <2>3, <2>6, <2>11, <2>13 DEF VerifyConsolidationWindow
  <2> QED
    BY <2>1, <2>4, <2>9, <2>10, <2>14
<1>12. ASSUME j <= Len(view[d])
       PROVE  VerifyCheckpointAnchor(receipt, Admins, sig, j, view[d][j], OpenRefs(view[d][j]))
  <2>1. view[d][j] = span[j]
    <3>1. j \in 1..m /\ j <= n /\ j \in i..j
      BY <1>1, <1>2, <1>12
    <3> QED
      BY <1>3, <1>5, <3>1
  <2>2. PICK r, head : r = OpenRefs(view[d][j]) /\ head = view[d][j]
    OBVIOUS
  <2>3. r = refs /\ head = span[j]
    BY <1>6, <2>1, <2>2
  <2>4. VerifyCheckpointAnchor(receipt, Admins, sig, j, head, r)
    BY <1>2, <1>9, <1>10, <2>3 DEF VerifyCheckpointAnchor
  <2> QED
    BY <2>2, <2>4
<1> QED
  BY <1>4, <1>6, <1>7, <1>8, <1>11, <1>12

\* HonestReceipts of every behaviour: whatever part of its history an admin commits to,
\* under whatever quorum, each member of that history that holds a head of it accepts the
\* receipt, and a reader of the last head the checkpoint (verify_consolidation_window,
\* verify_checkpoint_anchor).
THEOREM HonestReceiptsSafe == Spec => []HonestReceipts
<1>1. Init => IInv
  BY InitIInv
<1>2. IInv /\ [Next]_vars => IInv'
  BY NextIInv
<1> QED
  BY <1>1, <1>2, HonestReceiptsState, PTL DEF Spec
=============================================================================
