---------------------------- MODULE ForkCompare ----------------------------
(***************************************************************************)
(* Checkpoint exchange between clients (safehub-client/src/fork.rs): the   *)
(* host may show different clients different histories; two clients export *)
(* checkpoints of what they were shown, possibly of restricted windows,    *)
(* and compare them.                                                       *)
(*                                                                         *)
(*   view[c]  the heads shown to client c, in order; the place is the seq  *)
(*   fresh    the next unused head hash                                    *)
(*                                                                         *)
(* A view only grows: verify_head_chain refuses a fetch that does not      *)
(* continue it.  (export-checkpoint lists the log anew and does not hold   *)
(* the listing against what was fetched; only ForkedForEver needs that     *)
(* they are the same.)  A chain of ChainEntry is a function from seq to    *)
(* head, and the digest of an epoch's entries is the set of those entries. *)
(* The position a fork is reported at, the tip binding (a hash over the    *)
(* exported file itself) and the repository id are left out.               *)
(***************************************************************************)
EXTENDS Naturals, Sequences

CONSTANTS Clients,
          MaxSeq,    \* bound: heads in one view
          MaxEpoch,  \* bound: epochs
          MaxHash,   \* bound: distinct heads
          MacKey     \* MacKey[c][e]: mk_e as client c exported it

Seqs == 1..MaxSeq
Epochs == 0..MaxEpoch

ASSUME ForkCompareAssumption ==
    /\ MaxSeq \in Nat /\ MaxEpoch \in Nat /\ MaxHash \in Nat
    /\ MacKey \in [Clients -> [Epochs -> Nat]]

VARIABLES view, fresh

vars == <<view, fresh>>

ZeroHash == 0
ChainEntry == [hash : 1..MaxHash, prev : 0..MaxHash, epoch : Epochs]

TipHash(heads) == IF heads = <<>> THEN ZeroHash ELSE heads[Len(heads)].hash

Init ==
    /\ view = [c \in Clients |-> <<>>]
    /\ fresh = 1

-----------------------------------------------------------------------------
(* What clients come to hold *)

\* Mutant of Push: the head names the epoch after the one that sealed it.
PushNextEpoch(c, e) ==
    /\ Len(view[c]) < MaxSeq
    /\ fresh <= MaxHash
    /\ view[c] # <<>> => view[c][Len(view[c])].epoch <= e
    /\ view' = [view EXCEPT ![c] =
         Append(@, [hash |-> fresh, prev |-> TipHash(@), epoch |-> e + 1])]
    /\ fresh' = fresh + 1

\* A new head lands on the history that c is shown.  Its pusher opened the head
\* below, so the epochs of a chain never decrease (EpochKeys).
Push(c, e) ==
    /\ Len(view[c]) < MaxSeq
    /\ fresh <= MaxHash
    /\ view[c] # <<>> => view[c][Len(view[c])].epoch <= e
    /\ view' = [view EXCEPT ![c] =
         Append(@, [hash |-> fresh, prev |-> TipHash(@), epoch |-> e])]
    /\ fresh' = fresh + 1

\* Mutant of Fetch: the listing replaces what the client had (no anchor).
FetchUnanchored(c, d) ==
    /\ Len(view[c]) < Len(view[d])
    /\ view' = [view EXCEPT ![c] = view[d]]
    /\ UNCHANGED fresh

\* The host shows c the next head of the history it shows d; c accepts it if it
\* descends from the last head c has (verify_head_chain).
Fetch(c, d) ==
    LET n == Len(view[c]) IN
    /\ n < Len(view[d])
    /\ view[d][n + 1].prev = TipHash(view[c])
    /\ view' = [view EXCEPT ![c] = Append(@, view[d][n + 1])]
    /\ UNCHANGED fresh

Next ==
    \/ \E c \in Clients, e \in Epochs : Push(c, e)
    \/ \E c, d \in Clients : Fetch(c, d)

Spec == Init /\ [][Next]_vars

-----------------------------------------------------------------------------
(* RefCheckpoint *)

\* from_heads_windowed, and with_epoch_witness for each epoch in `attach`.
FromHeadsWindowed(c, w, attach) ==
    [window |-> w,
     chain |-> [s \in {t \in 1..Len(view[c]) : view[c][t].epoch >= w} |-> view[c][s]],
     witness |-> [e \in attach |-> MacKey[c][e]]]

\* Mutant of ChainInternallyValid: every head opens a new epoch.
ChainInternallyValidStrict(chain) ==
    \A s, t \in DOMAIN chain : s < t =>
        /\ s + 1 \in DOMAIN chain
        /\ chain[s + 1].prev = chain[s].hash
        /\ chain[s + 1].epoch > chain[s].epoch

\* chain_internally_valid: seq, prev and epoch of consecutive entries.
ChainInternallyValid(chain) ==
    \A s, t \in DOMAIN chain : s < t =>
        /\ s + 1 \in DOMAIN chain
        /\ chain[s + 1].prev = chain[s].hash
        /\ chain[s + 1].epoch >= chain[s].epoch

WellFormed(cp) ==
    /\ ChainInternallyValid(cp.chain)
    /\ \A s \in DOMAIN cp.chain : cp.chain[s].epoch >= cp.window

\* A Commit partition: both hold a witness of one epoch, and they disagree.
WitnessClash(a, b) ==
    \E e \in DOMAIN a.witness \cap DOMAIN b.witness : a.witness[e] # b.witness[e]

SharedWindow(a, b) == IF a.window > b.window THEN a.window ELSE b.window

Projection(chain, w) == {s \in DOMAIN chain : chain[s].epoch >= w}

Between(p, s) == (\E t \in p : t <= s) /\ (\E t \in p : s <= t)

\* lo..=hi: from the later first entry to the earlier last one of the projections.
SharedSeqs(a, b) ==
    LET pa == Projection(a.chain, SharedWindow(a, b))
        pb == Projection(b.chain, SharedWindow(a, b)) IN
    {s \in Seqs : Between(pa, s) /\ Between(pb, s)}

\* Mutant of Agree: an entry on both sides is enough.
AgreeOnHolding(a, b, s) ==
    s \in Projection(a.chain, SharedWindow(a, b))
        /\ s \in Projection(b.chain, SharedWindow(a, b))

\* Both hold entry s, with one hash and one epoch: no hole, no divergence.
Agree(a, b, s) ==
    /\ s \in Projection(a.chain, SharedWindow(a, b))
    /\ s \in Projection(b.chain, SharedWindow(a, b))
    /\ a.chain[s].hash = b.chain[s].hash
    /\ a.chain[s].epoch = b.chain[s].epoch

\* epoch_commitments: the entries of an epoch, and whether two spans are the same.
EpochEntries(chain, e) == {s \in DOMAIN chain : chain[s].epoch = e}
SameSpan(p, q) ==
    /\ \A s \in p : Between(q, s)
    /\ \A s \in q : Between(p, s)

CommitmentClash(a, b) ==
    \E e \in Epochs :
        LET pa == EpochEntries(a.chain, e)
            pb == EpochEntries(b.chain, e) IN
        /\ e >= SharedWindow(a, b)
        /\ pa # {} /\ pb # {}
        /\ SameSpan(pa, pb)
        /\ {<<s, a.chain[s].hash>> : s \in pa} # {<<s, b.chain[s].hash>> : s \in pb}

\* Whether the projection of a reaches further than that of b.
Ahead(a, b) ==
    LET pa == Projection(a.chain, SharedWindow(a, b))
        pb == Projection(b.chain, SharedWindow(a, b)) IN
    \E s \in pa : \A t \in pb : t < s

\* compare_checkpoints, in the order of its early returns.
CompareCheckpoints(a, b) ==
    IF ~WellFormed(a) \/ ~WellFormed(b) THEN "error"
    ELSE IF WitnessClash(a, b) THEN "forked: witness"
    ELSE IF SharedSeqs(a, b) = {} THEN "disjoint"
    ELSE IF \E s \in SharedSeqs(a, b) : ~Agree(a, b, s) THEN "forked: head"
    ELSE IF CommitmentClash(a, b) THEN "forked: commitment"
    ELSE IF Ahead(a, b) THEN "ahead: A"
    ELSE IF Ahead(b, a) THEN "ahead: B"
    ELSE "consistent"

-----------------------------------------------------------------------------
(* Properties *)

Forked == {"forked: witness", "forked: head", "forked: commitment"}
Agreement == {"consistent", "ahead: A", "ahead: B"}

TypeOK ==
    /\ view \in [Clients -> Seq(ChainEntry)]
    /\ \A c \in Clients : Len(view[c]) <= MaxSeq
    /\ fresh \in 1..(MaxHash + 1)

Verdict(c, d, w, v, A, B) ==
    CompareCheckpoints(FromHeadsWindowed(c, w, A), FromHeadsWindowed(d, v, B))

\* One client is where the other is or lags behind it.
Extends(c, d) ==
    /\ Len(view[d]) <= Len(view[c])
    /\ \A s \in 1..Len(view[d]) : view[c][s] = view[d][s]
Comparable(c, d) == Extends(c, d) \/ Extends(d, c)

InWindow(c, w) == view[c] # <<>> /\ view[c][Len(view[c])].epoch >= w

\* Views of one history never read as a fork or as a malformed export, whatever
\* their windows and however far one lags (compare_checkpoints: "a filtered window must
\* not be mistaken for a divergent chain"), and if the lagging view has a head in the
\* shared window, the verdict names the side that is ahead.
HonestViewsAgree ==
    \A c, d \in Clients, w, v \in Epochs, A, B \in SUBSET Epochs :
        LET u == IF w > v THEN w ELSE v IN
        Extends(c, d) /\ MacKey[c] = MacKey[d] =>
            Verdict(c, d, w, v, A, B) =
                IF ~InWindow(d, u) THEN "disjoint"
                ELSE IF Len(view[c]) > Len(view[d]) THEN "ahead: A" ELSE "consistent"

\* If two exports are found to agree then the two whole histories do, below the window
\* as well: the chain hash carries agreement on one head back to the first.
AgreementReachesBack ==
    \A c, d \in Clients, w, v \in Epochs, A, B \in SUBSET Epochs :
        Verdict(c, d, w, v, A, B) \in Agreement => Comparable(c, d)

\* Two clients with full histories that the host has split always find out
\* (fork.rs: "Cross-party equivocation (split views) is detected when two honest
\* clients exchange checkpoints").
SplitDetected ==
    \A c, d \in Clients, A, B \in SUBSET Epochs :
        ~Comparable(c, d) => Verdict(c, d, 0, 0, A, B) \in Forked

\* A host cannot join two histories again: once two views compare as forked, they do
\* so after every later push and fetch, in the same windows.
ForkedForEver ==
    [][\A c, d \in Clients, w, v \in Epochs, A, B \in SUBSET Epochs :
           Verdict(c, d, w, v, A, B) \in Forked => Verdict(c, d, w, v, A, B)' \in Forked]_vars

\* The per-epoch commitments never decide: a clash of two of them inside the shared
\* window always comes with divergent heads, which are found first.
CommitmentNeverDecides ==
    \A c, d \in Clients, w, v \in Epochs, A, B \in SUBSET Epochs :
        Verdict(c, d, w, v, A, B) # "forked: commitment"
=============================================================================
