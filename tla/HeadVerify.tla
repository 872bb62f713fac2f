----------------------------- MODULE HeadVerify -----------------------------
(***************************************************************************)
(* What a reader checks of the heads a host lists, before it imports any   *)
(* of them (fetch_bundles_since and verify_fetched_heads of                *)
(* safehub-client/src/pushfetch.rs, verify_head_chain of policy.rs,        *)
(* `sh repo verify`).  The state is that of ForkCompare: `view[c]`, the    *)
(* histories the host has shown.  A host may answer a reader with any of   *)
(* the heads it has, in any selection.                                     *)
(*                                                                         *)
(* A listing is a function from seq to head.  The heads are the group's    *)
(* own: their epoch tags and leaf signatures hold (external), and of       *)
(* verify_fetched_heads the chain and the bound on the epoch are left.     *)
(***************************************************************************)
EXTENDS ForkCompare, FiniteSetsExt, Functions

NoAnchor == MaxHash + 1

\* The heads in existence at a place, and the listings a host can make up of those
\* between two places.
Known(s) == {view[c][s] : c \in {d \in Clients : Len(view[d]) >= s}}
Listings(from, to) ==
    UNION {{f \in [S -> UNION {Known(s) : s \in S}] : \A s \in S : f[s] \in Known(s)} :
           S \in SUBSET (from..to)}

Below(heads, s) == {t \in DOMAIN heads : t < s}

\* Mutant of VerifyHeadChain: only the numbers have to follow each other.
VerifyHeadChainSeq(heads, anchor) ==
    \A s \in DOMAIN heads : Below(heads, s) # {} => s = Max(Below(heads, s)) + 1

\* Each head names the one before it, the first the anchor, and the numbers have no gap.
VerifyHeadChain(heads, anchor) ==
    \A s \in DOMAIN heads :
        IF Below(heads, s) = {} THEN heads[s].prev = anchor
        ELSE /\ heads[s].prev = heads[Max(Below(heads, s))].hash
             /\ s = Max(Below(heads, s)) + 1

\* verify_fetched_heads: without an anchor the first head is taken as it is.  No head
\* may be sealed under an epoch the reader has not reached.
VerifyFetchedHeads(heads, epoch, anchor) ==
    LET first == Min(DOMAIN heads) IN
    /\ IF anchor # NoAnchor THEN VerifyHeadChain(heads, anchor)
       ELSE DOMAIN heads # {} =>
            VerifyHeadChain(Restrict(heads, DOMAIN heads \ {first}), heads[first].hash)
    /\ \A s \in DOMAIN heads : heads[s].epoch <= epoch

\* Mutant of FetchBundlesSince: holds a filtered listing against the anchor too.
FetchBundlesSinceAnchored(after, anchor, from, epoch, listing, tip) ==
    LET kept == {s \in DOMAIN listing : listing[s].epoch >= from}
        heads == Restrict(listing, kept) IN
    {h \in {heads} : /\ VerifyFetchedHeads(h, epoch, anchor)
                     /\ tip <= IF kept = {} THEN after ELSE Max(kept)}

\* fetch_bundles_since for a reader whose grant starts at epoch `from`: the heads below
\* it are dropped, and the anchor with them; the tip the host names must not lie beyond
\* what is left.  The heads to replay, or none if the fetch fails.
FetchBundlesSince(after, anchor, from, epoch, listing, tip) ==
    LET kept == {s \in DOMAIN listing : listing[s].epoch >= from}
        heads == Restrict(listing, kept)
        base == IF kept = DOMAIN listing THEN anchor ELSE NoAnchor IN
    {h \in {heads} : /\ VerifyFetchedHeads(h, epoch, base)
                     /\ tip <= IF kept = {} THEN after ELSE Max(kept)}

\* `sh repo verify` on a listing of the whole log: what the first head names is not
\* looked at.
RepoVerify(heads) ==
    \A s \in DOMAIN heads : Below(heads, s) # {} =>
        heads[s].prev = heads[Max(Below(heads, s))].hash /\ s = Max(Below(heads, s)) + 1

\* The hash of the last head a reader has applied of the first n of its view.
AnchorAt(c, n) == IF n = 0 THEN ZeroHash ELSE view[c][n].hash

-----------------------------------------------------------------------------
(* Properties *)

Holds(d, heads) == \A s \in DOMAIN heads : s <= Len(view[d]) /\ view[d][s] = heads[s]

\* Whatever heads a host serves, those a fetch or `sh repo verify` lets pass are a run
\* of one history; and if none were dropped for the reader's window, that history goes
\* on from the heads the reader has applied (verify_fetched_heads: "drop heads from
\* the middle ... or serve a fork").
OneHistory ==
    \A c \in Clients : \A n \in 0..Len(view[c]) : \A listing \in Listings(n + 1, MaxSeq) :
        /\ \A from \in Epochs, epoch \in Epochs :
             \A heads \in FetchBundlesSince(n, AnchorAt(c, n), from, epoch, listing, 0) :
                \E d \in Clients :
                    /\ Holds(d, heads)
                    /\ heads = listing /\ DOMAIN heads # {} => Holds(d, SubSeq(view[c], 1, n))
        /\ RepoVerify(listing) => \E d \in Clients : Holds(d, listing)

\* A host that hides nothing satisfies every reader, in any window, that has reached the
\* epochs of the heads, save one that is granted none of the heads there are: that
\* fetch fails although nothing is wrong (fetch_bundles_since).
HonestFetch ==
    \A c, d \in Clients : \A n \in 0..Len(view[c]) : \A from \in Epochs, epoch \in Epochs :
        LET listing == [s \in (n + 1)..Len(view[d]) |-> view[d][s]]
            granted == {s \in DOMAIN listing : listing[s].epoch >= from} IN
        Holds(d, SubSeq(view[c], 1, n)) =>
            FetchBundlesSince(n, AnchorAt(c, n), from, epoch, listing, Len(view[d])) =
                {h \in {Restrict(listing, granted)} :
                    /\ \A s \in granted : listing[s].epoch <= epoch
                    /\ granted # {} \/ n = Len(view[d])}
=============================================================================
