---------------------------- MODULE Consolidate ----------------------------
(***************************************************************************)
(* Consolidation receipts (safehub-client/src/consolidate.rs): an admin    *)
(* commits to a span of the log with a Merkle root over its heads and a    *)
(* digest per epoch, and may publish a checkpoint of its last head; a      *)
(* member checks the receipt against the heads of its own window.  The     *)
(* state is that of ForkCompare; the histories of the admin and of the     *)
(* members may have been split by the host.                                *)
(*                                                                         *)
(* Digests are symbolic: a hash is the tuple of what it covers, the digest *)
(* of an epoch the set of its heads.  A span and a window are functions    *)
(* from seq to head.  Signatures are external: one is who made it and over *)
(* what.  The map of refs a head seals is that head's own.                 *)
(***************************************************************************)
EXTENDS HeadVerify, SequencesExt

CONSTANT Admins  \* the holders of admin keys

ASSUME ConsolidateAssumption == IsFiniteSet(Admins)

LogicalLeaf(s, head) == <<"leaf", s, head>>
Node(left, right) == <<"node", left, right>>

\* Mutant of NextLevel: the odd one out moves up as it is.
NextLevelPromote(level) ==
    [i \in 1..((Len(level) + 1) \div 2) |->
        IF 2 * i <= Len(level) THEN Node(level[2 * i - 1], level[2 * i]) ELSE level[2 * i - 1]]

\* An odd level duplicates its last node.
NextLevel(level) ==
    [i \in 1..((Len(level) + 1) \div 2) |->
        Node(level[2 * i - 1], level[IF 2 * i <= Len(level) THEN 2 * i ELSE 2 * i - 1])]

\* The loop of merkle_root and merkle_path: the levels from the leaves to the root, and
\* in each the place above leaf i.
Climb(leaves, i) ==
    LET up[k \in Nat] ==
            IF k = 0 THEN [level |-> leaves, at |-> i]
            ELSE LET below == up[k - 1] IN
                 [level |-> NextLevel(below.level), at |-> (below.at + 1) \div 2]
        top == Min({k \in 0..Len(leaves) : Len(up[k].level) = 1})
    IN [k \in 0..top |-> up[k]]

MerkleRoot(leaves) ==
    LET up == Climb(leaves, 1) IN up[Max(DOMAIN up)].level[1]

MerklePath(leaves, i) ==
    LET up == Climb(leaves, i) IN
    [k \in 1..Max(DOMAIN up) |->
        LET level == up[k - 1].level
            at == up[k - 1].at
            right == at % 2 = 1
            sibling == IF right THEN at + 1 ELSE at - 1
        IN [sibling |-> level[IF sibling <= Len(level) THEN sibling ELSE at], right |-> right]]

MerkleRootFromPath(leaf, path) ==
    LET running[k \in Nat] ==
            IF k = 0 THEN leaf
            ELSE IF path[k].right THEN Node(running[k - 1], path[k].sibling)
            ELSE Node(path[k].sibling, running[k - 1])
    IN running[Len(path)]

-----------------------------------------------------------------------------
(* The receipt *)

EpochCommitments(heads) ==
    [e \in {heads[s].epoch : s \in DOMAIN heads} |->
        LET group == {s \in DOMAIN heads : heads[s].epoch = e} IN
        [lo |-> Min(group), hi |-> Max(group), digest |-> {<<s, heads[s].hash>> : s \in group}]]

Leaves(span) == [i \in 1..Cardinality(DOMAIN span) |->
                    LET s == Min(DOMAIN span) + i - 1 IN LogicalLeaf(s, span[s])]

\* open_refs of a head, and the sealed bytes it opens.
OpenRefs(head) == <<"refs", head.hash>>
EncRefs(head) == <<"enc_refs", head.hash>>

\* plan_compaction (plan_consolidation and the checkpoint) of a span without gaps.
PlanCompaction(span, refs) ==
    LET at == Max(DOMAIN span) IN
    [from |-> Min(DOMAIN span), to |-> at, root |-> MerkleRoot(Leaves(span)),
     commitments |-> EpochCommitments(span),
     checkpoint |-> [at |-> at, anchor |-> span[at].hash, refs |-> <<at, refs>>]]

\* proof_for, for every head of the span.
Proofs(span) ==
    [s \in DOMAIN span |-> LET i == s - Min(DOMAIN span) IN
                           [index |-> i, steps |-> MerklePath(Leaves(span), i + 1)]]

\* sign_consolidation and sign_consolidation_quorum: m and the signatures, each over the
\* whole of the receipt, the checkpoint included.
SignConsolidation(receipt, m, admins) ==
    [m |-> m, sigs |-> [i \in DOMAIN admins |-> [by |-> admins[i], over |-> receipt]]]

\* verify_admin_authorization and verify_quorum_over: m of the signatures are good under
\* some admin key.
VerifyAdminAuthorization(receipt, vks, sig) ==
    Cardinality({i \in DOMAIN sig.sigs : sig.sigs[i].by \in vks /\ sig.sigs[i].over = receipt})
        >= sig.m

-----------------------------------------------------------------------------
(* Verification *)

\* Mutant of WindowCommitted: only the last head held is looked up in the tree.
WindowCommittedLast(receipt, held, proofs) ==
    LET last == Max(DOMAIN held) IN
    /\ DOMAIN held # {}
    /\ last \in DOMAIN proofs
    /\ MerkleRootFromPath(LogicalLeaf(last, held[last]), proofs[last].steps) = receipt.root

\* The window must hold its share of the span: every head hashes into the root at its
\* place, and each epoch's commitment covers it and agrees where the spans are the same.
WindowCommitted(receipt, held, proofs) ==
    LET local == EpochCommitments(held) IN
    /\ DOMAIN held # {}
    /\ \A s \in DOMAIN held :
        /\ s \in DOMAIN proofs
        /\ proofs[s].index = s - receipt.from
        /\ MerkleRootFromPath(LogicalLeaf(s, held[s]), proofs[s].steps) = receipt.root
    /\ \A e \in DOMAIN local :
        /\ e \in DOMAIN receipt.commitments
        /\ LET mine == local[e]
               theirs == receipt.commitments[e] IN
           /\ mine.lo = theirs.lo /\ mine.hi = theirs.hi => mine.digest = theirs.digest
           /\ mine.lo >= theirs.lo /\ mine.hi <= theirs.hi

\* verify_consolidation_window
VerifyConsolidationWindow(receipt, vks, sig, window, proofs) ==
    LET inSpan == {s \in DOMAIN window : s >= receipt.from /\ s <= receipt.to}
        held == Restrict(window, inSpan)
        cp == receipt.checkpoint IN
    /\ vks # {} /\ sig.sigs # <<>>
    /\ VerifyAdminAuthorization(receipt, vks, sig)
    /\ WindowCommitted(receipt, held, proofs)
    /\ cp.at \in inSpan => held[cp.at].hash = cp.anchor
    /\ cp.at >= receipt.from /\ cp.at <= receipt.to

\* verify_checkpoint_anchor, for a reader that has only the head at the checkpoint.
VerifyCheckpointAnchor(receipt, vks, sig, s, anchor, refs) ==
    LET cp == receipt.checkpoint IN
    /\ vks # {} /\ sig.sigs # <<>>
    /\ VerifyAdminAuthorization(receipt, vks, sig)
    /\ s = cp.at /\ anchor.hash = cp.anchor
    /\ <<cp.at, refs>> = cp.refs
    /\ cp.at >= receipt.from /\ cp.at <= receipt.to

\* `sh repo consolidate` of what client c is shown: the whole log, one signature, and
\* for the map of refs the sealed bytes of the last head.
ConsolidateCmd(c, admin) ==
    LET span == [s \in 1..Len(view[c]) |-> view[c][s]]
        receipt == PlanCompaction(span, EncRefs(span[Len(view[c])])) IN
    [receipt |-> receipt, sig |-> SignConsolidation(receipt, 1, <<admin>>)]

-----------------------------------------------------------------------------
(* Properties *)

Span(c, i, j) == [s \in i..j |-> view[c][s]]
Window(d, w) == Restrict(view[d], {s \in 1..Len(view[d]) : view[d][s].epoch >= w})
Quorums == {q \in (1..2) \X ({<<a>> : a \in Admins} \cup {SetToSeq(Admins)}) : q[1] <= Len(q[2])}

\* A receipt an admin makes of any part of its history, under any quorum, is accepted by
\* every member of that history that holds a head of it, whatever its window cuts off
\* and however the tree of an odd number of heads comes out; a reader that holds only
\* the last head accepts the checkpoint (verify_consolidation_window,
\* verify_checkpoint_anchor).
HonestReceipts ==
    \A c, d \in Clients : \A i \in 1..Len(view[c]) : \A j \in i..Len(view[c]) :
        LET span == Span(c, i, j)
            receipt == PlanCompaction(span, OpenRefs(span[j]))
            proofs == Proofs(span) IN
        Comparable(c, d) =>
            \A q \in Quorums : LET sig == SignConsolidation(receipt, q[1], q[2]) IN
                /\ \A w \in Epochs :
                    VerifyConsolidationWindow(receipt, Admins, sig, Window(d, w), proofs)
                        <=> DOMAIN Window(d, w) \cap (i..j) # {}
                /\ j <= Len(view[d]) =>
                    VerifyCheckpointAnchor(receipt, Admins, sig, j, view[d][j],
                                           OpenRefs(view[d][j]))

\* A receipt over any run of heads a host can put together is accepted only by a window
\* that holds the heads it was made of; and if it was made of one client's history, that
\* history and the member's agree from the first head to the last the member holds of
\* the span ("Pins the exact chain, so a receipt from a fork ... does not transfer").
ReceiptBinds ==
    \A d \in Clients, w \in Epochs, a \in Admins :
        \A span \in {f \in Listings(1, MaxSeq) : f # <<>> /\ Max(DOMAIN f) - Min(DOMAIN f) + 1
                                                             = Cardinality(DOMAIN f)} :
            LET top == Max(DOMAIN span)
                receipt == PlanCompaction(span, OpenRefs(span[top]))
                sig == SignConsolidation(receipt, 1, <<a>>)
                held == DOMAIN Window(d, w) \cap DOMAIN span IN
            /\ VerifyConsolidationWindow(receipt, Admins, sig, Window(d, w), Proofs(span)) =>
                /\ \A s \in held : view[d][s] = span[s]
                /\ \A c \in Clients : Holds(c, span) =>
                    \A s \in 1..Max(held) : view[c][s] = view[d][s]
            /\ top <= Len(view[d]) /\ VerifyCheckpointAnchor(receipt, Admins, sig, top,
                                            view[d][top], OpenRefs(view[d][top])) =>
                \A c \in Clients : Holds(c, span) => \A s \in 1..top : view[c][s] = view[d][s]

\* What `sh repo consolidate` signs is a checkpoint that a reader verifies from the last
\* head and the map of refs it opens ("checkpoint_refs is the decrypted ref-map plaintext
\* of the last head", plan_compaction).
CompactionAnchorVerifies ==
    \A c \in Clients, a \in Admins : LET n == Len(view[c]) IN
        n > 0 => VerifyCheckpointAnchor(ConsolidateCmd(c, a).receipt, Admins,
                     ConsolidateCmd(c, a).sig, n, view[c][n], OpenRefs(view[c][n]))
=============================================================================
