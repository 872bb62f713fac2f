------------------------------ MODULE SgitDiff ------------------------------
(***************************************************************************)
(* ComDiff_char, ComDiff_line and the block encoding of the sgit baseline  *)
(* (sgit-rs/src/diff.rs).                                                  *)
(*                                                                         *)
(* A text is a sequence of characters, which are numbers; one of them ends *)
(* a line.  An operation [idx, del, ins] removes del units at idx (counted *)
(* from 0) or inserts the text ins there; the code's Delete has no ins,    *)
(* its Insert no del.  A unit is a character or a line.                    *)
(***************************************************************************)
EXTENDS Naturals, Sequences, SequencesExt, FiniteSetsExt

CONSTANTS NL,         \* the character that ends a line
          EditCost,   \* EDIT_COST
          CharLcsCap, \* CHAR_LCS_CAP
          UvarBase    \* values of one byte of a varint (128)

ASSUME SgitDiffAssumption ==
    /\ {NL, EditCost, CharLcsCap} \subseteq Nat
    /\ UvarBase \in Nat \ {0, 1}

MinOf(x, y) == IF x < y THEN x ELSE y
LastN(s, n) == SubSeq(s, Len(s) - n + 1, Len(s))

Delete(idx, len) == [idx |-> idx, del |-> len, ins |-> <<>>]
Insert(idx, m) == [idx |-> idx, del |-> 0, ins |-> m]

-----------------------------------------------------------------------------
(* Applying operations *)

\* One operation on a sequence of units, clamped to its length.
Splice(v, o, units) ==
    LET s == MinOf(o.idx, Len(v))
        e == MinOf(s + o.del, Len(v)) IN
    SubSeq(v, 1, s) \o units \o SubSeq(v, e + 1, Len(v))

ApplyChars(text, ops) == FoldLeft(LAMBDA v, o : Splice(v, o, o.ins), text, ops)

\* The lines of a text: every line keeps its end; the last may have none.
SplitLines(text) ==
    LET step(acc, c) ==
            IF acc = <<>> \/ Last(Last(acc)) = NL THEN Append(acc, <<c>>)
            ELSE Append(Front(acc), Append(Last(acc), c))
    IN FoldLeft(step, <<>>, text)

-----------------------------------------------------------------------------
(* Longest common subsequence *)

\* lcs_pairs: the table of lengths, and one walk through it.
LcsPairs(a, b) ==
    LET cells == (1..(Len(a) + 1)) \X (1..(Len(b) + 1))
        ends(c) == c[1] > Len(a) \/ c[2] > Len(b)
        right(c) == <<c[1], c[2] + 1>>
        down(c) == <<c[1] + 1, c[2]>>
        diagonal(c) == <<c[1] + 1, c[2] + 1>>
        dp[c \in cells] ==
            IF ends(c) THEN 0
            ELSE IF a[c[1]] = b[c[2]] THEN dp[diagonal(c)] + 1
            ELSE Max({dp[down(c)], dp[right(c)]})
        walk[c \in cells] ==
            IF ends(c) THEN <<>>
            ELSE IF a[c[1]] = b[c[2]] THEN <<c>> \o walk[diagonal(c)]
            ELSE IF dp[down(c)] >= dp[right(c)] THEN walk[down(c)]
            ELSE walk[right(c)]
    IN walk[<<1, 1>>]

\* The stretches of a and b between one match and the next, the ends included.
Gaps(a, b, pairs) ==
    LET all == <<<<0, 0>>>> \o pairs \o <<<<Len(a) + 1, Len(b) + 1>>>> IN
    [k \in 1..(Len(pairs) + 1) |->
        [at |-> all[k][2],
         old |-> SubSeq(a, all[k][1] + 1, all[k + 1][1] - 1),
         new |-> SubSeq(b, all[k][2] + 1, all[k + 1][2] - 1)]]

\* Delete then insert at one place, each only if it does something.
Emit(at, del, ins) ==
    (IF del > 0 THEN <<Delete(at, del)>> ELSE <<>>)
    \o (IF ins # <<>> THEN <<Insert(at, ins)>> ELSE <<>>)

\* Mutant of OpsFromPairs: the running index does not count what was inserted.
OpsFromPairsOldIndex(old, new, pairs) ==
    LET gaps == Gaps(old, new, pairs) IN
    FlattenSeq([k \in DOMAIN gaps |->
        Emit(k - 1, Len(gaps[k].old), FlattenSeq(gaps[k].new))])

\* ops_from_pairs.  The running index is the number of new units before the gap.
OpsFromPairs(old, new, pairs) ==
    LET gaps == Gaps(old, new, pairs) IN
    FlattenSeq([k \in DOMAIN gaps |->
        Emit(gaps[k].at, Len(gaps[k].old), FlattenSeq(gaps[k].new))])

ComDiffLine(old, new) ==
    LET a == SplitLines(old)
        b == SplitLines(new) IN
    OpsFromPairs(a, b, LcsPairs(a, b))

-----------------------------------------------------------------------------
(* The character diff: segments and their cleanup *)

Seg(kind, s) == [kind |-> kind, s |-> s]
SegIf(kind, s) == IF s = <<>> THEN <<>> ELSE <<Seg(kind, s)>>

SegsFromPairs(a, b, pairs) ==
    LET gaps == Gaps(a, b, pairs) IN
    FlattenSeq([k \in DOMAIN gaps |->
        SegIf("del", gaps[k].old) \o SegIf("ins", gaps[k].new)
        \o (IF k <= Len(pairs) THEN <<Seg("eq", <<a[pairs[k][1]]>>)>> ELSE <<>>)])

\* An equality between edits that is too short becomes an edit itself.
Absorb(segs) ==
    FlattenSeq([i \in DOMAIN segs |->
        IF /\ segs[i].kind = "eq" /\ Len(segs[i].s) < EditCost
           /\ i > 1 /\ i < Len(segs)
        THEN <<Seg("del", segs[i].s), Seg("ins", segs[i].s)>>
        ELSE <<segs[i]>>])

\* Every run of edits becomes one delete and one insert; equalities join up.
MergeRuns(segs) ==
    LET none == [del |-> <<>>, ins |-> <<>>, eq |-> <<>>]
        step(runs, g) ==
            IF runs = <<>> \/ (g.kind # "eq" /\ Last(runs).eq # <<>>)
            THEN Append(runs, [none EXCEPT ![g.kind] = g.s])
            ELSE Append(Front(runs), [Last(runs) EXCEPT ![g.kind] = @ \o g.s])
        runs == FoldLeft(step, <<>>, segs) IN
    FlattenSeq([k \in DOMAIN runs |->
        SegIf("del", runs[k].del) \o SegIf("ins", runs[k].ins) \o SegIf("eq", runs[k].eq)])

\* cleanup repeats the two until nothing merges any more: every pass but the first and
\* the last turns an equality into an edit, so that no more passes than this change
\* anything.
Cleanup(segs) ==
    LET pass[n \in 0..(Len(segs) + 1)] ==
            IF n = 0 THEN segs ELSE MergeRuns(Absorb(pass[n - 1]))
    IN pass[Len(segs) + 1]

OpsFromSegs(segs, base) ==
    LET before(k) == base + FoldLeft(LAMBDA n, g : n + (IF g.kind = "del" THEN 0 ELSE Len(g.s)),
                                     0, SubSeq(segs, 1, k - 1)) IN
    FlattenSeq([k \in DOMAIN segs |->
        CASE segs[k].kind = "del" -> <<Delete(before(k), Len(segs[k].s))>>
          [] segs[k].kind = "ins" -> <<Insert(before(k), segs[k].s)>>
          [] OTHER -> <<>>])

\* com_diff_char: trim what the two have in common at either end, then the segments
\* of the middle, or one replacement of it when it is too long for an LCS.
ComDiffChar(old, new) ==
    LET limit == MinOf(Len(old), Len(new))
        p == Max({n \in 0..limit : SubSeq(old, 1, n) = SubSeq(new, 1, n)})
        s == Max({n \in 0..(limit - p) : LastN(old, n) = LastN(new, n)})
        a == SubSeq(old, p + 1, Len(old) - s)
        b == SubSeq(new, p + 1, Len(new) - s) IN
    IF Len(a) <= CharLcsCap /\ Len(b) <= CharLcsCap
    THEN OpsFromSegs(Cleanup(SegsFromPairs(a, b, LcsPairs(a, b))), p)
    ELSE Emit(p, Len(a), b)

-----------------------------------------------------------------------------
(* The encoding of a block of operations *)

PutUvar(v) ==
    LET put[n \in 0..v] ==
            IF n < UvarBase THEN <<n>>
            ELSE <<UvarBase + (n % UvarBase)>> \o put[n \div UvarBase]
    IN put[v]

\* The value at place i of b, and the place after it.  The code refuses a block that
\* ends early; here what is missing reads as nothing.
GetUvar(b, i) ==
    LET get[k \in 1..(Len(b) + 1)] ==
            IF k > Len(b) THEN [v |-> 0, next |-> k]
            ELSE IF b[k] < UvarBase THEN [v |-> b[k], next |-> k + 1]
            ELSE [v |-> (b[k] % UvarBase) + UvarBase * get[k + 1].v, next |-> get[k + 1].next]
    IN get[i]

EncodeOps(ops) ==
    FlattenSeq([k \in DOMAIN ops |->
        IF ops[k].ins = <<>>
        THEN <<0>> \o PutUvar(ops[k].idx) \o PutUvar(ops[k].del)
        ELSE <<1>> \o PutUvar(ops[k].idx) \o PutUvar(Len(ops[k].ins)) \o ops[k].ins])

DecodeOps(b) ==
    LET from[i \in 1..(Len(b) + 1)] ==
            LET idx == GetUvar(b, i + 1)
                n == GetUvar(b, idx.next) IN
            IF i > Len(b) THEN <<>>
            ELSE IF b[i] = 0
            THEN <<Delete(idx.v, n.v)>> \o from[n.next]
            ELSE IF n.next + n.v > Len(b) + 1 THEN <<>>
            ELSE <<Insert(idx.v, SubSeq(b, n.next, n.next + n.v - 1))>> \o from[n.next + n.v]
    IN from[1]
=============================================================================
