----------------------------- MODULE MCHeadLog -----------------------------
(* Model-checking instances of HeadLog. *)
EXTENDS HeadLog, TLC

\* Head identities, request slots and reader slots are interchangeable.
Symmetry == Permutations(HeadId) \cup Permutations(Reqs) \cup Permutations(Readers)

\* Two requests race without readers, or one request with a reader, which lists or
\* reads the tip.
Lists(p) == scan[p] # IdleScan
ReadsTip(p) == tipRead[p] # IdleTipRead
WritersOrReaders ==
    \A p \in Readers :
        /\ ~(Lists(p) /\ ReadsTip(p))
        /\ Lists(p) \/ ReadsTip(p) => Cardinality({r \in Reqs : req[r] # IdleReq}) <= 1
=============================================================================
