----------------------------- MODULE MCHistory -----------------------------
(* Model-checking instance of ForkCompare, HeadVerify and Consolidate. *)
EXTENDS Consolidate

CONSTANTS c1, c2, c3

\* c3 is on the other side of a Commit partition from epoch 1 on.
PartitionedKeys ==
    [c \in {c1, c2, c3} |-> [e \in Epochs |-> IF c = c3 /\ e > 0 THEN 1 ELSE 0]]

Symmetry == Permutations({c1, c2})
=============================================================================
