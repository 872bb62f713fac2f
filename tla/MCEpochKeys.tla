---------------------------- MODULE MCEpochKeys ----------------------------
(* Model-checking instance of EpochKeys. *)
EXTENDS EpochKeys, TLC

\* Joiners are interchangeable.
Symmetry == Permutations(Joiners)

\* Longer logs and collaboration messages while all invites are full and nothing is
\* cut off; more keys otherwise, with the last of them for a shorter log.
Collab == \E i \in 1..Len(queue) : queue[i].kind = "collab"
PlainIsLonger ==
    IF plain THEN fresh < MaxKey
    ELSE Len(heads) <= (IF fresh = MaxKey THEN 1 ELSE 2) /\ ~Collab
=============================================================================
