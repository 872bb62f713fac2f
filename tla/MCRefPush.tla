----------------------------- MODULE MCRefPush -----------------------------
(* Model-checking instances of RefPush. *)
EXTENDS RefPush, TLC

\* Checkouts are interchangeable, and so are branches.
Symmetry == Permutations(Clients) \cup Permutations(Refs \ Tags)

\* One checkout at least uses `sit`; or both do.
OneSit == {f \in [Clients -> {"sit", "git", "read"}] : \E c \in Clients : f[c] = "sit"}
BothSit == {[c \in Clients |-> "sit"]}

\* Two `sit` checkouts race over branches and tags, one of them and the helper over
\* branches; a reader follows one of them over a branch and a longer log.  Marker files
\* that disagree are left to the reader.
Tagging ==
    \/ \E s \in 1..Len(log), t \in Tags : log[s].refs[t] # NoCommit
    \/ \E c \in Clients : push[c].dst \in Tags
MarkerAgrees(c) ==
    appliedSeq[c] = appliedHead[c] \/ "recHead" \in {push[c].pc, fetch[c].pc}
RaceOrRead ==
    /\ Tagging => role \in BothSit
    /\ role \in BothSit => \A c \in Clients : MarkerAgrees(c)
    /\ Len(log) = MaxSeq => \E c \in Clients : role[c] = "read"
=============================================================================
