------------------------------ MODULE MCCollab ------------------------------
(* Model-checking instance of Collab: two processes on one device, or on two. *)
EXTENDS Collab, TLC

CONSTANTS d1, d2, p1, p2
OneOrTwo == {h \in [{p1, p2} -> {d1, d2}] : h[p1] = d1}

\* Kills and new keys are a matter of the inbox, not of what the messages say: the
\* topics with many messages have fewer of them.
Kills == [t \in Topics |-> IF t \in {"project"} THEN 1 ELSE 0]
Rekeys == [t \in Topics |-> IF t \in {"project", "label"} THEN 1 ELSE 0]
\* Sharing an inbox is a matter of issues as much as of pull requests.
PullsApart == topic = "pr" => \A p, q \in Procs : p # q => home[p] # home[q]
TextSymmetry == Permutations(Texts)
=============================================================================
