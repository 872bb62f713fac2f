------------------------------ MODULE RefPush ------------------------------
(***************************************************************************)
(* `sit push`, `sit push :ref`, `sit fetch`/`pull` and `sit clone` of      *)
(* several checkouts against one repository (safehub-cli/src/cmds/push.rs, *)
(* pull.rs, clone.rs and safehub-client/src/pushfetch.rs), and `git push`  *)
(* and `git fetch` through the remote helper (sit-remote-safehub).         *)
(*                                                                         *)
(* The server is the append-only log of HeadLogSpec: a head is appended    *)
(* exactly when the tip it was built on is still the last head, and the    *)
(* hash of a head is its place in the log.  Of a head's sealed contents    *)
(* the refs map, the non_ff claim and the commits in its bundle are kept.  *)
(*                                                                         *)
(*   role[c]         whether checkout c uses `sit`, git or only reads      *)
(*   have[c]         the commits in the object store of checkout c         *)
(*   appliedSeq[c]   .git/safehub/applied_seq, 0 when absent or unreadable *)
(*   appliedHead[c]  .git/safehub/applied_head, likewise                   *)
(*   push[c]         the push or ref deletion c is running                 *)
(*   fetch[c]        the fetch or clone c is running                       *)
(*                                                                         *)
(* A head_tip request, the listing of heads, the import of one bundle and  *)
(* the write of one marker file are one step each, and other checkouts     *)
(* step in between.  One command runs at a time in a checkout.  A command  *)
(* may stop at any step (an error, a kill, a lost answer).                 *)
(*                                                                         *)
(* Left out: HEAD and the working tree (what `pull` does with git merge or *)
(* rebase is GitCommit), chunks, keys and signatures.                      *)
(***************************************************************************)
EXTENDS Naturals, FiniteSets, Sequences

CONSTANTS Clients,
          Roles,      \* what the checkouts may do: functions from Clients to
                      \* "sit", "git" (through sit-remote-safehub) and "read"
          Refs,       \* ref names
          Tags,       \* those under refs/tags/
          MaxCommit,  \* bound: commits ever made
          MaxSeq,     \* bound: heads in the log
          MaxRetries, \* max_retries (DEFAULT_CAS_RETRIES)
          Faulty,     \* bound: the roles whose marker writes may fail
          NoRef       \* the ref of a push that is not under way

ASSUME RefPushAssumption ==
    /\ Roles \subseteq [Clients -> {"sit", "git", "read"}]
    /\ Tags \subseteq Refs
    /\ MaxCommit \in Nat
    /\ MaxSeq \in Nat
    /\ MaxRetries \in Nat
    /\ Faulty \subseteq {"sit", "read"}

VARIABLES role, log, anc, have, appliedSeq, appliedHead, push, fetch

marker == <<appliedSeq, appliedHead>>
vars == <<role, log, anc, have, appliedSeq, appliedHead, push, fetch>>

NoCommit == 0
Commit == 1..MaxCommit
RefsMap == [Refs -> Commit \cup {NoCommit}]

\* The refs map that the head at place s carries; none before the first head.
RefsAt(s) == IF s = 0 THEN [r \in Refs |-> NoCommit] ELSE log[s].refs

\* The commits reachable from a set of commits.  anc[k] holds k and its ancestors.
Reach(ks) == UNION {anc[k] : k \in ks}
Named(refs) == {refs[r] : r \in Refs} \ {NoCommit}
Made == {k \in Commit : anc[k] # {}}

\* The commits whose whole history the checkout holds.
Whole(c) == {k \in have[c] : anc[k] \subseteq have[c]}

IdlePush == [pc |-> "idle", helper |-> FALSE, dst |-> NoRef, new |-> NoCommit, nonff |-> FALSE,
             adds |-> {}, saw |-> 0, cli |-> 0, base |-> 0, tip |-> 0, attempt |-> 0]
IdleFetch == [pc |-> "idle", clone |-> FALSE, at |-> 0, to |-> 0]

Init ==
    /\ role \in Roles
    /\ log = <<>>
    /\ anc = [k \in Commit |-> {}]
    /\ have = [c \in Clients |-> {}]
    /\ appliedSeq = [c \in Clients |-> 0]
    /\ appliedHead = [c \in Clients |-> 0]
    /\ push = [c \in Clients |-> IdlePush]
    /\ fetch = [c \in Clients |-> IdleFetch]

Idle(c) == push[c].pc = "idle" /\ fetch[c].pc = "idle"

-----------------------------------------------------------------------------
\* git: commit, amend or merge on anything the checkout holds in full.
GitCommit(c) ==
    /\ role[c] # "read"
    /\ Idle(c)
    /\ \E k \in Commit, parents \in SUBSET Whole(c) :
        /\ k \notin Made /\ \A j \in Commit : j < k => j \in Made
        /\ Cardinality(parents) <= 2
        /\ anc' = [anc EXCEPT ![k] = {k} \cup Reach(parents)]
        /\ have' = [have EXCEPT ![c] = @ \cup {k}]
    /\ UNCHANGED <<role, log, marker, push, fetch>>

-----------------------------------------------------------------------------
(* Push *)

\* classify_ff on the one ref a push changes: a tag never moves, and what the
\* checkout cannot decide for want of the objects is not a fast-forward.
FastForward(c, r, old, new) ==
    \/ old = NoCommit
    \/ old = new
    \/ r \notin Tags /\ {old, new} \subseteq have[c] /\ old \in anc[new]

\* Mutant of Bundle: leaves out whatever local history holds, not what the remote has.
BundleSinceLocal(c, new, refs) == anc[new] \ Reach(have[c] \ {new})

\* build_bundle_and_refs: everything the new tip reaches less what the remote's
\* refs reach, as far as this checkout knows them.
Bundle(c, new, refs) == anc[new] \ Reach((Named(refs) \cap have[c]) \ {new})

\* push_bundle and push_bundle_reader, with all they are handed: attempt 0 of the loop.
PushBundle(helper, dst, new, nonff, adds, saw, cli) ==
    [pc |-> "baseline", helper |-> helper, dst |-> dst, new |-> new, nonff |-> nonff,
     adds |-> adds, saw |-> saw, cli |-> cli, base |-> 0, tip |-> 0, attempt |-> 0]

\* run_with_force up to push_bundle_reader.  An up-to-date ref, an empty bundle or
\* an update that is no fast-forward ends the command with nothing changed; a tip
\* that cannot be read does too, but counts as no tip under --force.
PushStart(c) ==
    /\ role[c] = "sit"
    /\ Idle(c)
    /\ \E dst \in Refs, new \in Whole(c), force \in BOOLEAN, cli \in {0, Len(log)} :
        LET refs == RefsAt(cli)
            adds == Bundle(c, new, refs)
            ff == FastForward(c, dst, refs[dst], new) IN
        /\ cli = Len(log) \/ force
        /\ refs[dst] # new
        /\ adds # {}
        /\ ff \/ force
        /\ push' = [push EXCEPT ![c] = PushBundle(FALSE, dst, new, ~ff \/ force, adds, cli, cli)]
    /\ UNCHANGED <<log, role, anc, have, marker, fetch>>

\* delete_remote_ref up to push_bundle.
DeleteStart(c) ==
    /\ role[c] # "read"
    /\ Idle(c)
    /\ \E dst \in Refs :
        /\ RefsAt(Len(log))[dst] # NoCommit
        /\ push' = [push EXCEPT ![c] = PushBundle(FALSE, dst, NoCommit, TRUE, {}, Len(log), Len(log))]
    /\ UNCHANGED <<log, role, anc, have, marker, fetch>>

\* What the helper tells git of the remote: the refs of the tip of some moment during
\* the command, or none at all if any of what it needs to read them fails.
HelperList(listed) == RefsAt(listed)

\* `git push` through the helper: git checks the update against the listing, then
\* do_push reads the tip, or takes it for empty, and bundles the whole history of the
\* new commit.  Only a "+" refspec makes it non_ff.  (":dst" is DeleteStart.)
HelperPush(c) ==
    /\ role[c] = "git"
    /\ Idle(c)
    /\ \E dst \in Refs, new \in Whole(c), force \in BOOLEAN,
          listed \in 0..Len(log), cli \in {0, Len(log)} :
        LET old == HelperList(listed)[dst] IN
        /\ old # new
        /\ FastForward(c, dst, old, new) \/ force
        /\ push' = [push EXCEPT ![c] = PushBundle(TRUE, dst, new, force, anc[new], listed, cli)]
    /\ UNCHANGED <<log, role, anc, have, marker, fetch>>

\* push_bundle_reader_with_retries_window reads the tip a second time, as the
\* baseline its retries compare with ...
ReadBaseline(c) ==
    /\ push[c].pc = "baseline"
    /\ push' = [push EXCEPT ![c].pc = "readTip", ![c].base = Len(log)]
    /\ UNCHANGED <<log, role, anc, have, marker, fetch>>

\* The refs the command set out to publish: what it first read, with its own ref.
Caller(p) == [RefsAt(p.cli) EXCEPT ![p.dst] = p.new]

\* reconcile_refs_for_cas
Intended(base, caller) == {r \in Refs : caller[r] \notin {NoCommit, base[r]}}
Deleted(base, caller) == {r \in Refs : caller[r] = NoCommit /\ base[r] # NoCommit}
Refused(base, caller, remote) ==
    \E r \in Intended(base, caller) : remote[r] \notin {NoCommit, base[r], caller[r]}
\* Mutant of Merged: publishes the planned map as it is.
MergedPlanned(base, caller, remote, nonff) == caller

Merged(base, caller, remote, nonff) ==
    [r \in Refs |->
        IF r \in Intended(base, caller) THEN caller[r]
        ELSE IF nonff /\ r \in Deleted(base, caller) THEN NoCommit
        ELSE remote[r]]

\* ... and at the start of every attempt a third time, to build the head on.
ReadTip(c) ==
    LET p == push[c] IN
    /\ p.pc = "readTip"
    /\ push' = [push EXCEPT ![c] =
         IF ~p.nonff /\ Refused(RefsAt(p.base), Caller(p), RefsAt(Len(log)))
         THEN IdlePush
         ELSE [p EXCEPT !.pc = "append", !.tip = Len(log)]]
    /\ UNCHANGED <<log, role, anc, have, marker, fetch>>

\* The head that this attempt posts; its non_ff claim is push[c].nonff.
PlannedHead(p) ==
    [refs |-> Merged(RefsAt(p.base), Caller(p), RefsAt(p.tip), p.nonff), adds |-> p.adds]

\* The chunks are up and the server takes the head.  The answer reaches the
\* command, which goes on to write its marker (a deletion and the helper write none),
\* or is lost.
AppendOk(c) ==
    LET p == push[c] IN
    /\ p.pc = "append"
    /\ p.tip = Len(log)
    /\ Len(log) < MaxSeq
    /\ log' = Append(log, PlannedHead(p))
    /\ push' \in {[push EXCEPT ![c] = IF p.helper \/ p.new = NoCommit THEN IdlePush
                                      ELSE [IdlePush EXCEPT !.pc = "recSeq", !.tip = p.tip + 1]],
                  [push EXCEPT ![c] = IdlePush]}
    /\ UNCHANGED <<role, anc, have, marker, fetch>>

\* Mutant of AppendConflict: one retry too many.
AppendConflictOnceMore(c) ==
    LET p == push[c] IN
    /\ p.pc = "append"
    /\ p.tip # Len(log)
    /\ push' = [push EXCEPT ![c] =
         IF p.attempt <= MaxRetries
         THEN [p EXCEPT !.pc = "readTip", !.attempt = @ + 1]
         ELSE IdlePush]
    /\ UNCHANGED <<log, role, anc, have, marker, fetch>>

\* Another head came first: start over from a fresh tip, or give up.
AppendConflict(c) ==
    LET p == push[c] IN
    /\ p.pc = "append"
    /\ p.tip # Len(log)
    /\ push' = [push EXCEPT ![c] =
         IF p.attempt < MaxRetries
         THEN [p EXCEPT !.pc = "readTip", !.attempt = @ + 1]
         ELSE IdlePush]
    /\ UNCHANGED <<log, role, anc, have, marker, fetch>>

\* std::fs::write of one marker, its result ignored: written, not written, or
\* cut short, which reads back as no marker.
WriteMarker(file, c, s) ==
    \E v \in IF role[c] \in Faulty THEN {s, file[c], 0} ELSE {s} : file' = [file EXCEPT ![c] = v]

\* record_applied_through
PushRecordSeq(c) ==
    /\ push[c].pc = "recSeq"
    /\ WriteMarker(appliedSeq, c, push[c].tip)
    /\ push' = [push EXCEPT ![c].pc = "recHead"]
    /\ UNCHANGED <<log, role, anc, have, appliedHead, fetch>>

PushRecordHead(c) ==
    /\ push[c].pc = "recHead"
    /\ WriteMarker(appliedHead, c, push[c].tip)
    /\ push' = [push EXCEPT ![c] = IdlePush]
    /\ UNCHANGED <<log, role, anc, have, appliedSeq, fetch>>

-----------------------------------------------------------------------------
(* Fetch and clone *)

\* verify_head_chain: the heads after the one marker must descend from the head
\* that the other names.  A checkout without the latter has nothing to compare.
ChainBroken(c) ==
    appliedHead[c] # 0 /\ appliedSeq[c] < Len(log) /\ appliedHead[c] # appliedSeq[c]

\* fetch_bundles_since lists the heads after the marker and checks their chain; if
\* it is broken the command ends there.  A clone is anchored at the zero hash.
FetchStart(c) ==
    /\ role[c] # "git"
    /\ Idle(c)
    /\ ~ChainBroken(c)
    /\ fetch' = [fetch EXCEPT ![c] =
         [pc |-> "tipCheck", clone |-> FALSE, at |-> appliedSeq[c], to |-> Len(log)]]
    /\ UNCHANGED <<log, role, anc, have, marker, push>>

CloneStart(c) ==
    /\ role[c] # "git"
    /\ Idle(c)
    /\ have[c] = {} /\ appliedSeq[c] = 0 /\ appliedHead[c] = 0
    /\ fetch' = [fetch EXCEPT ![c] =
         [pc |-> "tipCheck", clone |-> TRUE, at |-> 0, to |-> Len(log)]]
    /\ UNCHANGED <<log, role, anc, have, marker, push>>

\* What was listed ends before the tip that the server names afterwards.
LooksTruncated(c) == fetch[c].pc = "tipCheck" /\ fetch[c].to < Len(log)

TipCheck(c) ==
    LET f == fetch[c] IN
    /\ f.pc = "tipCheck"
    /\ fetch' = [fetch EXCEPT ![c] =
         IF LooksTruncated(c) \/ f.at = f.to THEN IdleFetch
         ELSE [f EXCEPT !.pc = "import"]]
    /\ UNCHANGED <<log, role, anc, have, marker, push>>

\* import_bundle_objects: all of the bundle or, with an error (Stop), nothing.
ImportBundle(objects, adds) == objects \cup adds

\* Mutant of Import: goes on when the bundle could not be imported.
ImportUnchecked(c) ==
    LET f == fetch[c]
        next == f.at + 1 IN
    /\ f.pc = "import"
    /\ \E got \in {{}, log[next].adds} : have' = [have EXCEPT ![c] = @ \cup got]
    /\ fetch' = [fetch EXCEPT ![c].at = next,
                              ![c].pc = IF f.clone /\ next < f.to THEN "import" ELSE "recSeq"]
    /\ UNCHANGED <<log, role, anc, marker, push>>

\* The next bundle in order; a fetch records it at once, a clone after the last.
Import(c) ==
    LET f == fetch[c]
        next == f.at + 1 IN
    /\ f.pc = "import"
    /\ have' = [have EXCEPT ![c] = ImportBundle(@, log[next].adds)]
    /\ fetch' = [fetch EXCEPT ![c].at = next,
                              ![c].pc = IF f.clone /\ next < f.to THEN "import" ELSE "recSeq"]
    /\ UNCHANGED <<log, role, anc, marker, push>>

\* record_applied_seq
FetchRecordSeq(c) ==
    /\ fetch[c].pc = "recSeq"
    /\ WriteMarker(appliedSeq, c, fetch[c].at)
    /\ fetch' = [fetch EXCEPT ![c].pc = "recHead"]
    /\ UNCHANGED <<log, role, anc, have, appliedHead, push>>

FetchRecordHead(c) ==
    LET f == fetch[c] IN
    /\ f.pc = "recHead"
    /\ WriteMarker(appliedHead, c, f.at)
    /\ fetch' = [fetch EXCEPT ![c] = IF f.at < f.to THEN [f EXCEPT !.pc = "import"]
                                     ELSE IdleFetch]
    /\ UNCHANGED <<log, role, anc, have, appliedSeq, push>>

\* do_fetch of the helper: the bundle of the tip alone, which git takes if the checkout
\* holds what it builds on; if not, the helper warns and goes on.  No marker is kept.
HelperFetch(c) ==
    LET adds == log[Len(log)].adds IN
    /\ role[c] = "git"
    /\ Idle(c)
    /\ log # <<>>
    /\ have' = [have EXCEPT ![c] = IF Reach(adds) \subseteq @ \cup adds THEN @ \cup adds ELSE @]
    /\ UNCHANGED <<log, role, anc, marker, push, fetch>>

-----------------------------------------------------------------------------
\* The command fails or is killed where it stands.
Stop(c) ==
    /\ ~Idle(c)
    /\ push' = [push EXCEPT ![c] = IdlePush]
    /\ fetch' = [fetch EXCEPT ![c] = IdleFetch]
    /\ UNCHANGED <<log, role, anc, have, marker>>

PushStep(c) ==
    \/ PushStart(c) \/ DeleteStart(c) \/ HelperPush(c) \/ ReadBaseline(c) \/ ReadTip(c)
    \/ AppendOk(c) \/ AppendConflict(c) \/ PushRecordSeq(c) \/ PushRecordHead(c)

FetchStep(c) ==
    \/ FetchStart(c) \/ CloneStart(c) \/ TipCheck(c) \/ Import(c)
    \/ FetchRecordSeq(c) \/ FetchRecordHead(c) \/ HelperFetch(c)

Next == \E c \in Clients : GitCommit(c) \/ PushStep(c) \/ FetchStep(c) \/ Stop(c)

Spec == Init /\ [][Next]_vars

-----------------------------------------------------------------------------
(* Properties *)

HeadRecord == [refs : RefsMap, adds : SUBSET Commit]
PushState == [pc : {"idle", "baseline", "readTip", "append", "recSeq", "recHead"},
              helper : BOOLEAN, dst : Refs \cup {NoRef}, new : Commit \cup {NoCommit}, nonff : BOOLEAN,
              adds : SUBSET Commit, saw : 0..MaxSeq, cli : 0..MaxSeq, base : 0..MaxSeq, tip : 0..MaxSeq,
              attempt : 0..MaxRetries]
FetchState == [pc : {"idle", "tipCheck", "import", "recSeq", "recHead"},
               clone : BOOLEAN, at : 0..MaxSeq, to : 0..MaxSeq]

TypeOK ==
    /\ role \in Roles
    /\ log \in Seq(HeadRecord) /\ Len(log) <= MaxSeq
    /\ anc \in [Commit -> SUBSET Commit]
    /\ have \in [Clients -> SUBSET Commit]
    /\ appliedSeq \in [Clients -> 0..MaxSeq]
    /\ appliedHead \in [Clients -> 0..MaxSeq]
    /\ push \in [Clients -> PushState]
    /\ fetch \in [Clients -> FetchState]

\* The bundles of the heads through any place of the log hold every commit that
\* the refs named there reach, whatever deltas, retries, forced pushes, deletions
\* and lost answers produced them (build_bundle_and_refs excludes only what some
\* earlier head's refs reach).  So a clone, which replays them all, lacks nothing.
ReplayComplete ==
    \A s \in 1..Len(log) :
        Reach(Named(log[s].refs)) \subseteq UNION {log[j].adds : j \in 1..s}

\* A checkout that only reads has, of every head through its applied marker, every
\* commit the refs reach: the marker never runs ahead of the imports, whichever of
\* its writes failed and wherever the fetch was cut off (pull.rs, clone.rs).
MarkerBacked ==
    \A c \in {d \in Clients : role[d] = "read"} : \A s \in 1..appliedSeq[c] :
        Reach(Named(log[s].refs)) \subseteq have[c]

\* Checkout c's head enters the log; what it does to one ref of its predecessor.
Posts(c) == push[c].pc = "append" /\ log' # log /\ push'[c] # push[c]
Touches(r) == log'[Len(log')].refs[r] # RefsAt(Len(log))[r]
Keeps(r) ==
    LET old == RefsAt(Len(log))[r] new == log'[Len(log')].refs[r] IN
    \/ old \in {NoCommit, new}
    \/ r \notin Tags /\ new # NoCommit /\ old \in anc[new]

SameTip(p) == {RefsAt(p.saw), RefsAt(p.cli)} = {RefsAt(p.base)}

\* A push, by `sit` or through the helper, whose baseline is the tip that its
\* fast-forward check saw changes its own ref and no other, and without --force loses no
\* commit of it and moves no tag, however many heads of other pushers its retries meet
\* (reconcile_refs_for_cas).
RetryKeepsOthersWork ==
    [][\A c \in Clients : Posts(c) /\ SameTip(push[c]) =>
        \A r \in Refs : Touches(r) =>
            /\ r = push[c].dst
            /\ push[c].nonff \/ Keeps(r)]_vars

\* reconcile_refs_for_cas: "This closes the race where attempt 0 could overwrite a
\* divergent tip that landed between the CLI fast-forward check and head append."
NoOverwriteRace ==
    [][\A c \in Clients : Posts(c) /\ ~push[c].nonff => Keeps(push[c].dst)]_vars
=============================================================================
