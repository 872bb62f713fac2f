----------------------------- MODULE EpochKeys -----------------------------
(***************************************************************************)
(* Who can open what: the epoch material of the admin and of the members   *)
(* it invites (safehub-client/src/mls_local.rs), the commands that move it *)
(* (safehub-cli/src/cmds/repo.rs: invite, accept-welcome, rotate,          *)
(* remove-member), the heads sealed under it, and the collaboration        *)
(* messages in the same delivery queue (cmds/common.rs).                   *)
(*                                                                         *)
(*   epochFile[m]  epoch.json of member m                                  *)
(*   keystore      the admin's durable MLS group: epoch, keys, roster      *)
(*   acl           the users the server lets at the repository             *)
(*   queue         the delivery queue: Welcome grants and collab messages  *)
(*   heads         the sealed heads, oldest first                          *)
(*   op            the admin's command that is under way                   *)
(*   cursor[m], inbox[m]  mls_cursor.json and the inbox cache              *)
(*                                                                         *)
(* Every MLS commit exports fresh keys: a key is a number, drawn from      *)
(* `fresh`, that stands for the transport seed and the MAC key exported    *)
(* together.  backward_block draws a fresh token.  MLS itself and the AEAD *)
(* are external: a head opens under the seed that sealed it and no other.  *)
(*                                                                         *)
(* Left out: the joiner's own group state (it neither invites nor          *)
(* rotates), the grafted snapshot, key package renewal.                    *)
(***************************************************************************)
EXTENDS Naturals, FiniteSets, Sequences

CONSTANTS Admin, Joiners,
          NoOne,       \* the invitee of a command that invites nobody
          NoMaterial,  \* epoch.json does not exist
          FetchLimit,  \* messages in one mls_fetch (limit=100)
          SegmentCapacity,  \* DKR_SEGMENT_CAPACITY (2^20)
          MaxEpoch,    \* bound: epochs
          MaxKey,      \* bound: keys and tokens
          MaxHeads,    \* bound: heads
          MaxQueue,    \* bound: messages in the queue
          MaxComments  \* bound: collab messages among them

ASSUME EpochKeysAssumption ==
    /\ Admin \notin Joiners
    /\ NoOne \notin Joiners
    /\ {FetchLimit, SegmentCapacity, MaxEpoch, MaxKey, MaxHeads, MaxQueue, MaxComments} \subseteq Nat
    /\ MaxKey > 0  \* the key of bootstrap_repo_group

VARIABLES epochFile, keystore, acl, queue, heads, op, cursor, inbox, fresh,
          removedAt, \* history: how many heads there were when a removal was done
          plain      \* history: no forward-only invite and no command cut off so far

inboxVars == <<cursor, inbox>>
vars == <<epochFile, keystore, acl, queue, heads, op, cursor, inbox, fresh, removedAt, plain>>

Members == {Admin} \cup Joiners
Epochs == 0..MaxEpoch
NoKey == 0
Key == 1..MaxKey
NoPrior == [e \in Epochs |-> NoKey]

IdleOp == [pc |-> "idle", to |-> NoOne, removed |-> NoOne, history |-> "full",
           epoch |-> 0, key |-> NoKey]

\* bootstrap_repo_group, run by `sh repo create`.
Init ==
    /\ epochFile = [m \in Members |-> IF m = Admin
         THEN [epoch |-> 0, transport |-> 1, token |-> 1, from |-> 0, prior |-> NoPrior]
         ELSE NoMaterial]
    /\ keystore = [epoch |-> 0, roster |-> {}]
    /\ acl = {Admin}
    /\ queue = <<>>
    /\ heads = <<>>
    /\ op = IdleOp
    /\ cursor = [m \in Members |-> 0]
    /\ inbox = [m \in Members |-> {}]
    /\ fresh = 2
    /\ removedAt = [m \in Joiners |-> MaxHeads]
    /\ plain = TRUE

Has(m) == epochFile[m] # NoMaterial

-----------------------------------------------------------------------------
(* EpochMaterial *)

\* IntervalDkr::advance, on a segment that starts at epoch 0: beyond its capacity it
\* goes on with a random seed, which nobody has.
Advance(seed, e) == IF e + 1 > SegmentCapacity THEN NoKey ELSE seed

\* derive_epoch_key: nothing below the interval.
DeriveEpochKey(from, token, e) == IF e < from THEN NoKey ELSE token

\* epoch_key_at: the seed the material derives K_e from, if any.  The current
\* epoch uses the DKR token, an earlier one the transport seed kept for it.
SeedAt(mat, e) ==
    LET seed == IF e = mat.epoch THEN mat.token ELSE mat.prior[e]
    IN DeriveEpochKey(mat.from, Advance(seed, IF mat.epoch > e THEN mat.epoch ELSE e), e)

Opens(mat, h) == h.seed # NoKey /\ SeedAt(mat, h.epoch) = h.seed

\* EpochMaterial::inherit: keep the seeds of the epoch this material replaces.
Inherit(prev) == [prev.prior EXCEPT ![prev.epoch] = prev.transport]
Inherited(mat, prev) ==
    [mat EXCEPT !.prior = IF prev.epoch = mat.epoch THEN prev.prior ELSE Inherit(prev)]

-----------------------------------------------------------------------------
(* Push: a head is sealed under the pusher's current epoch.  The pusher has to
   read the refs of the tip first. *)

\* Mutant of Seal: pushes on a tip it cannot open.
SealBlind(m) ==
    /\ m \in acl /\ Has(m)
    /\ m = Admin => op.pc = "idle"
    /\ Len(heads) < MaxHeads
    /\ heads' = Append(heads, [epoch |-> epochFile[m].epoch, by |-> m,
                               seed |-> SeedAt(epochFile[m], epochFile[m].epoch)])
    /\ UNCHANGED <<epochFile, keystore, acl, queue, op, inboxVars, fresh, removedAt, plain>>

Seal(m) ==
    /\ m \in acl /\ Has(m)
    /\ m = Admin => op.pc = "idle"
    /\ Len(heads) < MaxHeads
    /\ heads # <<>> => Opens(epochFile[m], heads[Len(heads)])
    /\ heads' = Append(heads, [epoch |-> epochFile[m].epoch, by |-> m,
                               seed |-> SeedAt(epochFile[m], epochFile[m].epoch)])
    /\ UNCHANGED <<epochFile, keystore, acl, queue, op, inboxVars, fresh, removedAt, plain>>

-----------------------------------------------------------------------------
(* The admin's commands.  Each starts at the server's access list ... *)

Invite(j, history) ==
    /\ op.pc = "idle"
    /\ acl' = acl \cup {j}
    /\ op' = [IdleOp EXCEPT !.pc = "commit", !.to = j, !.history = history]
    /\ removedAt' = [removedAt EXCEPT ![j] = MaxHeads]
    /\ plain' = (plain /\ history = "full")
    /\ UNCHANGED <<epochFile, keystore, queue, heads, inboxVars, fresh>>

\* Mutant of RemoveMember: leaves the rotation to the operator.
RemoveMemberAclOnly(j) ==
    /\ op.pc = "idle"
    /\ j \in acl
    /\ acl' = acl \ {j}
    /\ removedAt' = [removedAt EXCEPT ![j] = Len(heads)]
    /\ UNCHANGED <<epochFile, keystore, queue, heads, op, inboxVars, fresh, plain>>

RemoveMember(j) ==
    /\ op.pc = "idle"
    /\ j \in acl
    /\ acl' = acl \ {j}
    /\ op' = [IdleOp EXCEPT !.pc = "commit", !.removed = j]
    /\ UNCHANGED <<epochFile, keystore, queue, heads, inboxVars, fresh, removedAt, plain>>

\* The access page of the browsing server: its invite and its rotate are the commands
\* (Invite, Rotate), its remove changes the access list and no key.
ApplyAccess(j) ==
    /\ op.pc = "idle"
    /\ j \in acl
    /\ acl' = acl \ {j}
    /\ UNCHANGED <<epochFile, keystore, queue, heads, op, inboxVars, fresh, removedAt, plain>>

Rotate ==
    /\ op.pc = "idle"
    /\ op' = [IdleOp EXCEPT !.pc = "commit"]
    /\ UNCHANGED <<epochFile, keystore, acl, queue, heads, inboxVars, fresh, removedAt, plain>>

(* ... makes an MLS commit in memory, on the group as the keystore has it, and
   saves the exported material.  Adding a user the roster holds is an error.  A
   forward-only invite seals under a token of its own from here on. *)

\* Mutant of NextMaterial: the old keys are not retained.
NextMaterialAlone(prev, epoch, key, token) ==
    [epoch |-> epoch, transport |-> key, token |-> token, from |-> 0, prior |-> NoPrior]

NextMaterial(prev, epoch, key, token) ==
    Inherited([epoch |-> epoch, transport |-> key, token |-> token, from |-> 0,
               prior |-> NoPrior], prev)

\* backward_block draws a token besides the keys of the commit.
BackwardBlock == fresh + 1

SaveMaterial ==
    LET e == keystore.epoch + 1
        block == op.to # NoOne /\ op.history = "forward_only"
        token == IF block THEN BackwardBlock ELSE fresh IN
    /\ op.pc = "commit"
    /\ op.to \notin keystore.roster
    /\ e <= MaxEpoch /\ token <= MaxKey
    /\ epochFile' = [epochFile EXCEPT ![Admin] = NextMaterial(@, e, fresh, token)]
    /\ fresh' = token + 1
    /\ op' = [op EXCEPT !.pc = "persist", !.epoch = e, !.key = fresh]
    /\ UNCHANGED <<keystore, acl, queue, heads, inboxVars, removedAt, plain>>

\* persist_group; for rotate and remove-member the command is done.
PersistGroup ==
    /\ op.pc = "persist"
    /\ keystore' = [epoch |-> op.epoch, roster |-> keystore.roster \cup ({op.to} \ {NoOne})]
    /\ op' = IF op.to = NoOne THEN IdleOp ELSE [op EXCEPT !.pc = "enqueue"]
    /\ removedAt' = [j \in Joiners |-> IF j = op.removed THEN Len(heads) ELSE removedAt[j]]
    /\ UNCHANGED <<epochFile, acl, queue, heads, inboxVars, fresh, plain>>

\* Mutants of Grant: every invite is granted as a full one; the window is left behind.
GrantFull(mat) ==
    [kind |-> "welcome", to |-> op.to, history |-> op.history, from |-> 0, token |-> mat.token,
     epoch |-> op.epoch, key |-> op.key, prior |-> mat.prior, upto |-> Len(heads)]
GrantBare(mat) ==
    [kind |-> "welcome", to |-> op.to, history |-> op.history,
     from |-> IF op.history = "full" THEN 0 ELSE op.epoch, token |-> mat.token,
     epoch |-> op.epoch, key |-> op.key, prior |-> NoPrior, upto |-> Len(heads)]

\* The WelcomeGrant.  A full grant carries the retained seeds, a forward-only one
\* starts at its own epoch and carries none.  `epoch` and `key` are what the joiner
\* exports from the Welcome; `upto`, the heads there are, is for the properties only.
Grant(mat) ==
    LET full == op.history = "full" IN
    [kind |-> "welcome", to |-> op.to, history |-> op.history,
     from |-> IF full THEN 0 ELSE op.epoch, token |-> mat.token,
     epoch |-> op.epoch, key |-> op.key,
     prior |-> IF full THEN mat.prior ELSE NoPrior, upto |-> Len(heads)]

EnqueueGrant ==
    /\ op.pc = "enqueue"
    /\ Len(queue) < MaxQueue
    /\ queue' = Append(queue, Grant(epochFile[Admin]))
    /\ op' = IdleOp
    /\ UNCHANGED <<epochFile, keystore, acl, heads, inboxVars, fresh, removedAt, plain>>

\* A command fails: at the commit (a user already in the roster, a group that does
\* not load), or it is cut off anywhere.
Fail ==
    /\ \/ op.pc = "commit" /\ op.to \in keystore.roster /\ UNCHANGED plain
       \/ op.pc # "idle" /\ plain' = FALSE
    /\ op' = IdleOp
    /\ UNCHANGED <<epochFile, keystore, acl, queue, heads, inboxVars, fresh, removedAt>>

-----------------------------------------------------------------------------
(* accept_welcome_mls *)

\* The grants in the first page of the queue, and the last of them.
GrantsIn(n) == {i \in 1..n : queue[i].kind = "welcome"}
FirstPage == IF Len(queue) < FetchLimit THEN Len(queue) ELSE FetchLimit
LastOf(S) == CHOOSE i \in S : \A k \in S : k <= i

\* The material replaces what was there.  The Welcome opens only for its addressee.
AcceptWelcome(j) ==
    LET g == queue[LastOf(GrantsIn(FirstPage))] IN
    /\ j \in acl
    /\ GrantsIn(FirstPage) # {}
    /\ g.to = j
    /\ epochFile' = [epochFile EXCEPT ![j] =
         [epoch |-> g.epoch, transport |-> g.key, token |-> g.token, from |-> g.from,
          prior |-> g.prior]]
    /\ UNCHANGED <<keystore, acl, queue, heads, op, inboxVars, fresh, removedAt, plain>>

-----------------------------------------------------------------------------
(* Collaboration messages *)

\* enqueue_collab: sealed under the sender's current MAC key.
Comment(m) ==
    /\ m \in acl /\ Has(m)
    /\ Len(queue) < MaxQueue
    /\ Cardinality({i \in 1..Len(queue) : queue[i].kind = "collab"}) < MaxComments
    /\ queue' = Append(queue, [kind |-> "collab", key |-> epochFile[m].transport])
    /\ UNCHANGED <<epochFile, keystore, acl, heads, op, inboxVars, fresh, removedAt, plain>>

\* sync_inbox: the next page; what opens under the current MAC key goes to the
\* inbox, and the cursor moves past all of it.
Page(m) == {i \in 1..Len(queue) : i > cursor[m] /\ i <= cursor[m] + FetchLimit}
Readable(m, i) == queue[i].kind = "collab" /\ queue[i].key = epochFile[m].transport

\* Mutant of SyncInbox: the cursor moves by a whole page.
SyncInboxWholePage(m) ==
    /\ m \in acl /\ Has(m)
    /\ Page(m) # {}
    /\ inbox' = [inbox EXCEPT ![m] = @ \cup {i \in Page(m) : Readable(m, i)}]
    /\ cursor' = [cursor EXCEPT ![m] = @ + FetchLimit]
    /\ UNCHANGED <<epochFile, keystore, acl, queue, heads, op, fresh, removedAt, plain>>

SyncInbox(m) ==
    /\ m \in acl /\ Has(m)
    /\ Page(m) # {}
    /\ inbox' = [inbox EXCEPT ![m] = @ \cup {i \in Page(m) : Readable(m, i)}]
    /\ cursor' = [cursor EXCEPT ![m] = LastOf(Page(m))]
    /\ UNCHANGED <<epochFile, keystore, acl, queue, heads, op, fresh, removedAt, plain>>

-----------------------------------------------------------------------------
AdminStep ==
    \/ \E j \in Joiners : ApplyAccess(j) \/ RemoveMember(j) \/ \E g \in {"full", "forward_only"} : Invite(j, g)
    \/ Rotate \/ SaveMaterial \/ PersistGroup \/ EnqueueGrant \/ Fail

Next ==
    \/ AdminStep
    \/ \E j \in Joiners : AcceptWelcome(j)
    \/ \E m \in Members : Seal(m) \/ Comment(m) \/ SyncInbox(m)

Spec == Init /\ [][Next]_vars

-----------------------------------------------------------------------------
(* Properties *)

Material == [epoch : Epochs, transport : Key, token : Key, from : Epochs,
             prior : [Epochs -> Key \cup {NoKey}]]
Message == [kind : {"collab"}, key : Key]
           \cup [kind : {"welcome"}, to : Joiners, history : {"full", "forward_only"},
                 from : Epochs, token : Key, epoch : Epochs, key : Key,
                 prior : [Epochs -> Key \cup {NoKey}], upto : 0..MaxHeads]

TypeOK ==
    /\ epochFile \in [Members -> Material \cup {NoMaterial}]
    /\ keystore \in [epoch : Epochs, roster : SUBSET Joiners]
    /\ acl \subseteq Members
    /\ queue \in Seq(Message) /\ Len(queue) <= MaxQueue
    /\ heads \in Seq([epoch : Epochs, seed : Key \cup {NoKey}, by : Members]) /\ Len(heads) <= MaxHeads
    /\ op \in [pc : {"idle", "commit", "persist", "enqueue"}, to : Joiners \cup {NoOne},
               removed : Joiners \cup {NoOne}, history : {"full", "forward_only"},
               epoch : Epochs, key : Key \cup {NoKey}]
    /\ cursor \in [Members -> 0..MaxQueue]
    /\ inbox \in [Members -> SUBSET (1..MaxQueue)]
    /\ fresh \in 1..(MaxKey + 1)
    /\ removedAt \in [Joiners -> 0..MaxHeads]
    /\ plain \in BOOLEAN

\* The grant a member's material came from.
Came(j, i) ==
    /\ queue[i].kind = "welcome" /\ queue[i].to = j
    /\ Has(j) /\ epochFile[j].transport = queue[i].key

\* A forward-only member opens no head that was sealed before its grant, whatever
\* rotations, interrupted invites and repeated epoch numbers there were (history_from,
\* the reseeded token and the empty prior_transport of invite_member_mls_with_graft).
ForwardOnlyWindow ==
    \A j \in Joiners, i \in 1..Len(queue) : Came(j, i) /\ queue[i].history = "forward_only" =>
        \A n \in 1..queue[i].upto : ~Opens(epochFile[j], heads[n])

\* Once remove-member is done, no head the admin seals opens under the material the
\* removed member holds (RepoCmd::RemoveMember: "Removal is the rekey").
RemovalRekeys ==
    \A j \in Joiners : Has(j) =>
        \A n \in (removedAt[j] + 1)..Len(heads) :
            heads[n].by = Admin => ~Opens(epochFile[j], heads[n])

\* The epochs of the log never decrease, although members push under material of any
\* age: who has not followed a commit cannot open a head sealed after it and so cannot
\* push on it.  chain_internally_valid and compare_checkpoints (fork.rs) rely on it.
HeadEpochsNeverDecrease ==
    \A n \in 2..Len(heads) : heads[n - 1].epoch <= heads[n].epoch

\* EpochMaterial::prior_transport: "A `RefHead` is sealed under the epoch that produced
\* it, so rotating must not orphan earlier heads": while invites are full and no command
\* is cut off, the admin opens every head there is.
NoOrphans == plain => \A n \in 1..Len(heads) : Opens(epochFile[Admin], heads[n])

\* "A full grant carries the retained window so the joiner can read the history it was
\* granted": under the same condition, who joined opens every head sealed before.
FullGrantReadsAll ==
    plain => \A j \in Joiners, i \in 1..Len(queue) : Came(j, i) /\ queue[i].history = "full" =>
        \A n \in 1..queue[i].upto : Opens(epochFile[j], heads[n])
=============================================================================
