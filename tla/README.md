# SafeHub in TLA+

SafeHub is an end-to-end encrypted git host: an untrusted server keeps sealed
bundles and a hash-chained log of sealed ref manifests ("heads"), and clients
(`sit`, `shub`) push, fetch and clone through it under keys that an MLS group
hands out epoch by epoch. This directory holds TLA+ models of that program, TLC
configurations that check them on small instances, and TLAPS proofs that hold
for every instance. All paths below are relative to `src/code/crates/`.

## The system

| Component | State | Operations | Interacts with |
|---|---|---|---|
| Head log (`safehub-storage/src/local.rs`) | `heads/{repo}/log/{n}.bin`, `tip.bin`, a legacy `tip.json`, `head_lock` | `tip`, `cas_append`, `since` | routes, by call |
| Blob store, delivery queue, key log, repository directory, key packages (`local.rs`) | one file per item, no lock | put/get, enqueue/fetch, append, create/update | routes |
| Server routes (`safehub-server/src/routes.rs`), access list (`browse.rs`) | the store and the members file | HTTP handlers, one task each | store, access list, accounts |
| Accounts (`users.rs`, forms of `ui.rs`), collaboration index (`collab.rs`) | a map in memory and on disk; one JSON file per repository | register, login, tokens; issues, pull requests | routes |
| HTTP client (`safehub-client/src/http.rs`) | none | requests, the paging loop `heads_since` | server |
| Push and fetch (`pushfetch.rs`, `policy.rs`, CLI `push.rs`, `pull.rs`, `clone.rs`) | object store of the checkout, `applied_seq`, `applied_head` | push, forced push, ref deletion, fetch, pull, clone | HTTP client, git |
| Epoch material (`mls_local.rs`, CLI `repo.rs`) | `epoch.json`, the durable MLS group, admin key | bootstrap, invite, accept-welcome, rotate, remove-member | delivery queue, access list |
| Collaboration messages (CLI `common.rs`, `issue.rs`, `pr.rs`, `label.rs`, ..., `safehub-browse/src/routes.rs`) | `mls_cursor.json`, inbox cache | `sync_inbox`, the folds, `enqueue_collab` and the commands and pages that use them | delivery queue |
| Fork comparison (`fork.rs`), consolidation (`consolidate.rs`) | exported checkpoint files; receipts | export, compare; plan, sign, verify a compaction | head log |
| Remote helper (`sit-remote-safehub`) | none | list, push, fetch for plain git | pushfetch |
| sgit baseline (`sgit-rs`) | plaintext tree, ciphertext repository, snapshot, tag | init, clone, push, pull; the library's update, share, pull | a git server |
| Crypto (`safehub-crypto`), types, HTML rendering, evaluation | - | - | - |

What is hard here:

* **Concurrency.** Any number of clients push at once. On the server only
  `cas_append` takes a lock; every read, and every write of the other stores,
  is a series of system calls that other handlers interleave with.
* **Failure.** A handler is dropped where it awaits when its client goes away;
  the server can stop between any two writes; a CLI command can end between any
  two of its requests and file writes, and several write errors are ignored.
* **Stale reads.** A push reads the tip three times (for its fast-forward check,
  as baseline, and for each attempt) and other pushes land in between.
* **Key continuity.** What was sealed in an epoch has to stay readable for
  those entitled to it, and unreadable for the others, through any sequence of
  rotations, grants and removals, half-finished ones included.

What makes each component correct: the head log is one acknowledged chain and
its readers miss nothing; what the server acknowledged of the other files is
there afterwards; a push changes what it was asked to change and the bundles in
the log suffice to rebuild every ref; a checkout's marker never runs ahead of its
objects; what a reader accepts is one history, and a receipt commits to it; the
epoch material opens exactly what was granted; an inbox skips nothing; a sgit
remote decodes to what was pushed.

PROJECT.json lists every component with what is and is not modelled, and the
hazards with the properties that watch them.

## Modules

| Module | What it is |
|---|---|
| `HeadLogSpec` | What `trait HeadLog` promises: an append-only chain, and acknowledgements only for what is in it. |
| `HeadLog` | `LocalStore` file by file, the three head routes and the client's paging loop. Implements `HeadLogSpec`. |
| `HeadLogProofs` | TLAPS proofs about `HeadLog`. |
| `RefPush` | push, deletion, fetch, clone and the remote helper of several checkouts against the log of `HeadLogSpec`. |
| `EpochKeys` | epoch material, membership commands, sealed heads, the inbox cursor. |
| `ForkCompare` | clients' views of a host that may show different histories, and the comparison of their checkpoints. |
| `HistoryProofs` | TLAPS proofs about `ForkCompare`, `HeadVerify` and `Consolidate`. |
| `RefPushProofs`, `EpochKeysProofs`, `HostProofs`, `CollabProofs`, `SgitProofs` | TLAPS proofs about these modules. |
| `HostStayProofs` | TLAPS proof of `AckedStay` of `Host`, on top of `HostProofs`. |
| `HeadVerify` | extends `ForkCompare`: what a fetch and `sh repo verify` accept of the listings such a host can serve. |
| `Consolidate` | extends `HeadVerify`: Merkle receipts over a span of such a history and their verification. |
| `HostAccounts`, `Host` | accounts and tokens; every file of the server that no lock guards, and the requests that change them. `Host` extends `HostAccounts`. |
| `Collab` | the inbox of collaboration messages, the folds over it, the commands and pages that send them. |
| `SgitDiff`, `Sgit` | the diffs of the sgit baseline as operators; its tool and its library. `Sgit` extends `SgitDiff`. |
| `MCHeadLog`, `MCRefPush`, `MCEpochKeys`, `MCHistory`, `MCSgit`, `MCHost`, `MCCollab` | instances, symmetry sets and state constraints for TLC. |

Operators commented as mutants are plausible bugs in one operation, used to
show that a property can fail; no specification refers to them.

### HeadLog

`Submit` is a client's POST with any head; the server cannot look inside it.
`CasRefuse` and `CasAccept` are `cas_append` from the lock to the comparison of
predecessor and number, one step because both happen under `head_lock` and only
the holder writes. `WriteLog`, `WriteTip`, `RemoveLegacyTip` and `Reply` are the
writes and the answer; `Abort` and `Crash` may fall between any two of them and
free the lock. `atomic_write_sync` (temporary file, fsync, rename, fsync) is one
step. Readers take no lock: `StartSince`, `ReadEntry` list and read the log
directory entry by entry, in any order, seeing files created meanwhile or not;
`ShortPage` and `FullPage` are the client's loop; `StartTip`, `CheckJson`,
`ReadTip` are the two existence checks and the read of `tip`.

A head is an identity, a number and the identity of its predecessor; distinct
contents have distinct hashes. A file operation that the runtime's blocking
pool finishes after its request was dropped is left out.

### RefPush

The log is a sequence, and a head's hash is its place in it; `HeadLogSpec` is what
entitles this module to an atomic append. Commits are numbers with a set of
ancestors, bundles are sets of commits. `PushStart` is the command up to
the call of `push_bundle_reader` (first read of the tip, fast-forward check, bundle),
`ReadBaseline` the second read, `ReadTip` the one at the start of an attempt
together with `reconcile_refs_for_cas`, `AppendOk` and `AppendConflict` the
server's answer. The marker files are written one at a time, and for roles
in `Faulty` each write may fail or be cut short. `Stop` ends any command
anywhere. Not in the model: the working tree, chunks, seals and signatures, and
members with a restricted window (`HeadVerify` has those).

A checkout has a `role`: it uses `sit`, or plain git through
`sit-remote-safehub`, or only reads. The helper's push (`HelperPush`) lists the
refs, builds a bundle and joins the same retry loop without the
fast-forward check of `sit`; its fetch (`HelperFetch`) imports the bundle of the tip
alone and writes no marker.

### EpochKeys

A key is a fresh number per MLS commit, a token is the key or, for a
forward-only invite, a fresh number of its own. `SaveMaterial`, `PersistGroup`
and `EnqueueGrant` are the three durable effects of an invite, in the code's
order; rotate and remove-member share the first two, and `ApplyAccess` is the access
page, which drops a member and does not rekey. `Fail` ends a command between any
two; the history variable `plain` says that none was and that all grants were
full, which is what `NoOrphans` and `FullGrantReadsAll` are conditional on.
`Advance`, `DeriveEpochKey` and `BackwardBlock` are the key regression as far as
it decides which seed stands for an epoch, with `SegmentCapacity` for its 2^20.
MLS and the AEAD are external: a commit exports fresh keys, adding a user who is
in the group fails, a Welcome opens for its addressee, a seal opens under its own
seed. The queue is an atomic list here. Not in the model: the joiner's group
state, the grafted snapshot, and renewed key packages.

### ForkCompare

`view[c]` is the history client c has been shown. `Push` is a new head on it,
`Fetch` the next head of a history that somebody else was shown, accepted if it
descends from c's last one. Export and comparison are operators on the views,
quantified in the properties over all pairs of clients, windows and sets of
attached witnesses; every lagging or split pair of views is a reachable state.
`CompareCheckpoints` keeps the order of the code's early returns. `export-checkpoint`
lists the log anew instead of exporting what was fetched; the model takes the two to
be the same, which only `ForkedForEver` needs.

`HeadLog` and `EpochKeys` support this module: the former shows that a listing
is a chain, the latter (`HeadEpochsNeverDecrease`) that a window is its end.

### HeadVerify and Consolidate

Both add operators to the state of `ForkCompare` and no variable. A listing is a
function from seq to head; a host may answer with any selection of the heads that
exist at each place, from any history, and the properties quantify over all of
them, over every anchor and every window. `FetchBundlesSince` returns the set of
what is let through: one listing or none. In `Consolidate` a digest is the tuple of
what it covers, a signature who made it and over what. `PlanCompaction`,
`MerkleRoot`, `MerklePath` and the verifications keep the code's order of refusals;
`ConsolidateCmd` is `sh repo consolidate`. `Climb` is the loop that `merkle_root` and
`merkle_path` share, level by level. A span is never empty, so the root of no leaves is
left out.

### Host and HostAccounts

`file` holds the directory, access list, delivery queue, blobs, key log, key
packages and collaboration index of one repository. A request checks the
repository's id (`CheckId`) and its caller (`CheckMember`), loads (`Load`), and then
does the writes its handler decided on, one file after the other. `fs::write`
truncates and then fills (`BeginWrite`, `EndWrite`), so a file in between, or after
a write that failed or was killed there, does not parse; two writes that overlap on
a file leave either's contents or neither's. What each handler writes is a pure
operator (`DirectoryWrites`, `AccessWrites`, `BlobWrites`, `MlsEnqueue`, `IssueRoutes`,
`PullRoutes`, `KeyLogWrites`, `PackageWrites`). `ListQueue` and `Fetch` are the
listing and the reading of a page. A behaviour is about one `family` of requests:
families share no file but the directory and the access list, which only their own
families change. The history variable `kept` records what was answered with
success and not overlapped while under way; a later change of the same thing takes
it out.

In `HostAccounts` a request changes the map in memory, writes the temporary file,
renames it and answers, all under the write lock; a registration issues and persists
a session too before it gives the lock up. `PersistFails` and `Kill` may come anywhere; a store
that does not parse opens as an empty one.

### Collab

A process runs a command or serves a page; two processes of one device share
cursor and cache. `LoadCursor`, `FetchPage`, `CacheOne` (per message), `SaveCursor`,
`Fold`, `Send` are the steps, `SendDirect` the commands that do not sync first. A
behaviour is about one `topic` of eleven. Messages keep the fields that the folds
tell apart, and in addition, for the properties, `asked` (the fields the user named)
and `had` (the messages the sender had). `Kill` may tear the file being written; the
history variable `missed` holds the messages a sync had no key for or that were torn
when they were already past the cursor.

### Sgit

`front` chooses the tool or the library, `variant` characters or lines. The tool's
push writes ciphertext files, tag, snapshot, commit and remote one at a time, and
`Cut` may end it anywhere; `torn` remembers a cut after a ciphertext write and before
the snapshot. `SgitDiff` has the line and character diffs, their clean-up and their
encoding as operators with the code's constants as parameters; `PullFaithful` checks
them against the texts they were made from.

## Runs

| Run | Bounds | What it shows |
|---|---|---|
| `HeadLog` | 2 requests, 1 reader, 3 heads, 3 places, pages of 2 | the log stays one chain, acknowledged heads stay, at most one linked head lies beyond the tip, a paged listing misses no head, a tip read is committed and not stale, and the files implement `HeadLogSpec` |
| `HeadLogLiveness` | 2 requests, 2 heads, 2 places | every post is answered |
| `HeadLogListing` | violation | a listing returns a head beyond the tip that the next append replaces |
| `RefPush` | 2 checkouts of any roles with one `sit` among them, a branch and a tag, 2 commits, 3 heads, 1 retry, failing marker writes of the reader | the bundles suffice to rebuild every ref; a push that planned on its baseline touches only its own ref and loses nothing without force; a reader's marker never runs ahead of its objects |
| `RefPushOverwrite` | violation; 2 branches, 3 commits, 3 heads | a divergent tip that lands between the fast-forward check and the baseline read is overwritten |
| `EpochKeys` | 2 joiners, 4 epochs, 6 keys, 3 heads, 2 messages in the queue, 1 comment, capacity 4 | forward-only members open nothing older than their grant, removed members nothing newer than their removal, the epochs of the log never decrease; with full grants and no interruption no head is orphaned and a full grant opens all earlier heads |
| `History` | 3 clients, one of them behind a Commit partition, 3 places, 4 heads, 2 epochs, 2 admins | views of one history never compare as a fork, split full histories always do, and stay so; what a fetch accepts is one history that continues the reader's own, and an honest host is accepted; receipts of one history verify and a receipt that verifies binds the window |
| `Compaction` | violation; as `History` | the checkpoint of `sh repo consolidate` does not verify with the opened refs |
| `Sgit` | 2 devices, 1 of them writes, 2 files, 2 texts, 1 cut, 3 commits; library: all texts of up to 3 characters and those of 5 over a letter and a line end, 2 updates | every version on the server verifies and decodes to what was pushed; a library pull gives the text back or refuses |
| `SgitTwoWriters` | violation; 2 writers, 1 file, 4 commits | a push diffs against a snapshot that is not what the ciphertext encodes |
| `Host` | 7 families, 2 users, 3 tokens, 2 requests at a time, 4 in all, 1 fault, pages of 1 | answers survive faults and later requests; a page of the queue misses no answered message |
| `Collab` | 11 topics, 2 processes on one or two devices, 3 messages, pages of 2; 1 kill (project), 1 new key (project, label) | the cache is whole up to the cursor; two items share a number, a field changes unasked and a listing is wrong only by a message not yet received |

Why the bounds are enough. Two requests give every race for the lock, and
three heads on three places give an acknowledged head, an orphan file left by a
crash and the head that replaces it; three places with pages of two give a full
page, a short page and an append in between. The constraint `WritersOrReaders` lets
two requests race without a reader, or one with a reader. In `RefPush` one conflict
and one retry exercise every branch of reconciliation, and three heads let a fetch be
cut off before, between and after two imports; `RaceOrRead` keeps tags to two `sit`
checkouts, and the third head and disagreeing marker files to behaviours with a
reader. In `EpochKeys` four
epochs allow a grant, an interrupted commit that repeats an epoch number and a
removal; `PlainIsLonger` gives plain behaviours the third head and the comment, the
others the sixth key with a log of one head. In `History` four heads on three places give a split at each
place, with and without an epoch change before and after it, and Merkle levels of
one, two and an odd three nodes. In `Sgit` the library's texts reach the cap of the
character table (3), the edit cost (2) and the second digit of a varint (base 2),
parameters made small for that purpose. In `Host` four requests, two at a time,
give an answered change, two that overlap and one that sees the outcome. In
`Collab` three messages give an item, a change that another device has not seen
and one made without it; `PullsApart` leaves two processes on one inbox to the other
ten topics. `EpochKeys`, `History`, `Sgit`, `Host` and `Collab` do not
check deadlock: nobody has to issue a command.

Fairness. `FairSpec` gives weak fairness to a handler that holds the lock (the
runtime polls it) and strong fairness to acquiring it (tokio's `Mutex` is FIFO).
Clients, failures and crashes are under no obligation. Everything else is
safety.

## Where the code differs from what it says

The four violation runs and PROJECT.json's findings give the details and the
quoted lines. The models contain, without a run of their own, these behaviours
that a reader should know of:

* A sibling ref that moves between a push's first and second read of the tip is
  put back to its old value (the same baseline read as `RefPushOverwrite`).
* A fetch fails as "truncated or withheld" when a push lands between its
  listing and its tip read; a second fetch succeeds.
* A fetch that listed a head beyond the tip (`HeadLogListing`) is accepted, as only
  a listing that ends before the tip is refused; the checkout is then anchored
  on a head that is not in the log, and later fetches fail as a broken chain. Two
  checkpoints exported around such a moment compare as forked.
* When one of the two marker writes fails, the anchor disagrees with the cursor and
  every later fetch is refused as a broken chain.
* `tip` can answer "none" once while a legacy `tip.json` is being replaced.
* An invite that ends before its enqueue leaves a group member with no Welcome;
  one that ends before `persist_group` leads to a repeated epoch number, and
  `inherit` then drops the seed in between.
* remove-member does not remove the MLS leaf, so a later invite with the same
  key package is refused although the message recommends exactly this.
* accept-welcome reads one page of 100 messages; the inbox cursor passes
  messages sealed in another epoch.
* A push sets its marker to the new head although a retry may have landed it on
  heads of others that the checkout never imported (`push.rs:134` says it holds
  everything through the new head).
* Heads sealed in a forward-only epoch are orphaned once the epoch moves on; a
  forward-only member who is granted none of the heads there are cannot fetch.
* The access page of the browsing server removes a member without a rekey.
* At the segment's last epoch `advance` draws a random seed that nothing stores,
  anew on every call.
* `create_repo` ignores a failed `save_members`. A directory, members or index file
  that a write left torn stays unreadable for every later request.
* A revocation whose persist fails is gone from memory: a retry answers "not
  found", and after a restart the token is back.
* Two overlapping changes of one record, access list or index both answer success
  and one is lost; two overlapping enqueues take the same number.
* A kill that tears a cached message already past the cursor makes every later
  read of the inbox fail.
* Listings of releases and codespaces show deleted ones. `delete` of an issue
  closes it and adds a comment.
* A sgit push cut off between a ciphertext write and its snapshot spoils every later
  version; one cut off after the snapshot and before the commit is "up to date"
  on retry. `sgit pull` never deletes a file. A version written by a member with
  whom the library shared a repository cannot be pulled with the owner's key.
* The clean-up of the character diff absorbs every equality of one character, so
  `EDIT_COST` never keeps one.

## Proofs

TLAPS proves the following for every value of the constants that satisfies the
assumptions named in the modules. Those say that bounds are numbers, that reserved
values (`NoHead`, `Absent`, `Unreadable`, `NoUser`...) are not also ordinary ones,
and, where a proof counts or looks for a largest element, that a set is finite.
Two say something about the code: `PageAssumption`, that the client asks for no
larger page than the server gives (which the paging loop relies on), and
`MaxEpoch < SegmentCapacity` in two theorems about `EpochKeys`. TLC evaluates all
of them in the runs.

| Module | Theorems |
|---|---|
| `HeadLogProofs` | `TypeCorrect`, `ChainSafe`, `AckSafe`, `BeyondTipSafe`, `TipReadSafe`, `SinceSafe`, `Refinement` |
| `RefPushProofs` | `TypeCorrect`, `ReplaySafe`, `MarkerSafe`, `RetrySafe` |
| `EpochKeysProofs` | `TypeCorrect`, `EpochsOrdered`, `RemovalSafe`, `ForwardOnlySafe`, `NoOrphansSafe`, `FullGrantSafe` |
| `HistoryProofs` | `TypeCorrect`, `HonestSafe`, `AgreementSafe`, `SplitSafe`, `CommitmentSafe`, `ForkSafe`, `OneHistorySafe`, `HonestFetchSafe`, `HonestReceiptsSafe`, `ReceiptBindsSafe` |
| `HostProofs` | `AnswersSafe`, `BlobSafe`, `FetchSafe` |
| `HostStayProofs` | `StaySafe` |
| `CollabProofs` | `CacheSafe`, `NumbersSafe`, `UnaskedSafe`, `ListingSafe` |
| `SgitProofs` | `LineDiff`, `CharDiff`, `RoundTrip`, `ServedVerifies`, `ServedDecodes`, `PullsFaithful` |

Hardly any of the properties is inductive. What each proof adds:

`HeadLogProofs`. That the next write is right depends on what the holder of the lock
checked earlier. `IInv` adds `LockOK` (exactly the holder of the lock is past its
checks), `HolderOK` (what it checked is still true, and each file it wrote is there)
and `LegacyOK` (a legacy tip names a committed head). Each write has a lemma; all
other steps leave the files alone (`DiskFrame`, `ReqFrame`). `Monotone` (no step moves
the tip back or takes a committed head away) then gives `AckSafe`, and with
`TipReadOK`, what a tip request has seen so far, `TipReadSafe`. `SinceSafe` needs
`ScanOK`: of the heads that were there when a listing began, those up to the cursor
have been received, and of the rest each is still to be read or has been. A page that
comes out short was not cut off (`ShortIsAll`), and one that was cut off is closed
downwards (`PageDownward`). In the refinement the abstract chain is the files up to
the tip: `WriteTip` is the append, `Reply` the acknowledgement, all else stutters.

`RefPushProofs`. `IInv` says what a push may still rely on after others have
appended: what it leaves out of its bundle is reached by refs that are in the log for
good, and without `--force` its commit is a fast-forward of the tip it was checked
against (`PushOK`); a reader's imports cover its marker and what a running fetch has
passed (`FetchOK`); only commits that exist are named (`CommitsOK`). `RetrySafe` follows
from `Forward` and the cases of `reconcile_refs_for_cas`.

`EpochKeysProofs`. Keys are numbered in the order they are drawn, and the argument
is about that order: the key of the commit under way is newer than all that was
granted or has sealed a head (`OpOK`), a forward-only token is newer than the seal of
every earlier head (`GrantOK`), a joiner has the material of one of its grants
(`JoinerOK`), and what a removed member has is older than the admin's key
(`RemovedOK`). `NoOrphans` and `FullGrantReadsAll` need `PlainOK`: the admin has a key for
each epoch so far, and all grants and heads go by those. They assume
`MaxEpoch < SegmentCapacity`, without which they are false: past the capacity `advance`
draws a seed that is stored nowhere.

`HistoryProofs`. `IInv` says what chain hashes and growing
views amount to: entries are linked, epochs never decrease, used hashes are below the
next fresh one, and two views that share one head share everything below it
(`OneOrigin`). `VerdictIs` reduces `compare_checkpoints` on two exports to a comparison
of the views themselves; the properties then follow in each state, and `ForkSafe`
because steps only add to views. A listing that passes `verify_fetched_heads` is linked
down to its anchor, so by `OneOrigin` and induction along it (a least counterexample)
it is part of one view.
Receipts rest on the Merkle tree. `ClimbIs` shows that the loop ends at a level of one
node for any number of leaves. `PathLeads` says that the path of a leaf leads to the root
from that leaf and from no other value. `LoopExists` shows that the recursive functions
of both loops exist, which the provers need before they can unfold one. `ProofsBind` and
`CommitmentsFit` carry this to spans and epochs, and `OneOrigin` carries agreement on one
head of a span to all heads below it.

`HostProofs`. `AccountsInv` holds memory, `auth.json`, the temporary file and the
request under the lock against what was promised. `BlobInv` says of a put under way
what is still before it, and of one that is alone that its writes do not mix and that
a blob behind it is whole; a blob that was answered for is not written again.
`QueueInv` says that the numbers in the queue leave room for the requests that are
still to write, so that a new number is always one past the others; that what was
answered is listed; and that a listing which has begun will show it. `PageFull` is the
fact about sorting and cutting off: what a page leaves out is past its end, and the
page is full.

`HostStayProofs`. `StepIs` sorts what a step does to requests and files; the invariant
`StayInv` has a part for all families and one for each. In all, of two requests under
way for one resource none is alone (`AloneOK`), numbers of requests are used once
(`ReqsOK`), and the writes of a request that is alone do not mix (`MixOK`). Directory and
key log: while a change is answered for nobody is writing one, and a record that is
half written says which of its files are behind it (`RecordOK`). Queue: nobody writes to the
file of a message that was answered for, since a new number is past all that are there.
Access list and index are loaded, changed and saved whole, so one request may save over
another's change: `SaveOK` says that every copy about to be saved holds all that was
answered for, and what its own request will be answered with. `HoldsOpened` and
`HoldsChanged` say that adding an item to the index or changing one keeps the rest, and
a request that is alone has no rival with an older copy. `ContentsAssumption` (a file
that is there is not taken for one that is not) is needed here only.

`CollabProofs`. `CacheWhole` is about the saved cursor; `ProcOK` carries it through a
sync under way: what the process is not still to write of its page is in the cache.
`NumbersInv` says of every message, sent or about to be, that it is newer than what its
sender had, and of the cache that it holds only what the queue has (`CacheOK`). The step
that counts is `Fold`: `Messages` lists the whole cache and nothing else (`MessagesIs`,
by the ranks of the cached numbers), and `next_collab_number` is above every number in a
list (`NextNumberIs`). Commands that do not look at the inbox take no number.

`UnaskedSafe` and `ListingSafe` are about the folds. `FoldLeft` is a recursive function
on sets of places, which a CHOOSE picks: that there is one is shown place by place
(`FoldExists`), with the least number for which a claim fails in the place of an induction
theorem (`Least`), and so are its values prefix by prefix (`FoldSteps`). From that,
`FoldSays`: the fold of an item has in a field what the last message about the field says.
`KnownInv` says of every message, sent or about to be, that a field which its user did not
name is empty or is what the messages its sender had received say (`SaidIn`); `ViewSays`
is the step of `Fold`, where the cached messages come in the order of the queue
(`MessagesInOrder`). If the sender had all there is about the item, then its last word is
the queue's, and the message changes nothing that was not asked for (`SaidOnce`).
`KnownInv` is an invariant of the `Collab` instance too, by TLC, before it was proved.

`SgitProofs`. Its first half is about the algorithms, for all texts. Folds,
`FlattenSeq` and the recursive functions of the diffs and the varints are shown to exist
and to have the values their definitions say (`FoldMore`, `FlatMore`, `WalkExists`,
`PutValue`, `GetValue`, `FromValue`), with `Least`, `LeastStrong` and `SeqInduct` in the
place of induction theorems. `LineDiff`: one walk through the table of an LCS gives a
matching (`LcsMatches`, whatever the table holds), and after the operations of each gap
the sequence is the new text up to its end and the old one from there (`PairsToOps`).
Applying an inserted text needs its lines back from their concatenation (`FlatSplit`).
`CharDiff`: the deletions and equalities of the segments spell the old text, the
insertions and equalities the new one (`SegsSides`), and neither merging nor absorbing
changes that (`MergeSides`, `AbsorbSides`). `RoundTrip` says what is at each place of a
block (`At`, `OneDecoded`).
The second half is about the states. `TypesOK` (of each device `DeviceOK`) says that
ciphertext trees are trees of blocks of the repository key and that the tag signs the
files between `WriteTag` and the commit; `ServedVerifies` follows for any number of
writers. `ServedDecodes` assumes `Writers = {First}`: with two writers the diff is taken
against a snapshot that is not what the ciphertext encodes, which is the finding of
`SgitTwoWriters`. Its invariant `OneWriter` says that the server has a prefix of what the
writer committed, and that as long as no push was torn the ciphertext decrypts to the
snapshot or, during a push, file by file to the snapshot or the new tree (`Agrees`).
`OpenDelta` carries it through an append: the delta decrypts, decodes and applies to the
new text. `PullsFaithful` rests on `LibOK`: a version is signed by its author over exactly
these blocks and this access list, or the host has broken one of the signatures; and the
file encodes the text (`FileOf`), line by line as in `PatchTexts` or block by block.
Both invariants were invariants of the `Sgit` instance, by TLC, before they were proved.

Only model-checked:

* `EveryPostAnswered`: liveness is out of the prover's reach.
* that a run ends in a violation (`HeadLogListing`, `RefPushOverwrite`, `Compaction`,
  `SgitTwoWriters`): those are single behaviours.

## Plan

1. `RefPush` with a head beyond the tip left by a cut-off append.
2. The exported view beside the fetched one in `ForkCompare`.
3. The decisions of the head policy about a single head (signatures, cosignatures,
   epoch tags) as operators against reference definitions.

## Not modelled

* Cryptographic primitives and MLS itself; canonical encodings (assumed injective).
* Signature, cosignature and epoch tag of a single head (`policy.rs`): pure checks of
  cryptographic data, which the models take to hold.
* HTML: the pages of `ui.rs`, `html.rs` and `git.rs` of `safehub-browse`, and the
  mirror in `remote.rs` they read from. They change no state that is shared.
* Configuration and identity files; the commands for lfs, org, search, migrate and
  doctor, which move opaque blobs or print; the evaluation harness.
