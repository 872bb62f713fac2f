-------------------------------- MODULE Sgit --------------------------------
(***************************************************************************)
(* The sgit baseline: the `sgit` tool (sgit-rs/src/bin/sgit.rs) on several *)
(* devices, and the library's in-memory protocol (sgit-rs/src/lib.rs).     *)
(*                                                                         *)
(* A device keeps a plaintext tree, a ciphertext git repository and beside *)
(* it the snapshot of the plaintext it pushed last.  `sgit push` diffs the *)
(* tree against the snapshot, writes the ciphertext files one by one, then *)
(* the tag, then the snapshot, then commits and pushes; it may be cut off  *)
(* at every step.                                                          *)
(*                                                                         *)
(*   plain[d]     the plaintext tree of device d                           *)
(*   ct[d]        its ciphertext working tree: files and signed tag        *)
(*   hist[d]      the commits of its ciphertext repository, NoRepo if none *)
(*   snapshot[d]  the sidecar                                              *)
(*   push[d]      the push under way                                       *)
(*   remote       the commits of the git server                            *)
(*   torn[d]      history: a push of d was cut off between its first       *)
(*                ciphertext write and its snapshot (cuts counts them all) *)
(*   lib          the library's CtRepo and the plaintext of its version    *)
(*                                                                         *)
(* `front` chooses between tool and library, `variant` between SGitChar    *)
(* and SGitLine.  A ciphertext is its plaintext and its key; hashes and    *)
(* signatures are what they cover.  In the tool all devices hold the one   *)
(* repository key (`--keys`); a member of the library has its own.         *)
(***************************************************************************)
EXTENDS SgitDiff

CONSTANTS Devices,
          Writers,    \* the devices that push; the first of them ran `sgit init`
          First,
          Files,
          Texts,      \* the texts a device may write
          LibTexts,   \* the texts of the library's one file
          Absent,     \* no such file
          NoRepo,     \* the device has not cloned
          Refused,    \* what a pull that fails gives
          MaxCuts,    \* bound: pushes cut off
          Owner, Other, \* two members of the library's repository
          MaxCommits, \* bound: commits of one repository
          MaxUpdates  \* bound: versions made through the library

RepoKey == "k"
Blocks == [key : {RepoKey, Owner, Other}, pt : Seq(Nat)]

\* A tree gives every file its text, or its blocks of ciphertext, or nothing.
PlainTrees == [Files -> Seq(Nat) \cup {Absent}]
CipherTrees == [Files -> Seq(Blocks) \cup {Absent}]
Commits == [files : CipherTrees, tag : CipherTrees, plain : PlainTrees, torn : BOOLEAN]

ASSUME SgitAssumption ==
    /\ First \in Writers /\ Writers \subseteq Devices
    /\ Texts \cup LibTexts \subseteq Seq(Nat)
    /\ Absent \notin Seq(Nat) /\ Absent \notin Seq(Blocks)
    /\ NoRepo \notin Seq(Commits)
    /\ {MaxCuts, MaxCommits, MaxUpdates} \subseteq Nat

VARIABLES front, variant, plain, ct, hist, snapshot, push, remote, torn, cuts, lib

mode == <<front, variant>>
toolVars == <<plain, ct, hist, snapshot, push, remote, torn, cuts>>
vars == <<front, variant, plain, ct, hist, snapshot, push, remote, torn, cuts, lib>>

NoFiles == [f \in Files |-> Absent]

-----------------------------------------------------------------------------
(* Ciphertext *)

\* crypto::enc and dec.
Enc(k, pt) == [key |-> k, pt |-> pt]
Dec(k, c) == IF c.key = k THEN c.pt ELSE <<"garbage">>

\* A file encrypted whole: one block, or one per line.
EncryptText(k, text) ==
    IF variant = "char" THEN <<Enc(k, text)>>
    ELSE LET lines == SplitLines(text) IN [i \in DOMAIN lines |-> Enc(k, lines[i])]

\* The text of a ciphertext file: the base with every block applied, or all lines.
DecryptFile(k, blocks) ==
    IF variant = "char"
    THEN FoldLeft(LAMBDA t, c : ApplyChars(t, DecodeOps(Dec(k, c))),
                  Dec(k, Head(blocks)), Tail(blocks))
    ELSE FlattenSeq([i \in DOMAIN blocks |-> Dec(k, blocks[i])])

\* The delta of an update, as a block of its own.
Delta(k, old, new) == Enc(k, EncodeOps(ComDiffChar(old, new)))

-----------------------------------------------------------------------------
(* The tool *)

IdlePush == [pc |-> "idle", new |-> NoFiles, todo |-> {}]

\* merkle_root_of and write_tag: the tag signs all ciphertext files of the tree.
Signed(files) == [files |-> files, tag |-> files]

\* verify_tag: the signed root is the root of the tree.
Verifies(tree) == tree.tag = tree.files

\* The working tree is as the last commit has it.
Clean(d) == ct[d] = [files |-> Last(hist[d]).files, tag |-> Last(hist[d]).tag]

\* `sgit init` on the first device.
ToolInit ==
    /\ plain = [d \in Devices |-> NoFiles]
    /\ ct = [d \in Devices |-> Signed(NoFiles)]
    /\ hist = [d \in Devices |-> IF d = First
         THEN <<[files |-> NoFiles, tag |-> NoFiles, plain |-> NoFiles, torn |-> FALSE]>>
         ELSE NoRepo]
    /\ snapshot = [d \in Devices |-> NoFiles]
    /\ push = [d \in Devices |-> IdlePush]
    /\ remote = <<>>
    /\ torn = [d \in Devices |-> FALSE]
    /\ cuts = 0

Edit(d, f) ==
    /\ d \in Writers
    /\ push[d].pc = "idle" /\ hist[d] # NoRepo
    /\ \E t \in Texts \cup {Absent} : plain' = [plain EXCEPT ![d][f] = t]
    /\ UNCHANGED <<mode, ct, hist, snapshot, push, remote, torn, cuts, lib>>

\* Read the tree and the snapshot.
PushStart(d) ==
    LET todo == {f \in Files : plain[d][f] # snapshot[d][f]} IN
    /\ d \in Writers
    /\ push[d].pc = "idle" /\ hist[d] # NoRepo
    /\ Len(hist[d]) < MaxCommits
    /\ push' = [push EXCEPT ![d] = [pc |-> IF todo = {} THEN "push" ELSE "write",
                                    new |-> plain[d], todo |-> todo]]
    /\ UNCHANGED <<mode, plain, ct, hist, snapshot, remote, torn, cuts, lib>>

\* The blocks of file f after the push: the delta appended to what there is, the
\* file encrypted anew, or nothing.
NextBlocks(d, f) ==
    LET new == push[d].new[f]
        old == snapshot[d][f] IN
    IF new = Absent THEN Absent
    ELSE IF old # Absent /\ variant = "char"
    THEN Append(ct[d].files[f], Delta(RepoKey, old, new))
    ELSE EncryptText(RepoKey, new)

\* A file to append to that is not there is an error, and the push ends (Cut).
CannotAppend(d, f) ==
    /\ variant = "char" /\ push[d].new[f] # Absent /\ snapshot[d][f] # Absent
    /\ ct[d].files[f] = Absent

WriteFile(d, f) ==
    /\ push[d].pc = "write" /\ f \in push[d].todo
    /\ ~CannotAppend(d, f)
    /\ ct' = [ct EXCEPT ![d].files[f] = NextBlocks(d, f)]
    /\ push' = [push EXCEPT ![d].todo = @ \ {f},
                            ![d].pc = IF push[d].todo = {f} THEN "tag" ELSE "write"]
    /\ UNCHANGED <<mode, plain, hist, snapshot, remote, torn, cuts, lib>>

\* Mutant of WriteTag: keeps the old root.
WriteTagNot(d) ==
    /\ push[d].pc = "tag"
    /\ push' = [push EXCEPT ![d].pc = "snapshot"]
    /\ UNCHANGED <<mode, plain, ct, hist, snapshot, remote, torn, cuts, lib>>

WriteTag(d) ==
    /\ push[d].pc = "tag"
    /\ ct' = [ct EXCEPT ![d] = Signed(@.files)]
    /\ push' = [push EXCEPT ![d].pc = "snapshot"]
    /\ UNCHANGED <<mode, plain, hist, snapshot, remote, torn, cuts, lib>>

\* Mutant of WriteSnapshot: the sidecar keeps the snapshot of the push before.
WriteSnapshotNot(d) ==
    /\ push[d].pc = "snapshot"
    /\ push' = [push EXCEPT ![d].pc = "commit"]
    /\ UNCHANGED <<mode, plain, ct, hist, snapshot, remote, torn, cuts, lib>>

WriteSnapshot(d) ==
    /\ push[d].pc = "snapshot"
    /\ snapshot' = [snapshot EXCEPT ![d] = push[d].new]
    /\ push' = [push EXCEPT ![d].pc = "commit"]
    /\ UNCHANGED <<mode, plain, ct, hist, remote, torn, cuts, lib>>

\* git add -A and git commit.  What the commit stands for is for the properties.
Commit(d) ==
    /\ push[d].pc = "commit"
    /\ hist' = [hist EXCEPT ![d] = Append(@,
         [files |-> ct[d].files, tag |-> ct[d].tag, plain |-> push[d].new, torn |-> torn[d]])]
    /\ push' = [push EXCEPT ![d].pc = "push"]
    /\ UNCHANGED <<mode, plain, ct, snapshot, remote, torn, cuts, lib>>

\* git push: refused unless it is a fast-forward.
GitPush(d) ==
    /\ push[d].pc = "push"
    /\ remote' = IF IsPrefix(remote, hist[d]) THEN hist[d] ELSE remote
    /\ push' = [push EXCEPT ![d] = IdlePush]
    /\ UNCHANGED <<mode, plain, ct, hist, snapshot, torn, cuts, lib>>

\* The push ends where it stands: a kill, or an error of git or of a write.
Cut(d) ==
    /\ push[d].pc # "idle"
    /\ cuts < MaxCuts /\ cuts' = cuts + 1
    /\ torn' = [torn EXCEPT ![d] = @ \/ (/\ push[d].pc \in {"write", "tag", "snapshot"}
                                         /\ \E f \in Files : /\ push[d].new[f] # snapshot[d][f]
                                                             /\ f \notin push[d].todo)]
    /\ push' = [push EXCEPT ![d] = IdlePush]
    /\ UNCHANGED <<mode, plain, ct, hist, snapshot, remote, lib>>

\* `sgit clone`, or `sgit pull` of a fast-forward on a clean tree: take the commits,
\* verify the tag and write the decrypted files over the plaintext tree.
Pull(d) ==
    LET tip == Last(remote) IN
    /\ push[d].pc = "idle"
    /\ remote # <<>>
    /\ hist[d] # NoRepo => IsPrefix(hist[d], remote) /\ Clean(d)
    /\ hist' = [hist EXCEPT ![d] = remote]
    /\ ct' = [ct EXCEPT ![d] = [files |-> tip.files, tag |-> tip.tag]]
    /\ plain' = IF ~Verifies(tip) THEN plain
                ELSE [plain EXCEPT ![d] = [f \in Files |->
                        IF tip.files[f] = Absent THEN plain[d][f]
                        ELSE DecryptFile(RepoKey, tip.files[f])]]
    /\ UNCHANGED <<mode, snapshot, push, remote, torn, cuts, lib>>

ToolStep(d) ==
    \/ PushStart(d) \/ WriteTag(d) \/ WriteSnapshot(d) \/ Commit(d) \/ GitPush(d)
    \/ Cut(d) \/ Pull(d)
    \/ \E f \in Files : Edit(d, f) \/ WriteFile(d, f)

-----------------------------------------------------------------------------
(* The library: one file, in a version history that init begins *)

\* sign_root over ct_root: the blocks of the file and the signature of the access file.
SignRoot(m, files, acs) == [uid |-> m, by |-> m, root |-> <<files, acs.by, acs.signed>>]

\* init
LibInit(text) ==
    LET acs == [write |-> {Owner}, by |-> Owner, signed |-> {Owner}] IN
    [plain |-> text, blocks |-> EncryptText(Owner, text), acs |-> acs,
     tag |-> SignRoot(Owner, EncryptText(Owner, text), acs), n |-> 0, touched |-> FALSE]

\* SGitLine's update: the operations of the line diff on the ciphertext lines.
PatchLines(k, blocks, ops) ==
    FoldLeft(LAMBDA v, o : Splice(v, o, EncryptText(k, o.ins)), blocks, ops)

UpdateBlocks(k, blocks, old, new) ==
    IF old = new THEN blocks
    ELSE IF variant = "char" THEN Append(blocks, Delta(k, old, new))
    ELSE PatchLines(k, blocks, ComDiffLine(old, new))

\* update by a member, who signs with its own key.
Update(m) ==
    /\ lib.n < MaxUpdates /\ ~lib.touched
    /\ m \in lib.acs.write
    /\ \E text \in LibTexts :
        LET blocks == UpdateBlocks(m, lib.blocks, lib.plain, text) IN
        lib' = [lib EXCEPT !.plain = text, !.blocks = blocks, !.n = @ + 1,
                           !.tag = SignRoot(m, blocks, lib.acs)]
    /\ UNCHANGED <<mode, toolVars>>

\* share: the owner adds a reader or writer and signs anew.
Share(write) ==
    LET set == IF write THEN lib.acs.write \cup {Other} ELSE lib.acs.write
        acs == [write |-> set, by |-> Owner, signed |-> set] IN
    /\ lib.n < MaxUpdates /\ ~lib.touched
    /\ lib' = [lib EXCEPT !.acs = acs, !.tag = SignRoot(Owner, lib.blocks, acs), !.n = @ + 1]
    /\ UNCHANGED <<mode, toolVars>>

\* The host alters what it serves: it drops a block, or adds a writer.  The author
\* goes on with its own copy; this one is only pulled.
HostAlters ==
    /\ ~lib.touched
    /\ \/ \E i \in DOMAIN lib.blocks :
            lib' = [lib EXCEPT !.blocks = SubSeq(@, 1, i - 1) \o SubSeq(@, i + 1, Len(@)),
                               !.touched = TRUE]
       \/ /\ Other \notin lib.acs.write
          /\ lib' = [lib EXCEPT !.acs.write = @ \cup {Other}, !.touched = TRUE]
    /\ UNCHANGED <<mode, toolVars>>

\* pull: the access file and the root must carry the author's signature.
LibPull(m, author) ==
    IF /\ lib.acs.by = author /\ lib.acs.signed = lib.acs.write
       /\ lib.tag.uid \in lib.acs.write
       /\ lib.tag.by = author /\ lib.tag.root = <<lib.blocks, lib.acs.by, lib.acs.signed>>
    THEN IF lib.blocks = <<>> THEN <<>> ELSE DecryptFile(m, lib.blocks)
    ELSE Refused

LibStep == Update(Owner) \/ Update(Other) \/ HostAlters \/ \E w \in BOOLEAN : Share(w)

-----------------------------------------------------------------------------
Init ==
    /\ front \in {"tool", "library"}
    /\ variant \in {"char", "line"}
    /\ ToolInit
    /\ \E t \in IF front = "library" THEN LibTexts ELSE {<<>>} : lib = LibInit(t)

Next ==
    \/ front = "tool" /\ \E d \in Devices : ToolStep(d)
    \/ front = "library" /\ LibStep

Spec == Init /\ [][Next]_vars

-----------------------------------------------------------------------------
(* Properties *)

Decrypted(files) ==
    [f \in Files |-> IF files[f] = Absent THEN Absent
                     ELSE IF files[f] = <<>> THEN <<>> ELSE DecryptFile(RepoKey, files[f])]

\* Every version on the server decrypts to the tree it was pushed from, through all
\* the deltas before it, unless a push of its author was cut off before it saved its
\* snapshot: a push that failed later, at the commit or at the server, costs nothing
\* (decrypt_into against the "push" command).
RemoteDecodes ==
    \A i \in 1..Len(remote) :
        remote[i].torn \/ Decrypted(remote[i].files) = remote[i].plain

\* Every version on the server verifies against its own signed root, wherever pushes
\* were cut off (verify_tag; a reader refuses a version that does not).
RemoteVerifies == \A i \in 1..Len(remote) : Verifies(remote[i])

\* sgit.rs, "push": "the diff is against what the ciphertext repository currently
\* encodes".
DiffBaseIsEncoded ==
    \A d \in Devices : push[d].pc = "write" /\ variant = "char" =>
        \A f \in push[d].todo : Absent \notin {push[d].new[f], snapshot[d][f]} =>
            snapshot[d][f] = Decrypted(ct[d].files)[f]

\* While the owner is the only author, its pull gives the text of the last version or
\* refuses, and it accepts every version that the host left alone: both diffs, the
\* block encoding and the line replacement reproduce the text (lib.rs pull; diff.rs:
\* "f' must equal O_n(..O_1(f))").
PullFaithful ==
    front = "library" /\ (\A i \in DOMAIN lib.blocks : lib.blocks[i].key = Owner) =>
        /\ LibPull(Owner, Owner) \in {lib.plain, Refused}
        /\ ~lib.touched /\ lib.tag.by = Owner => LibPull(Owner, Owner) = lib.plain
=============================================================================
