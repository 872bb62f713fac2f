-------------------------------- MODULE Host --------------------------------
(***************************************************************************)
(* The files of the server that no lock guards (safehub-storage/src/       *)
(* local.rs, safehub-server/src/browse.rs and collab.rs), and the requests *)
(* of routes.rs that change them: the directory and the access list of one *)
(* repository, its delivery queue, blobs, key log, key packages and        *)
(* collaboration index.  The append-only log of heads is HeadLog.          *)
(*                                                                         *)
(*   file[f]  the contents of file f, Absent, or Unreadable                *)
(*   req[r]   the request in slot r: its checks, its load and its writes   *)
(*            are steps of their own, and requests interleave              *)
(*   kept     history: what was answered with success, for the properties  *)
(*   fetched  history: what the last fetch of the queue returned           *)
(*                                                                         *)
(* A plain fs::write truncates, then fills: in between, and for good when  *)
(* it is cut off there, the file does not parse.  When two of them overlap *)
(* on one file it may end up as either contents or unreadable.             *)
(*                                                                         *)
(* The requests of a run are of one `family`: families share no file but   *)
(* the directory and the access list, which only their own change.         *)
(***************************************************************************)
EXTENDS HostAccounts, Sequences, FiniteSetsExt

CONSTANTS Owner,
          Slots,       \* requests at a time
          RepoIds, Blobs,
          Absent,
          PageLimit,   \* the limit of a fetch
          Families,
          MaxRequests  \* bound: requests ever made

ASSUME HostAssumption ==
    /\ Owner \in Users
    /\ {PageLimit, MaxRequests} \subseteq Nat
    /\ RepoIds \subseteq Nat /\ IsFiniteSet(Slots)
    /\ Absent \notin Nat /\ {Absent, Unreadable} \cap Blobs = {} /\ Absent # Unreadable
    /\ \E f \in [Tokens -> Users \cup {NoUser}] :  \* a session for everyone
            \A u \in Users : \E t \in Tokens : f[t] = u

VARIABLES family, file, req, made, kept, fetched

fileVars == <<file, req, made, kept, fetched>>
vars == <<accountVars, faults, family, fileVars>>

Numbers == 1..MaxRequests
NameFile == <<"repos", 0>>
IdFile(i) == <<"repos_by_id", i>>
MembersFile == <<"membership", 0>>
IndexFile == <<"collab", 0>>
QueueFile(n) == <<"mls", n>>
BlobFile(b) == <<"blobs", b>>
MetaFile(b) == <<"blobmeta", b>>
KeyLogFile(e) == <<"keylog", e>>
PackageFile(x) == <<"key_packages", x>>
FileNames ==
    {NameFile, MembersFile, IndexFile} \cup {IdFile(i) : i \in RepoIds}
    \cup {QueueFile(n) : n \in Numbers} \cup {KeyLogFile(1)}
    \cup {BlobFile(b) : b \in Blobs} \cup {MetaFile(b) : b \in Blobs}
    \cup {PackageFile("bin"), PackageFile("json")}

IdleReq == [op |-> "none", arg |-> 0, user |-> NoUser, no |-> 0, pc |-> "idle",
            todo |-> <<>>, alone |-> TRUE, mixed |-> FALSE, seen |-> {}, must |-> {}]
Writing(r) == req[r].pc \in {"begin", "fill"}
Record(i) == [id |-> i, desc |-> 0, deleted |-> FALSE]
Lists == {"issues", "pulls"}
EmptyIndex == [l \in Lists |-> [items |-> <<>>, next |-> 1]]
NewItem(id, no) == [id |-> id, by |-> no, state |-> "reopen", notes |-> {}]

\* What the index and the access list hold is not taken for a file that is not there.
Item == [id : Nat, by : Nat, state : {"close", "reopen"}, notes : SUBSET Nat]
IndexType == [Lists -> [items : Seq(Item), next : Nat]]

ASSUME ContentsAssumption ==
    /\ \A S \in SUBSET Users : S # Absent
    /\ Absent \notin IndexType

-----------------------------------------------------------------------------
(* The store *)

Exists(f) == file[f] # Absent
Readable(f) == file[f] \notin {Absent, Unreadable}

\* browse::load_members and is_member: without a file the owner alone is a member.
Members == IF Exists(MembersFile) THEN file[MembersFile] ELSE {Owner}
IsMember(u) == u = Owner \/ u \in Members

\* collab::load
Index == IF Exists(IndexFile) THEN file[IndexFile] ELSE EmptyIndex
IndexParses == file[IndexFile] # Unreadable

\* Mutant of NextNumber: the largest number itself.
NextNumberLast == Max({1} \cup {n \in Numbers : Exists(QueueFile(n))})

\* LocalStore::enqueue: one past the largest number among the files.
NextNumber == 1 + Max({0} \cup {n \in Numbers : Exists(QueueFile(n))})

\* Mutant of PageOf: cuts the listing off before it is sorted.
PageOfUnsorted(listing) ==
    IF Cardinality(listing) <= PageLimit THEN listing
    ELSE CHOOSE P \in SUBSET listing : Cardinality(P) = PageLimit /\ Max(listing) \in P

\* LocalStore::fetch: the first of what was listed, by number.
PageOf(listing) ==
    {n \in listing : Cardinality({k \in listing : k < n}) < PageLimit}

-----------------------------------------------------------------------------
(* What a request writes, file after file, once it has passed its checks: a
   sequence of pairs, or Refuse. *)

Refuse == <<"refuse">>

\* RepoDirectory::create and update: a record is in two files.
RecordWrites(rec) == <<<<NameFile, rec>>, <<IdFile(rec.id), rec>>>>

\* create_repo, patch_repo and delete_repo.  A name that was ever taken stays taken.
DirectoryWrites(op, arg) ==
    LET rec == file[NameFile] IN
    CASE op = "create" -> IF Exists(NameFile) THEN Refuse
                          ELSE RecordWrites(Record(arg)) \o <<<<MembersFile, {Owner}>>>>
      [] op = "patch" -> IF ~Readable(NameFile) \/ rec.deleted THEN Refuse
                         ELSE RecordWrites([rec EXCEPT !.desc = arg])
      [] op = "delete" -> IF ~Readable(NameFile) THEN Refuse
                          ELSE RecordWrites([rec EXCEPT !.deleted = TRUE])

\* invite_collab and remove_collab
AccessWrites(op, arg) ==
    IF file[MembersFile] = Unreadable THEN Refuse
    ELSE <<<<MembersFile, IF op = "invite" THEN Members \cup {arg} ELSE Members \ {arg}>>>>

\* Mutant of BlobWrites: does not look whether the blob is there.
BlobWritesAnew(b, no) == <<<<BlobFile(b), b>>, <<MetaFile(b), no>>>>

\* BlobStore::put: a blob that is there is not written again, its metadata is.
BlobWrites(b, no) ==
    (IF Exists(BlobFile(b)) THEN <<>> ELSE <<<<BlobFile(b), b>>>>) \o <<<<MetaFile(b), no>>>>

\* put_blob: the body comes as bytes or, from older clients, as JSON.
PutBlob(b, no) == BlobWrites(b, no)

\* mls_enqueue
MlsEnqueue(no) == <<<<QueueFile(NextNumber), no>>>>

\* collab.rs: load the index, change the first item of the list that has this number,
\* or add one, and save.  Issues and pull requests are two lists of one file, each
\* with numbers of its own.
IndexWrites(list, op, id, no) ==
    LET items == Index[list].items
        at == {k \in DOMAIN items : items[k].id = id}
        put(next) == <<<<IndexFile, [Index EXCEPT ![list] = next]>>>>
        change(item) == put([Index[list] EXCEPT !.items[Min(at)] = item]) IN
    IF ~IndexParses \/ (op # "open" /\ at = {}) THEN Refuse ELSE
    CASE op = "open" -> put([items |-> Append(items, NewItem(Index[list].next, no)),
                             next |-> Index[list].next + 1])
      [] op = "comment" -> change([items[Min(at)] EXCEPT !.notes = @ \cup {no}])
      [] op \in {"close", "reopen"} -> change([items[Min(at)] EXCEPT !.state = op])

\* create_issue, patch_issue and comment_issue; create_pull, patch_pull and comment_pull.
IssueRoutes(op, id, no) == IndexWrites("issues", op, id, no)
PullRoutes(op, id, no) == IndexWrites("pulls", op, id, no)

\* append_key_log and put_key_package write whatever was there before.
KeyLogWrites(no) == <<<<KeyLogFile(1), no>>>>
PackageWrites(no) == <<<<PackageFile("bin"), no>>, <<PackageFile("json"), no>>>>
KeyRoutes(op, no) == IF op = "keylog" THEN KeyLogWrites(no) ELSE PackageWrites(no)

IndexOps == {"open", "close", "reopen", "comment"}

Writes(op, arg, no) ==
    CASE op \in {"create", "patch", "delete"} -> DirectoryWrites(op, arg)
      [] op \in {"invite", "remove"} -> AccessWrites(op, arg)
      [] op = "enqueue" -> MlsEnqueue(no)
      [] op = "put" -> PutBlob(arg, no)
      [] op \in IndexOps -> IF arg[1] = "issues" THEN IssueRoutes(op, arg[2], no)
                            ELSE PullRoutes(op, arg[2], no)
      [] op \in {"keylog", "keypackage"} -> KeyRoutes(op, no)

\* What two requests must share to be in each other's way.
Resource(op, arg) ==
    CASE op \in {"create", "patch", "delete"} -> <<"repo", 0>>
      [] op \in {"invite", "remove"} -> <<"members", 0>>
      [] op = "put" -> <<"blob", arg>>
      [] op \in IndexOps -> <<"index", 0>>
      [] OTHER -> <<op, 0>>

-----------------------------------------------------------------------------
(* Requests *)

Ops == [repo |-> {"create", "patch", "delete"}, members |-> {"invite", "remove"},
        queue |-> {"enqueue", "fetch"}, blob |-> {"put"},
        index |-> IndexOps, keys |-> {"keylog", "keypackage"},
        accounts |-> {}]

ASSUME FamilyAssumption == Families \subseteq DOMAIN Ops

Args(op) ==
    CASE op = "create" -> {i \in RepoIds : ~Exists(IdFile(i))
                              /\ \A s \in Slots : req[s].op = "create" => req[s].arg # i}
      [] op = "patch" -> {1, 2}
      [] op \in {"invite", "remove"} -> Users
      [] op = "fetch" -> 0..1
      [] op = "put" -> Blobs
      [] op \in IndexOps -> Lists \X (IF op = "open" THEN {0} ELSE 1..2)
      [] OTHER -> {0}

ById == {"enqueue", "fetch", "put", "keylog"}
Unchecked == {"create", "keypackage"}
OwnerOnly == {"patch", "delete", "invite", "remove"}

\* A request with a token that is known.  `must` is what was answered before it.
Start(r) ==
    /\ req[r].pc = "idle" /\ made < MaxRequests
    /\ \E t \in Tokens, op \in Ops[family] : TokenUser(t) # NoUser /\ \E arg \in Args(op) :
        req' = [req EXCEPT ![r] = [IdleReq EXCEPT !.op = op, !.arg = arg,
            !.user = TokenUser(t), !.no = made + 1,
            !.pc = IF op \in Unchecked THEN "load" ELSE IF op \in ById THEN "id" ELSE "member",
            !.must = {k.item[2] : k \in {x \in kept : x.item[1] = "mls"}}]]
    /\ made' = made + 1
    /\ UNCHANGED <<file, kept, fetched>>

Finish(r) == req' = [req EXCEPT ![r] = IdleReq]

\* require_repo_id_member: the record by id, whether deleted or not.
CheckId(r) ==
    /\ req[r].pc = "id"
    /\ IF Readable(IdFile(1)) THEN req' = [req EXCEPT ![r].pc = "member"] ELSE Finish(r)
    /\ UNCHANGED <<file, made, kept, fetched>>

\* require_member, and the test for the owner.
CheckMember(r) ==
    /\ req[r].pc = "member"
    /\ IF /\ file[MembersFile] # Unreadable /\ IsMember(req[r].user)
          /\ req[r].op \in OwnerOnly => req[r].user = Owner
       THEN req' = [req EXCEPT ![r].pc = "load"]
       ELSE Finish(r)
    /\ UNCHANGED <<file, made, kept, fetched>>

\* What a request is about to change is no longer sure.
Decides(op, arg) ==
    CASE op \in {"create", "patch", "delete"} -> {<<"repo", 0>>}
      [] op \in {"invite", "remove"} -> {<<"member", arg>>}
      [] op \in {"close", "reopen"} -> {<<"state", arg>>}
      [] op = "keylog" -> {<<"keylog", 1>>}
      [] OTHER -> {}

\* Load what the request needs and work out what it writes.
Load(r) ==
    LET todo == Writes(req[r].op, req[r].arg, req[r].no)
        rivals == {s \in Slots \ {r} : Writing(s)
                    /\ Resource(req[s].op, req[s].arg) = Resource(req[r].op, req[r].arg)} IN
    /\ req[r].pc = "load" /\ req[r].op # "fetch"
    /\ IF todo = Refuse THEN Finish(r) /\ UNCHANGED kept
       ELSE /\ req' = [s \in Slots |->
                 IF s = r THEN [req[r] EXCEPT !.pc = "begin", !.todo = todo,
                                    !.alone = rivals = {},
                                    !.seen = IF req[r].op = "put" THEN {file[BlobFile(req[r].arg)]} ELSE {}]
                 ELSE IF s \in rivals THEN [req[s] EXCEPT !.alone = FALSE] ELSE req[s]]
            /\ kept' = {k \in kept : k.item \notin Decides(req[r].op, req[r].arg)}
    /\ UNCHANGED <<file, made, fetched>>

\* The write of the next file begins: it is truncated.
BeginWrite(r) ==
    LET f == req[r].todo[1][1]
        rivals == {s \in Slots \ {r} : req[s].pc = "fill" /\ req[s].todo[1][1] = f} IN
    /\ req[r].pc = "begin"
    /\ file' = [file EXCEPT ![f] = Unreadable]
    /\ req' = [s \in Slots |->
         IF s = r THEN [req[r] EXCEPT !.pc = "fill", !.mixed = rivals # {}]
         ELSE IF s \in rivals THEN [req[s] EXCEPT !.mixed = TRUE] ELSE req[s]]
    /\ UNCHANGED <<made, kept, fetched>>

\* What a request that was alone may rely on once it is answered.
Sure(q, last) ==
    LET item(x, v) == {[item |-> x, val |-> v]} IN
    IF ~q.alone THEN {} ELSE
    CASE q.op \in {"create", "patch", "delete"} -> item(<<"repo", 0>>, file[NameFile])
      [] q.op \in {"invite", "remove"} -> item(<<"member", q.arg>>, q.op = "invite")
      [] q.op = "enqueue" -> item(<<"mls", last[1][2]>>, q.no)
      [] q.op = "put" -> IF Unreadable \in q.seen THEN {} ELSE item(<<"blob", q.arg>>, q.arg)
      [] q.op = "open" -> LET items == last[2][q.arg[1]].items IN
                          item(<<"made", q.no>>, <<q.arg[1], items[Len(items)].id>>)
      [] q.op \in {"close", "reopen"} -> item(<<"state", q.arg>>, q.op)
      [] q.op = "comment" -> item(<<"note", q.no>>, q.arg)
      [] q.op = "keylog" -> item(<<"keylog", 1>>, q.no)
      [] OTHER -> {}

Advance(r) ==
    LET last == Head(req[r].todo) IN
    IF Len(req[r].todo) > 1
    THEN /\ req' = [req EXCEPT ![r].todo = Tail(@), ![r].pc = "begin", ![r].mixed = FALSE]
         /\ UNCHANGED kept
    ELSE /\ Finish(r)
         /\ kept' = kept \cup Sure(req[r], last)

\* The write is done; after the last one the request is answered.
EndWrite(r) ==
    LET w == Head(req[r].todo) IN
    /\ req[r].pc = "fill"
    /\ \E v \in {w[2]} \cup (IF req[r].mixed THEN {Unreadable} ELSE {}) :
            file' = [file EXCEPT ![w[1]] = v]
    /\ Advance(r)
    /\ UNCHANGED <<made, fetched>>

\* The write fails and the file stays as it is.  create_repo ignores a failure of
\* save_members; every other request is answered with an error.
WriteFails(r) ==
    /\ req[r].pc = "fill"
    /\ faults < MaxFaults /\ faults' = faults + 1
    /\ IF req[r].op = "create" /\ req[r].todo[1][1] = MembersFile THEN Advance(r)
       ELSE Finish(r) /\ UNCHANGED kept
    /\ UNCHANGED <<file, made, fetched>>

\* fetch lists the directory: it sees all there was when it began, and any of what is
\* created meanwhile.  One file that does not parse fails it.
Listed == {n \in Numbers : Exists(QueueFile(n))}

ListQueue(r) ==
    /\ req[r].pc = "load" /\ req[r].op = "fetch"
    /\ req' = [req EXCEPT ![r].pc = "list", ![r].seen = Listed]
    /\ UNCHANGED <<file, made, kept, fetched>>

Fetch(r) ==
    /\ req[r].pc = "list"
    /\ \E more \in SUBSET (Listed \ req[r].seen) :
        LET after == {n \in req[r].seen \cup more : n > req[r].arg} IN
        fetched' = IF \E n \in after : file[QueueFile(n)] = Unreadable THEN fetched
                   ELSE [after |-> req[r].arg, must |-> req[r].must,
                         page |-> PageOf(after)]
    /\ Finish(r)
    /\ UNCHANGED <<file, made, kept>>

RequestStep(r) ==
    \/ Start(r) \/ CheckId(r) \/ CheckMember(r) \/ Load(r) \/ BeginWrite(r) \/ EndWrite(r)
    \/ ListQueue(r) \/ Fetch(r)

-----------------------------------------------------------------------------
NoFetch == [after |-> 0, must |-> {}, page |-> {}]

\* Every user has a session and the repository is there, unless the run is about how
\* they come to be.
Init ==
    /\ family \in Families
    /\ AccountsInit(IF family = "accounts" THEN EmptyDb
         ELSE [users |-> Users, tokens |-> CHOOSE f \in [Tokens -> Users \cup {NoUser}] :
                   \A u \in Users : \E t \in Tokens : f[t] = u])
    /\ file = [f \in FileNames |->
         IF family = "repo" THEN Absent
         ELSE IF f \in {NameFile, IdFile(1)} THEN Record(1)
         ELSE IF f = MembersFile THEN {Owner} ELSE Absent]
    /\ req = [r \in Slots |-> IdleReq]
    /\ made = 0 /\ kept = {} /\ fetched = NoFetch /\ faults = 0

\* The process is killed: what was under way is gone, half-written files stay.
Kill ==
    /\ faults < MaxFaults /\ faults' = faults + 1
    /\ AccountsRestart
    /\ req' = [r \in Slots |-> IdleReq]
    /\ UNCHANGED <<family, file, made, kept, fetched>>

Next ==
    \/ family = "accounts" /\ AccountStep /\ UNCHANGED <<faults, family, fileVars>>
    \/ /\ PersistFails /\ faults < MaxFaults /\ faults' = faults + 1
       /\ UNCHANGED <<family, fileVars>>
    \/ \E r \in Slots : RequestStep(r) /\ UNCHANGED <<accountVars, faults, family>>
    \/ \E r \in Slots : WriteFails(r) /\ UNCHANGED <<accountVars, family>>
    \/ Kill

Spec == Init /\ [][Next]_vars

-----------------------------------------------------------------------------
(* Properties *)

\* The items of a list with this number, and the numbers of those a request made.
Numbered(at) == {x \in Range(Index[at[1]].items) : x.id = at[2]}
MadeBy(by) ==
    UNION {{<<l, x.id>> : x \in {y \in Range(Index[l].items) : y.by = by}} : l \in Lists}

Shows(k) ==
    LET x == k.item[2] IN
    CASE k.item[1] = "repo" -> Readable(NameFile) =>
            file[NameFile] = k.val /\ file[IdFile(k.val.id)] = k.val
      [] k.item[1] = "member" -> file[MembersFile] # Unreadable => (x \in Members) = k.val
      [] k.item[1] = "mls" -> file[QueueFile(x)] = k.val
      [] k.item[1] = "made" -> IndexParses =>
            MadeBy(x) = {k.val}
      [] k.item[1] = "state" -> IndexParses =>
            \E i \in Numbered(x) : i.state = k.val
      [] k.item[1] = "note" -> IndexParses =>
            \E i \in Numbered(k.val) : x \in i.notes
      [] k.item[1] = "keylog" -> file[KeyLogFile(1)] = k.val
      [] OTHER -> TRUE

\* A change that was answered with success, and that no other request on the same
\* record, access list, index or queue overlapped, is there until the next change of
\* the same thing, whatever overlaps, fails or is killed later: a directory entry in
\* both its files, a member, a message under its number, an issue, its state, its
\* comments (routes.rs, local.rs, browse.rs and collab.rs lock none of these files).
\* It may become unreadable with the rest of its file.
AckedStay == \A k \in kept : Shows(k)

\* A blob whose upload was answered is complete for good, unless the upload met another
\* of the same blob or the remains of one that was cut off (BlobStore::put).
AckedBlobWhole == \A k \in kept : k.item[1] = "blob" => file[BlobFile(k.item[2])] = k.val

\* A page of the queue misses no message whose sender was answered before the fetch
\* began: a reader that moves its cursor to the end of the page skips none (fetch).
FetchComplete ==
    \A n \in fetched.must : n > fetched.after /\ n \notin fetched.page =>
        Cardinality(fetched.page) = PageLimit /\ \A k \in fetched.page : k < n
=============================================================================
