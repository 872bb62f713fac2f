----------------------------- MODULE HostProofs -----------------------------
(***************************************************************************)
(* Proofs about Host and HostAccounts for every number of users, tokens,   *)
(* requests, kills and failed writes.                                      *)
(***************************************************************************)
EXTENDS Host, FiniteSetTheorems, WellFoundedInduction, TLAPS

Store == [users : SUBSET Users, tokens : [Tokens -> Users \cup {NoUser}]]
Lock == [op : {"none", "register", "session", "pat", "revoke"}, user : Users \cup {NoUser},
         token : Tokens \cup {NoToken}, pc : {"free", "write", "rename", "session"}]

AccountsType ==
    /\ db \in Store /\ authFile \in Store /\ tmpFile \in Store /\ holder \in Lock
    /\ promised \in [users : SUBSET Users, tokens : SUBSET Tokens, revoked : SUBSET Tokens]

\* A store keeps what was promised.
Honours(store) ==
    /\ promised.users \subseteq store.users
    /\ \A t \in promised.tokens : store.tokens[t] # NoUser
    /\ \A t \in promised.revoked : store.tokens[t] = NoUser

\* The request under the lock has done to memory what it will promise, and between the
\* write and the rename the temporary file is a copy of memory.
HolderOK ==
    /\ holder.pc # "free" => holder.op # "none"
    /\ holder.pc = "session" => holder.op = "register"
    /\ holder.pc = "rename" => tmpFile = db
    /\ holder.op = "register" => holder.user \in db.users
    /\ holder.op = "session" => holder.user \in db.users
    /\ holder.op \in {"session", "pat"} => holder.token \in Tokens /\ db.tokens[holder.token] # NoUser
    /\ holder.op = "revoke" => holder.token \in Tokens /\ db.tokens[holder.token] = NoUser

\* Memory and the file both keep every promise, at every moment.
AccountsInv == AccountsType /\ HolderOK /\ Honours(db) /\ Honours(authFile)

USE HostAccountsAssumption, HostAssumption, FamilyAssumption

-----------------------------------------------------------------------------
\* The lock when nobody holds it.
LEMMA FreeIs == Free \in Lock /\ Free.op = "none" /\ Free.pc = "free"
BY DEF Free, Lock

\* An operation on the store, and the promise that a revocation ends, keep the rest.
LEMMA StoreOpInv ==
  ASSUME AccountsInv, NEW op \in {"register", "session", "pat", "revoke"}, NEW u \in Users, NEW t \in Tokens,
         StoreOp(op, u, t), op = "session" => u \in db.users,
         promised' = IF op = "revoke" THEN [promised EXCEPT !.tokens = @ \ {t}] ELSE promised
  PROVE  AccountsInv'
<1>0. /\ db \in Store /\ authFile \in Store /\ tmpFile \in Store
      /\ promised \in [users : SUBSET Users, tokens : SUBSET Tokens, revoked : SUBSET Tokens]
      /\ Honours(db) /\ Honours(authFile)
  BY DEF AccountsInv, AccountsType
<1>1. UNCHANGED <<authFile, tmpFile>>
  BY DEF StoreOp, Change
<1>2. CASE op = "register"
  <2>1. /\ db' = [db EXCEPT !.users = @ \cup {u}] /\ promised' = promised
        /\ holder' = [op |-> op, user |-> u, token |-> NoToken, pc |-> "write"]
    BY <1>2 DEF StoreOp, Change, AddUser
  <2>2. db' \in Store /\ db'.users = db.users \cup {u} /\ db'.tokens = db.tokens
    BY <1>0, <2>1 DEF Store
  <2>3. holder' \in Lock /\ holder'.op = "register" /\ holder'.pc = "write" /\ holder'.user = u
    BY <1>2, <2>1 DEF Lock
  <2> QED
    BY <1>0, <1>1, <2>1, <2>2, <2>3 DEF AccountsInv, AccountsType, HolderOK, Honours
<1>3. CASE op \in {"session", "pat"}
  <2>1. /\ db' = [db EXCEPT !.tokens[t] = u] /\ promised' = promised
        /\ holder' = [op |-> op, user |-> u, token |-> t, pc |-> "write"] /\ t \in Unused
    BY <1>3 DEF StoreOp, Change, AddToken
  <2>2. /\ db' \in Store /\ db'.users = db.users /\ db'.tokens[t] = u
        /\ \A x \in Tokens : x # t => db'.tokens[x] = db.tokens[x]
    BY <1>0, <2>1 DEF Store
  <2>3. holder' \in Lock /\ holder'.op = op /\ holder'.pc = "write" /\ holder'.user = u /\ holder'.token = t
    BY <1>3, <2>1 DEF Lock
  <2>4. t \notin promised.revoked
    BY <2>1 DEF Unused
  <2>5. Honours(db)' /\ Honours(authFile)'
    BY <1>0, <1>1, <2>1, <2>2, <2>4 DEF Honours
  <2>6. HolderOK'
    BY <1>3, <2>2, <2>3 DEF HolderOK
  <2> QED
    BY <1>0, <1>1, <2>1, <2>2, <2>3, <2>5, <2>6 DEF AccountsInv, AccountsType
<1>4. CASE op = "revoke"
  <2>1. /\ db' = [db EXCEPT !.tokens[t] = NoUser] /\ promised' = [promised EXCEPT !.tokens = @ \ {t}]
        /\ holder' = [op |-> op, user |-> u, token |-> t, pc |-> "write"]
    BY <1>4 DEF StoreOp, Change, DropToken
  <2>2. /\ db' \in Store /\ db'.users = db.users /\ db'.tokens[t] = NoUser
        /\ \A x \in Tokens : x # t => db'.tokens[x] = db.tokens[x]
    BY <1>0, <2>1 DEF Store
  <2>3. holder' \in Lock /\ holder'.op = op /\ holder'.pc = "write" /\ holder'.token = t
    BY <1>4, <2>1 DEF Lock
  <2>4. /\ promised' \in [users : SUBSET Users, tokens : SUBSET Tokens, revoked : SUBSET Tokens]
        /\ promised'.users = promised.users /\ promised'.tokens = promised.tokens \ {t}
        /\ promised'.revoked = promised.revoked
    BY <1>0, <2>1
  <2>5. Honours(db)' /\ Honours(authFile)'
    BY <1>0, <1>1, <2>2, <2>4 DEF Honours
  <2>6. HolderOK'
    BY <1>4, <2>2, <2>3 DEF HolderOK
  <2> QED
    BY <1>0, <1>1, <2>2, <2>3, <2>4, <2>5, <2>6 DEF AccountsInv, AccountsType
<1> QED
  BY <1>2, <1>3, <1>4

\* A request changes memory under the lock.
LEMMA RequestInv ==
  ASSUME AccountsInv, NEW op \in {"register", "session", "pat", "revoke"}, NEW u \in Users, NEW t \in Tokens,
         AccountRoute(op, u, t) \/ SignForm(op, u, t) \/ TokensCreate(u, t)
  PROVE  AccountsInv'
<1>1. CASE AccountRoute(op, u, t)
  BY <1>1, StoreOpInv DEF AccountRoute
<1>2. CASE SignForm(op, u, t)
  BY <1>2, StoreOpInv DEF SignForm
<1>3. CASE TokensCreate(u, t)
  BY <1>3, StoreOpInv DEF TokensCreate
<1> QED
  BY <1>1, <1>2, <1>3

\* The temporary file becomes a copy of memory.
LEMMA WriteTmpInv ==
  ASSUME AccountsInv, WriteTmp
  PROVE  AccountsInv'
<1>0. holder \in Lock /\ db \in Store
  BY DEF AccountsInv, AccountsType
<1>1. /\ holder' \in Lock /\ holder'.pc = "rename" /\ holder'.op = holder.op
      /\ holder'.user = holder.user /\ holder'.token = holder.token
  BY <1>0 DEF WriteTmp, Lock
<1>2. tmpFile' = db /\ UNCHANGED <<db, authFile, promised>> /\ holder.pc = "write"
  BY DEF WriteTmp
<1>3. HolderOK'
  BY <1>1, <1>2 DEF AccountsInv, HolderOK
<1> QED
  BY <1>0, <1>1, <1>2, <1>3 DEF AccountsInv, AccountsType, Honours

\* The rename makes the file a copy of memory, and only then the promise is made.
LEMMA RenameInv ==
  ASSUME AccountsInv, Rename
  PROVE  AccountsInv'
<1>0. /\ holder \in Lock /\ db \in Store /\ tmpFile = db /\ holder.op # "none" /\ Honours(db) /\ HolderOK
      /\ promised \in [users : SUBSET Users, tokens : SUBSET Tokens, revoked : SUBSET Tokens]
  BY DEF AccountsInv, AccountsType, HolderOK, Rename
<1>1. authFile' = db /\ UNCHANGED <<db, tmpFile>>
  BY <1>0 DEF Rename
<1>2. CASE holder.op = "register"
  <2>1. promised' = promised /\ holder' = [holder EXCEPT !.pc = "session"]
    BY <1>2 DEF Rename
  <2>2. /\ holder' \in Lock /\ holder'.pc = "session" /\ holder'.op = "register" /\ holder'.user = holder.user
    BY <1>0, <1>2, <2>1 DEF Lock
  <2> QED
    BY <1>0, <1>1, <1>2, <2>1, <2>2 DEF AccountsInv, AccountsType, HolderOK, Honours
<1>3. ASSUME holder.op # "register"
      PROVE  AccountsInv'
  <2>1. holder' = Free
    BY <1>3 DEF Rename
  <2>2. HolderOK'
    BY <2>1, FreeIs DEF HolderOK
  <2>3. /\ promised' \in [users : SUBSET Users, tokens : SUBSET Tokens, revoked : SUBSET Tokens]
        /\ Honours(db)'
    <3>1. CASE holder.op = "revoke"
      <4>1. promised' = [promised EXCEPT !.revoked = @ \cup {holder.token}]
        BY <3>1 DEF Rename
      <4> QED
        BY <1>0, <1>1, <3>1, <4>1 DEF HolderOK, Honours
    <3>2. CASE holder.op = "session"
      <4>1. promised' = [promised EXCEPT !.users = @ \cup {holder.user}, !.tokens = @ \cup {holder.token}]
        BY <3>2 DEF Rename
      <4> QED
        BY <1>0, <1>1, <3>2, <4>1 DEF HolderOK, Honours, Store
    <3>3. CASE holder.op = "pat"
      <4>1. promised' = [promised EXCEPT !.tokens = @ \cup {holder.token}]
        BY <3>3 DEF Rename
      <4> QED
        BY <1>0, <1>1, <3>3, <4>1 DEF HolderOK, Honours
    <3> QED
      BY <1>0, <1>3, <3>1, <3>2, <3>3 DEF Lock
  <2>4. Honours(authFile)'
    BY <1>1, <2>3 DEF Honours
  <2> QED
    BY <1>0, <1>1, <2>1, <2>2, <2>3, <2>4, FreeIs DEF AccountsInv, AccountsType
<1> QED
  BY <1>2, <1>3

\* A registration goes on to issue its session.
LEMMA IssueSessionInv ==
  ASSUME AccountsInv, IssueSession
  PROVE  AccountsInv'
<1>1. PICK t \in Tokens : StoreOp("session", holder.user, t)
  BY DEF IssueSession, Unused
<1>2. holder.user \in Users /\ holder.user \in db.users /\ promised' = promised
  BY DEF AccountsInv, AccountsType, HolderOK, Lock, Store, IssueSession
<1> QED
  BY <1>1, <1>2, StoreOpInv

\* A failed write leaves memory ahead of the file; a kill takes memory back to it.
LEMMA FaultInv ==
  ASSUME AccountsInv, PersistFails \/ AccountsRestart
  PROVE  AccountsInv'
<1>1. holder' = Free /\ UNCHANGED <<authFile, tmpFile, promised>> /\ db' \in {db, authFile}
  BY DEF PersistFails, AccountsRestart, OpenStore, AccountsInv, AccountsType, Store
<1> QED
  BY <1>1, FreeIs DEF AccountsInv, AccountsType, HolderOK, Honours

\* The store begins as it is in the file.
LEMMA InitAccounts == Init => AccountsInv
<1> SUFFICES ASSUME Init PROVE AccountsInv
  OBVIOUS
<1>1. PICK start \in Store : AccountsInit(start)
  <2> DEFINE full == [users |-> Users, tokens |-> CHOOSE f \in [Tokens -> Users \cup {NoUser}] :
                        \A u \in Users : \E t \in Tokens : f[t] = u]
  <2>1. full \in Store
    BY DEF Store
  <2>2. EmptyDb \in Store
    BY DEF EmptyDb, Store
  <2>3. AccountsInit(IF family = "accounts" THEN EmptyDb ELSE full)
    BY DEF Init
  <2> HIDE DEF full
  <2> QED
    BY <2>1, <2>2, <2>3
<1>2. /\ db = start /\ authFile = start /\ tmpFile = start /\ holder = Free
      /\ promised = [users |-> start.users,
                     tokens |-> {t \in Tokens : start.tokens[t] # NoUser}, revoked |-> {}]
  BY <1>1 DEF AccountsInit
<1>3. promised \in [users : SUBSET Users, tokens : SUBSET Tokens, revoked : SUBSET Tokens]
  BY <1>2 DEF Store
<1> QED
  BY <1>2, <1>3, FreeIs DEF AccountsInv, AccountsType, HolderOK, Honours

\* Every step keeps what was promised in the file.
LEMMA NextAccounts == AccountsInv /\ [Next]_vars => AccountsInv'
<1> SUFFICES ASSUME AccountsInv, [Next]_vars PROVE AccountsInv'
  OBVIOUS
<1>1. CASE UNCHANGED accountVars
  BY <1>1 DEF accountVars, AccountsInv, AccountsType, HolderOK, Honours
<1>2. CASE AccountStep
  BY <1>2, RequestInv, WriteTmpInv, RenameInv, IssueSessionInv DEF AccountStep
<1>3. CASE PersistFails \/ AccountsRestart
  BY <1>3, FaultInv
<1> QED
  BY <1>1, <1>2, <1>3 DEF Next, Kill, vars

\* What an account request was answered with survives every kill and every failed write of
\* auth.json (persist in users.rs).
THEOREM AnswersSafe == Spec => []AnswersDurable
<1>1. AccountsInv => AnswersDurable
  BY DEF AccountsInv, Honours, AnswersDurable, TokenUser
<1> QED
  BY <1>1, InitAccounts, NextAccounts, PTL DEF Spec

-----------------------------------------------------------------------------
(* The unlocked files *)

Keys == {"op", "arg", "user", "no", "pc", "todo", "alone", "mixed", "seen", "must"}

\* The requests are those of the family, and only a fetch lists the queue.
Shape ==
    /\ family \in DOMAIN Ops /\ made \in Nat /\ DOMAIN file = FileNames /\ DOMAIN req = Slots
    /\ \A r \in Slots :
        /\ DOMAIN req[r] = Keys /\ req[r].op \in Ops[family] \cup {"none"}
        /\ req[r].pc # "idle" => req[r].op # "none"
        /\ req[r].pc \in {"begin", "fill"} => req[r].op # "fetch"
        /\ req[r].pc = "list" => req[r].op = "fetch"

\* A put that is writing has the blob, unless it was there, and the metadata before it;
\* one that is alone has no rival, its writes do not mix, and once the blob is behind it
\* the blob is whole or was found in pieces.
PutOK(r) ==
    LET q == req[r]
        b == req[r].arg IN
    /\ q.todo \in {<<<<MetaFile(b), q.no>>>>, <<<<BlobFile(b), b>>, <<MetaFile(b), q.no>>>>}
    /\ q.alone =>
        /\ \A s \in Slots \ {r} : Writing(s) => req[s].arg # b
        /\ q.pc = "fill" => ~q.mixed
        /\ Len(q.todo) = 1 => Unreadable \in q.seen \/ file[BlobFile(b)] = b

BlobsOK ==
    /\ \A b \in Blobs : file[BlobFile(b)] \in {Absent, Unreadable, b}
    /\ \A r \in Slots : req[r].op = "put" => req[r].arg \in Blobs
    /\ \A r \in Slots : Writing(r) => PutOK(r)
    /\ \A k \in kept : k.item[1] = "blob" =>
        /\ k.item[2] \in Blobs /\ k.val = k.item[2] /\ file[BlobFile(k.val)] = k.val
        /\ \A r \in Slots : Writing(r) /\ req[r].arg = k.val => Len(req[r].todo) = 1

BlobInv ==
    /\ Shape
    /\ IF family = "blob" THEN BlobsOK ELSE \A k \in kept : k.item[1] # "blob"

\* Requests that have not worked out what to write.
Pending == {r \in Slots : req[r].pc \in {"id", "member", "load"}}
Taken(n) == n \in Numbers /\ n + Cardinality(Pending) <= made

\* What a request on the queue will write, and what its fetch will show.
ReqOK(r) ==
    LET q == req[r] IN
    /\ q.no \in Nat /\ q.must \subseteq Listed
    /\ q.op = "fetch" => q.arg \in Nat
    /\ Writing(r) => \E n \in Numbers : Taken(n) /\ q.todo = <<<<QueueFile(n), q.no>>>>
    /\ q.pc = "list" => q.must \subseteq q.seen /\ q.seen \subseteq Numbers

\* The numbers in the queue leave room for those that are still to come, what was answered
\* is there, and a listing that has begun will show what was there before it.
QueueOK ==
    /\ made <= MaxRequests /\ Cardinality(Pending) <= made
    /\ \A n \in Listed : Taken(n)
    /\ \A r \in Slots : ReqOK(r)
    /\ \A k \in kept : k.item[1] = "mls" => k.item[2] \in Listed

QueueInv ==
    /\ Shape
    /\ IF family = "queue" THEN QueueOK ELSE fetched = NoFetch
    /\ FetchComplete

\* What a step leaves of the requests: all but r, and of r all but the fields in S.
Others(r) == DOMAIN req' = Slots /\ \A s \in Slots \ {r} : req'[s] = req[s]
Same(r, S) == DOMAIN req'[r] = Keys /\ \A x \in Keys \ S : req'[r][x] = req[r][x]

\* The fields of a slot without a request that the proofs look at.
LEMMA IdleIs ==
  /\ DOMAIN IdleReq = Keys /\ IdleReq.op = "none" /\ IdleReq.pc = "idle" /\ IdleReq.no = 0
  /\ IdleReq.must = {}
BY DEF IdleReq, Keys

\* The request is over.
LEMMA FinishIs ==
  ASSUME Shape, NEW r \in Slots, Finish(r)
  PROVE  Others(r) /\ req'[r] = IdleReq
BY DEF Shape, Finish, Others

\* The request goes on and nothing else changes.
LEMMA PcIs ==
  ASSUME Shape, NEW r \in Slots, NEW pc, req' = [req EXCEPT ![r].pc = pc]
  PROVE  Others(r) /\ Same(r, {"pc"}) /\ req'[r].pc = pc
BY DEF Shape, Others, Same, Keys

\* A request begins.
LEMMA StartIs ==
  ASSUME Shape, NEW r \in Slots, Start(r)
  PROVE  /\ Others(r) /\ UNCHANGED <<file, kept, fetched>> /\ made' = made + 1 /\ made < MaxRequests
         /\ req[r].pc = "idle"
         /\ \E op \in Ops[family] : \E arg \in Args(op) :
              /\ DOMAIN req'[r] = Keys /\ req'[r].op = op /\ req'[r].arg = arg
              /\ req'[r].no = made + 1 /\ req'[r].pc \in {"id", "member", "load"}
              /\ req'[r].must = {k.item[2] : k \in {x \in kept : x.item[1] = "mls"}}
<1>1. PICK t \in Tokens, op \in Ops[family] : \E arg \in Args(op) :
        req' = [req EXCEPT ![r] = [IdleReq EXCEPT !.op = op, !.arg = arg,
            !.user = TokenUser(t), !.no = made + 1,
            !.pc = IF op \in Unchecked THEN "load" ELSE IF op \in ById THEN "id" ELSE "member",
            !.must = {k.item[2] : k \in {x \in kept : x.item[1] = "mls"}}]]
  BY DEF Start
<1>2. PICK arg \in Args(op) :
        req' = [req EXCEPT ![r] = [IdleReq EXCEPT !.op = op, !.arg = arg,
            !.user = TokenUser(t), !.no = made + 1,
            !.pc = IF op \in Unchecked THEN "load" ELSE IF op \in ById THEN "id" ELSE "member",
            !.must = {k.item[2] : k \in {x \in kept : x.item[1] = "mls"}}]]
  BY <1>1
<1>3. PICK u, pc, must :
        /\ u = TokenUser(t) /\ must = {k.item[2] : k \in {x \in kept : x.item[1] = "mls"}}
        /\ pc = IF op \in Unchecked THEN "load" ELSE IF op \in ById THEN "id" ELSE "member"
  OBVIOUS
<1>4. req' = [req EXCEPT ![r] = [IdleReq EXCEPT !.op = op, !.arg = arg, !.user = u,
                                    !.no = made + 1, !.pc = pc, !.must = must]]
  BY <1>2, <1>3, Zenon
<1>5. Others(r) /\ req'[r] = [IdleReq EXCEPT !.op = op, !.arg = arg, !.user = u,
                                    !.no = made + 1, !.pc = pc, !.must = must]
  BY <1>4 DEF Shape, Others
<1>6. /\ DOMAIN req'[r] = Keys /\ req'[r].op = op /\ req'[r].arg = arg
      /\ req'[r].no = made + 1 /\ req'[r].pc = pc /\ req'[r].must = must
  BY <1>5 DEF IdleReq, Keys
<1>7. UNCHANGED <<file, kept, fetched>> /\ made' = made + 1 /\ made < MaxRequests /\ req[r].pc = "idle"
  BY DEF Start
<1> QED
  BY <1>3, <1>5, <1>6, <1>7

\* The steps of a request before it writes.
LEMMA CheckIs ==
  ASSUME Shape, NEW r \in Slots, CheckId(r) \/ CheckMember(r)
  PROVE  /\ Others(r) /\ UNCHANGED <<file, made, kept, fetched>> /\ req[r].pc \in {"id", "member"}
         /\ \/ req'[r] = IdleReq
            \/ Same(r, {"pc"}) /\ req'[r].pc \in {"member", "load"}
<1>1. \/ Finish(r)
      \/ req' = [req EXCEPT ![r].pc = "member"]
      \/ req' = [req EXCEPT ![r].pc = "load"]
  BY DEF CheckId, CheckMember
<1>2. UNCHANGED <<file, made, kept, fetched>> /\ req[r].pc \in {"id", "member"}
  BY DEF CheckId, CheckMember
<1> QED
  BY <1>1, <1>2, FinishIs, PcIs

\* The other requests on the same thing that are writing.
Rivals(r) == {s \in Slots \ {r} : Writing(s)
                /\ Resource(req[s].op, req[s].arg) = Resource(req[r].op, req[r].arg)}

\* A request refuses, or knows what to write; its rivals are no longer alone.
LEMMA LoadIs ==
  ASSUME Shape, NEW r \in Slots, Load(r)
  PROVE  /\ UNCHANGED <<file, made, fetched>> /\ req[r].pc = "load" /\ req[r].op # "fetch"
         /\ \/ Others(r) /\ req'[r] = IdleReq /\ kept' = kept
            \/ /\ DOMAIN req' = Slots
               /\ Same(r, {"pc", "todo", "alone", "seen"}) /\ req'[r].pc = "begin"
               /\ req'[r].todo = Writes(req[r].op, req[r].arg, req[r].no)
               /\ req'[r].todo # Refuse
               /\ req'[r].alone = (Rivals(r) = {})
               /\ req[r].op = "put" => req'[r].seen = {file[BlobFile(req[r].arg)]}
               /\ \A s \in Slots \ {r} : /\ Same(s, {"alone"})
                                         /\ req'[s].alone => req[s].alone /\ s \notin Rivals(r)
               /\ kept' = {k \in kept : k.item \notin Decides(req[r].op, req[r].arg)}
<1>1. UNCHANGED <<file, made, fetched>> /\ req[r].pc = "load" /\ req[r].op # "fetch"
  BY DEF Load
<1>2. PICK todo : todo = Writes(req[r].op, req[r].arg, req[r].no)
  OBVIOUS
<1>3. CASE todo = Refuse
  BY <1>1, <1>2, <1>3, FinishIs DEF Load
<1>4. CASE todo # Refuse
  <2>1. PICK seen : seen = IF req[r].op = "put" THEN {file[BlobFile(req[r].arg)]} ELSE {}
    OBVIOUS
  <2>2. /\ req' = [s \in Slots |->
               IF s = r THEN [req[r] EXCEPT !.pc = "begin", !.todo = todo,
                                            !.alone = (Rivals(r) = {}), !.seen = seen]
               ELSE IF s \in Rivals(r) THEN [req[s] EXCEPT !.alone = FALSE] ELSE req[s]]
        /\ kept' = {k \in kept : k.item \notin Decides(req[r].op, req[r].arg)}
    BY <1>2, <1>4, <2>1 DEF Load, Rivals
  <2>3. /\ DOMAIN req' = Slots
        /\ req'[r] = [req[r] EXCEPT !.pc = "begin", !.todo = todo,
                                    !.alone = (Rivals(r) = {}), !.seen = seen]
        /\ \A s \in Slots \ {r} : \/ s \in Rivals(r) /\ req'[s] = [req[s] EXCEPT !.alone = FALSE]
                                  \/ s \notin Rivals(r) /\ req'[s] = req[s]
    BY <2>2
  <2>4. PICK lone \in BOOLEAN : lone = (Rivals(r) = {})
    OBVIOUS
  <2>5. req'[r] = [req[r] EXCEPT !.pc = "begin", !.todo = todo, !.alone = lone, !.seen = seen]
    BY <2>3, <2>4
  <2>6. /\ Same(r, {"pc", "todo", "alone", "seen"}) /\ req'[r].pc = "begin"
        /\ req'[r].todo = todo /\ req'[r].alone = lone /\ req'[r].seen = seen
    <3>1. DOMAIN req[r] = Keys
      BY DEF Shape
    <3>2. DOMAIN req'[r] = Keys
      BY <2>5, <3>1 DEF Keys
    <3>3. req'[r].pc = "begin" /\ req'[r].todo = todo /\ req'[r].alone = lone /\ req'[r].seen = seen
      BY <2>5, <3>1 DEF Keys
    <3>4. \A x \in Keys \ {"pc", "todo", "alone", "seen"} : req'[r][x] = req[r][x]
      BY <2>5, <3>1
    <3> QED
      BY <3>2, <3>3, <3>4 DEF Same
  <2>7. ASSUME NEW s \in Slots \ {r}
        PROVE  Same(s, {"alone"}) /\ (req'[s].alone => req[s].alone /\ s \notin Rivals(r))
    <3>1. DOMAIN req[s] = Keys
      BY DEF Shape
    <3>2. CASE s \in Rivals(r)
      <4>1. req'[s] = [req[s] EXCEPT !.alone = FALSE]
        BY <2>3, <3>2
      <4> QED
        BY <3>1, <4>1 DEF Same, Keys
    <3>3. CASE s \notin Rivals(r)
      BY <2>3, <3>1, <3>3 DEF Same
    <3> QED
      BY <3>2, <3>3
  <2> QED
    BY <1>1, <1>2, <1>4, <2>1, <2>2, <2>3, <2>4, <2>6, <2>7
<1> QED
  BY <1>3, <1>4

\* The file a request is writing, and the others that are.
Target(r) == req[r].todo[1][1]
Overlaps(r) == {s \in Slots \ {r} : req[s].pc = "fill" /\ Target(s) = Target(r)}

\* A file is truncated; writes of the same file that overlap are mixed.
LEMMA BeginIs ==
  ASSUME Shape, NEW r \in Slots, BeginWrite(r)
  PROVE  /\ UNCHANGED <<made, kept, fetched>> /\ req[r].pc = "begin"
         /\ file' = [file EXCEPT ![Target(r)] = Unreadable]
         /\ DOMAIN req' = Slots
         /\ Same(r, {"pc", "mixed"}) /\ req'[r].pc = "fill" /\ (req'[r].mixed => Overlaps(r) # {})
         /\ \A s \in Slots \ {r} :
              Same(s, {"mixed"}) /\ (req'[s].mixed => req[s].mixed \/ s \in Overlaps(r))
<1>1. PICK f, rivals : f = Target(r) /\ rivals = Overlaps(r)
  OBVIOUS
<1>2. PICK mix \in BOOLEAN : mix = (rivals # {})
  OBVIOUS
<1>3. /\ UNCHANGED <<made, kept, fetched>> /\ req[r].pc = "begin"
      /\ file' = [file EXCEPT ![f] = Unreadable]
      /\ req' = [s \in Slots |->
           IF s = r THEN [req[r] EXCEPT !.pc = "fill", !.mixed = mix]
           ELSE IF s \in rivals THEN [req[s] EXCEPT !.mixed = TRUE] ELSE req[s]]
  <2>1. req' = [s \in Slots |->
           IF s = r THEN [req[r] EXCEPT !.pc = "fill", !.mixed = Overlaps(r) # {}]
           ELSE IF s \in Overlaps(r) THEN [req[s] EXCEPT !.mixed = TRUE] ELSE req[s]]
    BY Zenon DEF BeginWrite, Overlaps, Target
  <2> QED
    BY <1>1, <1>2, <2>1 DEF BeginWrite, Target
<1>4. /\ DOMAIN req' = Slots /\ req'[r] = [req[r] EXCEPT !.pc = "fill", !.mixed = mix]
      /\ \A s \in Slots \ {r} : \/ s \in rivals /\ req'[s] = [req[s] EXCEPT !.mixed = TRUE]
                                \/ s \notin rivals /\ req'[s] = req[s]
  BY <1>2, <1>3
<1>5. Same(r, {"pc", "mixed"}) /\ req'[r].pc = "fill" /\ req'[r].mixed = mix
  BY <1>4 DEF Shape, Same, Keys
<1>6. ASSUME NEW s \in Slots \ {r}
      PROVE  Same(s, {"mixed"}) /\ (req'[s].mixed => req[s].mixed \/ s \in rivals)
  <2>1. DOMAIN req[s] = Keys
    BY DEF Shape
  <2>2. CASE s \in rivals
    <3>1. req'[s] = [req[s] EXCEPT !.mixed = TRUE]
      BY <1>1, <1>4, <2>2
    <3> QED
      BY <2>1, <2>2, <3>1 DEF Same, Keys
  <2>3. CASE s \notin rivals
    BY <1>4, <2>1, <2>3 DEF Same
  <2> QED
    BY <2>2, <2>3
<1> QED
  BY <1>1, <1>2, <1>3, <1>4, <1>5, <1>6

\* On to the next file, or to the answer.
LEMMA AdvanceIs ==
  ASSUME Shape, NEW r \in Slots, Advance(r)
  PROVE  /\ Others(r)
         /\ \/ /\ Len(req[r].todo) > 1 /\ kept' = kept
               /\ Same(r, {"todo", "pc", "mixed"})
               /\ req'[r].todo = Tail(req[r].todo) /\ req'[r].pc = "begin"
            \/ /\ ~(Len(req[r].todo) > 1) /\ req'[r] = IdleReq
               /\ kept' = kept \cup Sure(req[r], Head(req[r].todo))
<1>1. CASE Len(req[r].todo) > 1
  <2>1. /\ req' = [req EXCEPT ![r].todo = Tail(@), ![r].pc = "begin", ![r].mixed = FALSE]
        /\ kept' = kept
    BY <1>1 DEF Advance
  <2>2. DOMAIN req = Slots /\ DOMAIN req[r] = Keys
    BY DEF Shape
  <2>3. PICK tail : tail = Tail(req[r].todo)
    OBVIOUS
  <2>4. Others(r) /\ req'[r] = [req[r] EXCEPT !.todo = tail, !.pc = "begin", !.mixed = FALSE]
    BY <2>1, <2>2, <2>3 DEF Others, Keys
  <2>5. Same(r, {"todo", "pc", "mixed"}) /\ req'[r].todo = tail /\ req'[r].pc = "begin"
    BY <2>2, <2>4 DEF Same, Keys
  <2> QED
    BY <1>1, <2>1, <2>3, <2>4, <2>5
<1>2. CASE ~(Len(req[r].todo) > 1)
  BY <1>2, FinishIs DEF Advance
<1> QED
  BY <1>1, <1>2

\* The end of a write, done or failed.
LEMMA EndIs ==
  ASSUME Shape, NEW r \in Slots, EndWrite(r)
  PROVE  /\ UNCHANGED <<made, fetched>> /\ req[r].pc = "fill" /\ Advance(r)
         /\ \E v : /\ v = Head(req[r].todo)[2] \/ (req[r].mixed /\ v = Unreadable)
                   /\ file' = [file EXCEPT ![Head(req[r].todo)[1]] = v]
BY DEF EndWrite

\* A failed write ends every request but a creation.
LEMMA FailIs ==
  ASSUME Shape, NEW r \in Slots, WriteFails(r)
  PROVE  /\ UNCHANGED <<file, made, fetched>> /\ req[r].pc = "fill"
         /\ \/ req[r].op = "create" /\ Advance(r)
            \/ Others(r) /\ req'[r] = IdleReq /\ kept' = kept
BY FinishIs DEF WriteFails

\* A fetch lists the queue.
LEMMA ListIs ==
  ASSUME Shape, NEW r \in Slots, ListQueue(r)
  PROVE  /\ Others(r) /\ UNCHANGED <<file, made, kept, fetched>> /\ req[r].pc = "load"
         /\ req[r].op = "fetch" /\ Same(r, {"pc", "seen"})
         /\ req'[r].pc = "list" /\ req'[r].seen = Listed
<1>1. req' = [req EXCEPT ![r].pc = "list", ![r].seen = Listed]
  BY DEF ListQueue
<1>2. PICK seen : seen = Listed
  OBVIOUS
<1>3. Others(r) /\ req'[r] = [req[r] EXCEPT !.pc = "list", !.seen = seen]
  BY <1>1, <1>2 DEF Shape, Others
<1>4. Same(r, {"pc", "seen"}) /\ req'[r].pc = "list" /\ req'[r].seen = seen
  BY <1>3 DEF Shape, Same, Keys
<1> QED
  BY <1>2, <1>3, <1>4 DEF ListQueue

\* A fetch reads what it listed, and is over.
LEMMA FetchEnds ==
  ASSUME Shape, NEW r \in Slots, Fetch(r)
  PROVE  /\ Others(r) /\ req'[r] = IdleReq /\ UNCHANGED <<file, made, kept>>
         /\ req[r].pc = "list" /\ req[r].op = "fetch"
BY FinishIs DEF Fetch, Shape

\* The operations of a family.
LEMMA FamilyOps ==
  ASSUME family \in DOMAIN Ops
  PROVE  /\ "none" \notin Ops[family]
         /\ "put" \in Ops[family] => family = "blob"
         /\ "fetch" \in Ops[family] => family = "queue"
         /\ family = "blob" => Ops[family] = {"put"}
         /\ family = "queue" => Ops[family] = {"enqueue", "fetch"}
<1>1. family \in {"repo", "members", "queue", "blob", "index", "keys", "accounts"}
  BY DEF Ops
<1> QED
  BY <1>1 DEF Ops, IndexOps

\* Requests keep their shape when each is as it was, is over, or goes on.
LEMMA ShapeKept ==
  ASSUME Shape, family' = family, made' \in Nat, DOMAIN file' = DOMAIN file, DOMAIN req' = Slots,
         \A s \in Slots :
            \/ req'[s] = req[s] \/ req'[s] = IdleReq
            \/ /\ DOMAIN req'[s] = Keys /\ req'[s].op \in Ops[family]
               /\ req'[s].pc \in {"begin", "fill"} => req'[s].op # "fetch"
               /\ req'[s].pc = "list" => req'[s].op = "fetch"
  PROVE  Shape'
<1>1. family \in DOMAIN Ops /\ "none" \notin Ops[family]
  BY FamilyOps DEF Shape
<1>2. ASSUME NEW s \in Slots
      PROVE  /\ DOMAIN req'[s] = Keys /\ req'[s].op \in Ops[family] \cup {"none"}
             /\ req'[s].pc # "idle" => req'[s].op # "none"
             /\ req'[s].pc \in {"begin", "fill"} => req'[s].op # "fetch"
             /\ req'[s].pc = "list" => req'[s].op = "fetch"
  BY <1>1, IdleIs DEF Shape
<1> QED
  BY <1>1, <1>2 DEF Shape

\* Every step keeps the shape of the requests.
LEMMA ShapeStep ==
  ASSUME Shape, [Next]_vars
  PROVE  Shape'
<1>0. \A s \in Slots : /\ DOMAIN req[s] = Keys /\ req[s].op \in Ops[family] \cup {"none"}
                       /\ req[s].pc # "idle" => req[s].op # "none"
  BY DEF Shape
<1>1. CASE UNCHANGED <<family, fileVars>>
  BY <1>1 DEF fileVars, Shape
<1>2. ASSUME NEW r \in Slots, RequestStep(r) \/ WriteFails(r), family' = family
      PROVE  Shape'
  <2>0. made \in Nat /\ DOMAIN file = FileNames /\ DOMAIN req = Slots
    BY DEF Shape
  <2>1. CASE Start(r)
    BY <2>0, <2>1, <1>2, StartIs, ShapeKept DEF Others
  <2>2. CASE CheckId(r) \/ CheckMember(r)
    <3>1. /\ Others(r) /\ UNCHANGED <<file, made>> /\ req[r].pc # "idle"
          /\ req'[r] = IdleReq \/ (Same(r, {"pc"}) /\ req'[r].pc \in {"member", "load"})
      BY <2>2, CheckIs
    <3>2. Same(r, {"pc"}) => DOMAIN req'[r] = Keys /\ req'[r].op = req[r].op
      BY DEF Same, Keys
    <3> QED
      BY <1>0, <1>2, <2>0, <3>1, <3>2, ShapeKept DEF Others
  <2>3. CASE Load(r)
    <3>1. /\ UNCHANGED <<file, made>> /\ req[r].pc = "load" /\ req[r].op # "fetch"
          /\ \/ Others(r) /\ req'[r] = IdleReq
             \/ /\ DOMAIN req' = Slots /\ Same(r, {"pc", "todo", "alone", "seen"})
                /\ req'[r].pc = "begin" /\ \A s \in Slots \ {r} : Same(s, {"alone"})
      BY <2>3, LoadIs
    <3>2. CASE Others(r) /\ req'[r] = IdleReq
      BY <1>2, <2>0, <3>1, <3>2, ShapeKept DEF Others
    <3>3. CASE /\ DOMAIN req' = Slots /\ Same(r, {"pc", "todo", "alone", "seen"})
               /\ req'[r].pc = "begin" /\ \A s \in Slots \ {r} : Same(s, {"alone"})
      <4>1. DOMAIN req'[r] = Keys /\ req'[r].op = req[r].op
        BY <3>3 DEF Same, Keys
      <4>2. \A s \in Slots \ {r} :
              DOMAIN req'[s] = Keys /\ req'[s].op = req[s].op /\ req'[s].pc = req[s].pc
        BY <3>3 DEF Same, Keys
      <4> QED
        BY <1>2, <2>0, <3>1, <3>3, <4>1, <4>2 DEF Shape
    <3> QED
      BY <3>1, <3>2, <3>3
  <2>4. CASE BeginWrite(r)
    <3>1. /\ made' = made /\ req[r].pc = "begin" /\ DOMAIN req' = Slots
          /\ file' = [file EXCEPT ![Target(r)] = Unreadable]
          /\ Same(r, {"pc", "mixed"}) /\ req'[r].pc = "fill"
          /\ \A s \in Slots \ {r} : Same(s, {"mixed"})
      BY <2>4, BeginIs
    <3>2. DOMAIN req'[r] = Keys /\ req'[r].op = req[r].op
      BY <3>1 DEF Same, Keys
    <3>3. \A s \in Slots \ {r} :
            DOMAIN req'[s] = Keys /\ req'[s].op = req[s].op /\ req'[s].pc = req[s].pc
      BY <3>1 DEF Same, Keys
    <3> QED
      BY <1>2, <2>0, <3>1, <3>2, <3>3 DEF Shape
  <2>5. ASSUME Advance(r), made' = made, DOMAIN file' = DOMAIN file, req[r].pc = "fill"
        PROVE  Shape'
    <3>1. /\ Others(r)
          /\ \/ Same(r, {"todo", "pc", "mixed"}) /\ req'[r].pc = "begin"
             \/ req'[r] = IdleReq
      BY <2>5, AdvanceIs
    <3>2. Same(r, {"todo", "pc", "mixed"}) => DOMAIN req'[r] = Keys /\ req'[r].op = req[r].op
      BY DEF Same, Keys
    <3>3. req[r].op # "fetch"
      BY <2>5 DEF Shape
    <3> QED
      BY <1>0, <1>2, <2>0, <2>5, <3>1, <3>2, <3>3, ShapeKept DEF Others
  <2>6. CASE EndWrite(r)
    <3>1. made' = made /\ Advance(r) /\ req[r].pc = "fill" /\ DOMAIN file' = DOMAIN file
      BY <2>6 DEF EndWrite
    <3> QED
      BY <2>5, <3>1
  <2>7. CASE WriteFails(r)
    <3>1. /\ UNCHANGED <<file, made>> /\ req[r].pc = "fill"
          /\ Advance(r) \/ (Others(r) /\ req'[r] = IdleReq)
      BY <2>7, FailIs
    <3>2. CASE Others(r) /\ req'[r] = IdleReq
      BY <1>2, <2>0, <3>1, <3>2, ShapeKept DEF Others
    <3> QED
      BY <2>5, <3>1, <3>2
  <2>8. CASE ListQueue(r)
    <3>1. /\ Others(r) /\ UNCHANGED <<file, made>> /\ req[r].op = "fetch" /\ Same(r, {"pc", "seen"})
          /\ req'[r].pc = "list"
      BY <2>8, ListIs
    <3>2. DOMAIN req'[r] = Keys /\ req'[r].op = req[r].op
      BY <3>1 DEF Same, Keys
    <3> QED
      BY <1>0, <1>2, <2>0, <3>1, <3>2, ShapeKept DEF Others
  <2>9. CASE Fetch(r)
    BY <1>2, <2>0, <2>9, FetchEnds, ShapeKept DEF Others
  <2> QED
    BY <1>2, <2>1, <2>2, <2>3, <2>4, <2>6, <2>7, <2>8, <2>9 DEF RequestStep
<1>3. CASE Kill
  <2>1. DOMAIN req' = Slots /\ \A s \in Slots : req'[s] = IdleReq
    BY <1>3 DEF Kill
  <2>2. family' = family /\ UNCHANGED <<file, made>>
    BY <1>3 DEF Kill
  <2> QED
    BY <2>1, <2>2, ShapeKept DEF Shape
<1> QED
  BY <1>1, <1>2, <1>3 DEF Next, vars, fileVars

\* No request is under way at first.
LEMMA InitShape == Init => Shape
<1> SUFFICES ASSUME Init PROVE Shape
  OBVIOUS
<1>1. family \in DOMAIN Ops /\ made = 0
  BY DEF Init
<1>2. DOMAIN req = Slots /\ \A r \in Slots : req[r] = IdleReq
  BY DEF Init
<1>3. DOMAIN file = FileNames
  BY DEF Init
<1> QED
  BY <1>1, <1>2, <1>3, IdleIs DEF Shape

-----------------------------------------------------------------------------
(* Blobs *)

\* Blobs and their metadata are in files of their own.
LEMMA BlobFiles ==
  /\ \A b \in Blobs : BlobFile(b) \in FileNames
  /\ \A b, c : BlobFile(b) = BlobFile(c) => b = c
  /\ \A b, c : BlobFile(b) # MetaFile(c)
  /\ \A b, c : MetaFile(b) = MetaFile(c) => b = c
BY DEF BlobFile, MetaFile, FileNames

\* In a run about blobs every request is a put.
LEMMA OnlyPuts ==
  ASSUME Shape, family = "blob", NEW r \in Slots
  PROVE  req[r].op \in {"put", "none"} /\ (req[r].pc # "idle" => req[r].op = "put")
BY FamilyOps DEF Shape

\* Nothing happens to the blobs when some requests that do not write change.
LEMMA BlobsQuiet ==
  ASSUME BlobsOK, UNCHANGED <<file, kept>>,
         \A s \in Slots : /\ req'[s].op = "put" => req'[s].arg \in Blobs
                          /\ req'[s] = req[s] \/ req'[s].pc \notin {"begin", "fill"}
  PROVE  BlobsOK'
<1>1. \A s \in Slots : Writing(s)' => req'[s] = req[s] /\ Writing(s)
  BY DEF Writing
<1>2. ASSUME NEW r \in Slots, Writing(r)'  PROVE PutOK(r)'
  <2>1. req'[r] = req[r] /\ PutOK(r)
    BY <1>1, <1>2 DEF BlobsOK
  <2>2. \A s \in Slots \ {r} : Writing(s)' => req'[s].arg = req[s].arg /\ Writing(s)
    BY <1>1
  <2> QED
    BY <2>1, <2>2 DEF PutOK
<1>3. ASSUME NEW k \in kept', k.item[1] = "blob"
      PROVE  /\ k.item[2] \in Blobs /\ k.val = k.item[2] /\ file'[BlobFile(k.val)] = k.val
             /\ \A r \in Slots : Writing(r)' /\ req'[r].arg = k.val => Len(req'[r].todo) = 1
  BY <1>1, <1>3 DEF BlobsOK
<1> QED
  BY <1>2, <1>3 DEF BlobsOK

\* What BlobWrites puts together.
LEMMA Pair ==
  ASSUME NEW x, NEW y
  PROVE  <<x>> \o <<y>> = <<x, y>>
<1>1. PICK S : x \in S /\ y \in S
  <2>1. x \in {x, y} /\ y \in {x, y}
    OBVIOUS
  <2> QED
    BY <2>1
<1>2. PICK s, t : s = <<x>> \o <<y>> /\ t = <<x, y>>
  OBVIOUS
<1>3. <<x>> \in Seq(S) /\ <<y>> \in Seq(S) /\ t \in Seq(S) /\ Len(t) = 2
  BY <1>1, <1>2
<1>4. s \in Seq(S) /\ Len(s) = 2
  BY <1>2, <1>3
<1>5. s[1] = x /\ s[2] = y
  BY <1>2, <1>3
<1>6. t[1] = x /\ t[2] = y
  BY <1>2
<1>7. s = t
  BY <1>3, <1>4, <1>5, <1>6
<1> QED
  BY <1>2, <1>7

\* What a put writes.
LEMMA PutWrites ==
  ASSUME NEW b, NEW no
  PROVE  Writes("put", b, no) = IF Exists(BlobFile(b)) THEN <<<<MetaFile(b), no>>>>
                                ELSE <<<<BlobFile(b), b>>, <<MetaFile(b), no>>>>
<1>1. Writes("put", b, no) = BlobWrites(b, no)
  BY DEF Writes, PutBlob, IndexOps
<1>2. PICK M, W : M = <<MetaFile(b), no>> /\ W = <<BlobFile(b), b>>
  OBVIOUS
<1>3. <<>> \o <<M>> = <<M>> /\ <<W>> \o <<M>> = <<W, M>>
  BY Pair
<1> QED
  BY <1>1, <1>2, <1>3 DEF BlobWrites

\* put has loaded: it is alone if no other put of the blob is writing.
LEMMA BlobsLoad ==
  ASSUME Shape, family = "blob", BlobsOK, NEW r \in Slots, Load(r)
  PROVE  BlobsOK'
<1> DEFINE b == req[r].arg
<1>0. \A s \in Slots : /\ DOMAIN req[s] = Keys /\ req[s].op \in {"put", "none"}
                       /\ req[s].pc # "idle" => req[s].op = "put"
  BY OnlyPuts DEF Shape
<1>1. req[r].op = "put" /\ b \in Blobs /\ req[r].pc = "load" /\ file' = file
  BY <1>0, LoadIs DEF BlobsOK
<1>2. CASE Others(r) /\ req'[r] = IdleReq /\ kept' = kept
  BY <1>1, <1>2, IdleIs, BlobsQuiet DEF Others, BlobsOK
<1>3. CASE /\ DOMAIN req' = Slots
           /\ Same(r, {"pc", "todo", "alone", "seen"}) /\ req'[r].pc = "begin"
           /\ req'[r].todo = Writes(req[r].op, req[r].arg, req[r].no)
           /\ req'[r].alone = (Rivals(r) = {})
           /\ req'[r].seen = {file[BlobFile(b)]}
           /\ \A s \in Slots \ {r} : /\ Same(s, {"alone"})
                                     /\ req'[s].alone => req[s].alone /\ s \notin Rivals(r)
           /\ kept' \subseteq kept
  <2>1. req'[r].op = "put" /\ req'[r].arg = b /\ req'[r].no = req[r].no
    BY <1>1, <1>3 DEF Same, Keys
  <2>2. \A s \in Slots \ {r} :
          /\ req'[s].op = req[s].op /\ req'[s].arg = req[s].arg /\ req'[s].no = req[s].no
          /\ req'[s].pc = req[s].pc /\ req'[s].todo = req[s].todo /\ req'[s].seen = req[s].seen
          /\ req'[s].mixed = req[s].mixed
    BY <1>3 DEF Same, Keys
  <2>3. \A s \in Slots \ {r} : Writing(s) /\ req[s].arg = b => s \in Rivals(r)
    BY <1>0, <1>1 DEF Rivals, Writing, Resource
  <2>4. PICK M, W : M = <<MetaFile(b), req[r].no>> /\ W = <<BlobFile(b), b>>
    OBVIOUS
  <2>5. req'[r].todo = IF Exists(BlobFile(b)) THEN <<M>> ELSE <<W, M>>
    BY <1>1, <1>3, <2>4, PutWrites
  <2>6. file[BlobFile(b)] \in {Absent, Unreadable, b} /\ b \notin {Absent, Unreadable}
    BY <1>1 DEF BlobsOK
  <2>7. Len(req'[r].todo) = 1 => file[BlobFile(b)] # Absent
    BY <2>5 DEF Exists
  <2>8. PutOK(r)'
    <3>1. req'[r].todo \in {<<M>>, <<W, M>>}
      BY <2>5
    <3>2. req'[r].alone => \A s \in Slots \ {r} : Writing(s)' => req'[s].arg # b
      BY <1>3, <2>2, <2>3 DEF Writing
    <3>3. Len(req'[r].todo) = 1 => Unreadable \in req'[r].seen \/ file'[BlobFile(b)] = b
      BY <1>1, <1>3, <2>6, <2>7
    <3> QED
      BY <1>3, <2>1, <2>4, <3>1, <3>2, <3>3 DEF PutOK
  <2>9. ASSUME NEW s \in Slots \ {r}, Writing(s)'  PROVE PutOK(s)'
    <3>1. Writing(s) /\ PutOK(s)
      BY <2>2, <2>9 DEF Writing, BlobsOK
    <3>2. req'[s].alone => req[s].alone /\ req[s].arg # b
      BY <1>3, <2>3, <3>1
    <3>3. req'[s].alone => \A q \in Slots \ {s} : Writing(q)' => req'[q].arg # req'[s].arg
      <4> SUFFICES ASSUME req'[s].alone, NEW q \in Slots \ {s}, Writing(q)'
                   PROVE  req'[q].arg # req'[s].arg
        OBVIOUS
      <4>1. CASE q = r
        BY <2>1, <2>2, <3>2, <4>1
      <4>2. CASE q # r
        BY <2>2, <3>1, <3>2, <4>2 DEF PutOK, Writing
      <4> QED
        BY <4>1, <4>2
    <3> QED
      BY <1>1, <2>2, <3>1, <3>2, <3>3 DEF PutOK
  <2>10. ASSUME NEW k \in kept', k.item[1] = "blob"
         PROVE  /\ k.item[2] \in Blobs /\ k.val = k.item[2] /\ file'[BlobFile(k.val)] = k.val
                /\ \A s \in Slots : Writing(s)' /\ req'[s].arg = k.val => Len(req'[s].todo) = 1
    <3>1. /\ k.item[2] \in Blobs /\ k.val = k.item[2] /\ file[BlobFile(k.val)] = k.val
          /\ \A s \in Slots : Writing(s) /\ req[s].arg = k.val => Len(req[s].todo) = 1
      BY <1>3, <2>10 DEF BlobsOK
    <3>2. b = k.val => Len(req'[r].todo) = 1
      <4> HAVE b = k.val
      <4>1. Exists(BlobFile(b))
        BY <2>6, <3>1 DEF Exists
      <4> QED
        BY <2>5, <4>1
    <3> QED
      BY <1>1, <2>1, <2>2, <3>1, <3>2 DEF Writing
  <2>11. \A s \in Slots : req'[s].op = "put" => req'[s].arg \in Blobs
    BY <1>1, <2>1, <2>2 DEF BlobsOK
  <2>12. \A s \in Slots : Writing(s)' => PutOK(s)'
    BY <2>8, <2>9
  <2>13. \A c \in Blobs : file'[BlobFile(c)] \in {Absent, Unreadable, c}
    BY <1>1 DEF BlobsOK
  <2> QED
    BY <2>10, <2>11, <2>12, <2>13 DEF BlobsOK
<1> QED
  BY <1>1, <1>2, <1>3, LoadIs

\* A file is truncated: only of a blob that nobody was told is there.
LEMMA BlobsBegin ==
  ASSUME Shape, family = "blob", BlobsOK, NEW r \in Slots, BeginWrite(r)
  PROVE  BlobsOK'
<1> DEFINE b == req[r].arg
<1>0. \A s \in Slots : req[s].pc # "idle" => req[s].op = "put" /\ req[s].arg \in Blobs
  BY OnlyPuts DEF BlobsOK
<1>1. /\ kept' = kept /\ req[r].pc = "begin" /\ file' = [file EXCEPT ![Target(r)] = Unreadable]
      /\ Same(r, {"pc", "mixed"}) /\ req'[r].pc = "fill" /\ (req'[r].mixed => Overlaps(r) # {})
      /\ \A s \in Slots \ {r} :
           Same(s, {"mixed"}) /\ (req'[s].mixed => req[s].mixed \/ s \in Overlaps(r))
  BY BeginIs
<1>2. /\ req'[r].op = req[r].op /\ req'[r].arg = b /\ req'[r].no = req[r].no /\ req'[r].todo = req[r].todo
      /\ req'[r].alone = req[r].alone /\ req'[r].seen = req[r].seen
  BY <1>1 DEF Same, Keys
<1>3. \A s \in Slots \ {r} :
        /\ req'[s].op = req[s].op /\ req'[s].arg = req[s].arg /\ req'[s].no = req[s].no
        /\ req'[s].pc = req[s].pc /\ req'[s].todo = req[s].todo /\ req'[s].seen = req[s].seen
        /\ req'[s].alone = req[s].alone
  BY <1>1 DEF Same, Keys
<1>4. b \in Blobs /\ Writing(r) /\ PutOK(r) /\ DOMAIN file = FileNames
  BY <1>0, <1>1 DEF BlobsOK, Writing, Shape
<1>5. \A s \in Slots : Writing(s)' => Writing(s)
  BY <1>1, <1>3, <1>4 DEF Writing
<1>6. ASSUME NEW s \in Slots, Writing(s)
      PROVE  /\ Target(s) \in {BlobFile(req[s].arg), MetaFile(req[s].arg)}
             /\ Target(s) = BlobFile(req[s].arg) <=> Len(req[s].todo) # 1
  <2>1. PutOK(s)
    BY <1>6 DEF BlobsOK
  <2>2. PICK M, W : /\ M = <<MetaFile(req[s].arg), req[s].no>> /\ W = <<BlobFile(req[s].arg), req[s].arg>>
                    /\ req[s].todo \in {<<M>>, <<W, M>>}
    BY <2>1 DEF PutOK
  <2>3. BlobFile(req[s].arg) # MetaFile(req[s].arg)
    BY BlobFiles
  <2>4. CASE req[s].todo = <<M>>
    BY <2>2, <2>3, <2>4 DEF Target
  <2>5. CASE req[s].todo = <<W, M>>
    BY <2>2, <2>3, <2>5 DEF Target
  <2> QED
    BY <2>2, <2>4, <2>5
<1>7. \A s \in Overlaps(r) : Writing(s) /\ req[s].arg = b /\ s \in Slots \ {r}
  BY <1>4, <1>6, BlobFiles DEF Overlaps, Writing
<1>8. \A c \in Blobs : file'[BlobFile(c)] = IF c = b /\ Len(req[r].todo) # 1 THEN Unreadable
                                            ELSE file[BlobFile(c)]
  <2> TAKE c \in Blobs
  <2>1. BlobFile(c) \in DOMAIN file
    BY <1>4, BlobFiles
  <2>2. Target(r) = BlobFile(c) <=> c = b /\ Len(req[r].todo) # 1
    BY <1>4, <1>6, BlobFiles
  <2> QED
    BY <1>1, <2>1, <2>2
<1>9. ASSUME NEW s \in Slots, Writing(s)'  PROVE PutOK(s)'
  <2>1. PutOK(s) /\ Writing(s)
    BY <1>5, <1>9 DEF BlobsOK
  <2>2. /\ req'[s].arg = req[s].arg /\ req'[s].no = req[s].no /\ req'[s].todo = req[s].todo
        /\ req'[s].alone = req[s].alone /\ req'[s].seen = req[s].seen
    BY <1>2, <1>3
  <2>3. req[s].alone => \A q \in Slots \ {s} : Writing(q)' => req'[q].arg # req[s].arg
    BY <1>2, <1>3, <1>5, <2>1 DEF PutOK
  <2>4. req[s].alone => \A q \in Slots \ {s} : Writing(q) => req[q].arg # req[s].arg
    BY <2>1 DEF PutOK
  <2>5. req[s].alone /\ req'[s].pc = "fill" => ~req'[s].mixed
    <3>1. CASE s = r
      BY <1>1, <1>7, <2>4, <3>1
    <3>2. CASE s # r
      <4>1. req[s].alone => s \notin Overlaps(r)
        BY <1>4, <1>7, <2>4, <3>2
      <4> QED
        BY <1>1, <1>3, <2>1, <3>2, <4>1 DEF PutOK
    <3> QED
      BY <3>1, <3>2
  <2>6. req[s].arg \in Blobs
    BY <1>0, <2>1 DEF Writing
  <2>7. req[s].alone /\ Len(req[s].todo) = 1 => file'[BlobFile(req[s].arg)] = file[BlobFile(req[s].arg)]
    <3>1. CASE s = r
      BY <1>8, <2>6, <3>1
    <3>2. CASE s # r
      BY <1>4, <1>8, <2>4, <2>6, <3>2
    <3> QED
      BY <3>1, <3>2
  <2> QED
    BY <2>1, <2>2, <2>3, <2>5, <2>7 DEF PutOK
<1>10. ASSUME NEW k \in kept', k.item[1] = "blob"
       PROVE  /\ k.item[2] \in Blobs /\ k.val = k.item[2] /\ file'[BlobFile(k.val)] = k.val
              /\ \A s \in Slots : Writing(s)' /\ req'[s].arg = k.val => Len(req'[s].todo) = 1
  <2>1. /\ k.item[2] \in Blobs /\ k.val = k.item[2] /\ file[BlobFile(k.val)] = k.val
        /\ \A s \in Slots : Writing(s) /\ req[s].arg = k.val => Len(req[s].todo) = 1
    BY <1>1, <1>10 DEF BlobsOK
  <2> QED
    BY <1>2, <1>3, <1>4, <1>5, <1>8, <2>1
<1>11. \A s \in Slots : req'[s].op = "put" => req'[s].arg \in Blobs
  BY <1>2, <1>3 DEF BlobsOK
<1>12. \A c \in Blobs : file'[BlobFile(c)] \in {Absent, Unreadable, c}
  BY <1>8 DEF BlobsOK
<1> QED
  BY <1>9, <1>10, <1>11, <1>12 DEF BlobsOK

\* What a put is answered with.
LEMMA SurePut ==
  ASSUME NEW q, NEW last, q.op = "put", NEW k \in Sure(q, last)
  PROVE  q.alone /\ Unreadable \notin q.seen /\ k = [item |-> <<"blob", q.arg>>, val |-> q.arg]
<1>1. q.alone
  BY DEF Sure
<1>2. Sure(q, last) = IF Unreadable \in q.seen THEN {} ELSE {[item |-> <<"blob", q.arg>>, val |-> q.arg]}
  BY <1>1 DEF Sure
<1> QED
  BY <1>1, <1>2

\* The end of a write: of the blob, when the put is alone it is whole; of the metadata, the
\* put is answered.
LEMMA BlobsEnd ==
  ASSUME Shape, family = "blob", BlobsOK, NEW r \in Slots, EndWrite(r)
  PROVE  BlobsOK'
<1> DEFINE b == req[r].arg
<1>0. \A s \in Slots : req[s].pc # "idle" => req[s].op = "put" /\ req[s].arg \in Blobs
  BY OnlyPuts DEF BlobsOK
<1>1. /\ req[r].pc = "fill" /\ Advance(r) /\ Others(r)
      /\ \E v : /\ v = Head(req[r].todo)[2] \/ (req[r].mixed /\ v = Unreadable)
                /\ file' = [file EXCEPT ![Head(req[r].todo)[1]] = v]
  BY EndIs, AdvanceIs
<1>2. b \in Blobs /\ req[r].op = "put" /\ Writing(r) /\ PutOK(r) /\ DOMAIN file = FileNames
  BY <1>0, <1>1 DEF BlobsOK, Writing, Shape
<1>3. \A s \in Slots \ {r} : req'[s] = req[s]
  BY <1>1 DEF Others
<1>4. PICK M, W : /\ M = <<MetaFile(b), req[r].no>> /\ W = <<BlobFile(b), b>>
                  /\ req[r].todo \in {<<M>>, <<W, M>>}
  BY <1>2 DEF PutOK
<1>5. M[1] = MetaFile(b) /\ W[1] = BlobFile(b) /\ W[2] = b
  BY <1>4
<1>6. \A s \in Slots \ {r} : Writing(s)' => Writing(s)
  BY <1>3 DEF Writing
<1>7. req[r].alone => ~req[r].mixed /\ \A s \in Slots \ {r} : Writing(s) => req[s].arg # b
  BY <1>1, <1>2 DEF PutOK
<1>8. ASSUME NEW s \in Slots \ {r}, Writing(s)',
             \A c \in Blobs : c # b => file'[BlobFile(c)] = file[BlobFile(c)],
             req'[r] = IdleReq \/ req'[r].arg = b
      PROVE  PutOK(s)'
  <2>1. PutOK(s) /\ Writing(s) /\ req[s].arg \in Blobs /\ req'[s] = req[s]
    BY <1>0, <1>3, <1>6, <1>8 DEF BlobsOK, Writing
  <2>2. req[s].alone => req[s].arg # b
    BY <1>2, <2>1 DEF PutOK
  <2>3. req[s].alone => \A q \in Slots \ {s} : Writing(q)' => req'[q].arg # req[s].arg
    <3> SUFFICES ASSUME req[s].alone, NEW q \in Slots \ {s}, Writing(q)'
                 PROVE  req'[q].arg # req[s].arg
      OBVIOUS
    <3>1. CASE q = r
      BY <1>8, <2>2, <3>1, IdleIs DEF Writing
    <3>2. CASE q # r
      BY <1>3, <1>6, <2>1, <3>2 DEF PutOK
    <3> QED
      BY <3>1, <3>2
  <2>4. req[s].alone => file'[BlobFile(req[s].arg)] = file[BlobFile(req[s].arg)]
    BY <1>8, <2>1, <2>2
  <2> QED
    BY <2>1, <2>3, <2>4 DEF PutOK
<1>9. CASE req[r].todo = <<W, M>>
  <2>1. Len(req[r].todo) = 2 /\ Head(req[r].todo) = W /\ Tail(req[r].todo) = <<M>>
    BY <1>9
  <2>2. /\ kept' = kept /\ Same(r, {"todo", "pc", "mixed"}) /\ req'[r].todo = <<M>>
        /\ req'[r].pc = "begin"
    <3>1. Len(req[r].todo) > 1
      BY <2>1
    <3> QED
      BY <1>1, <2>1, <3>1, AdvanceIs, Zenon
  <2>3. /\ req'[r].op = "put" /\ req'[r].arg = b /\ req'[r].no = req[r].no
        /\ req'[r].alone = req[r].alone /\ req'[r].seen = req[r].seen
    BY <1>2, <2>2 DEF Same, Keys
  <2>4. PICK v : /\ v = b \/ (req[r].mixed /\ v = Unreadable)
                 /\ file' = [file EXCEPT ![BlobFile(b)] = v]
    BY <1>1, <1>5, <2>1
  <2>5. \A c \in Blobs : file'[BlobFile(c)] = IF c = b THEN v ELSE file[BlobFile(c)]
    BY <1>2, <2>4, BlobFiles
  <2>6. PutOK(r)'
    <3>1. req'[r].todo \in {<<M>>, <<W, M>>} /\ M = <<MetaFile(b), req[r].no>> /\ W = <<BlobFile(b), b>>
      BY <1>4, <2>2
    <3>2. req[r].alone => file'[BlobFile(b)] = b
      BY <1>2, <1>7, <2>4, <2>5
    <3>3. req[r].alone => \A s \in Slots \ {r} : Writing(s)' => req'[s].arg # b
      BY <1>3, <1>6, <1>7
    <3> QED
      BY <2>2, <2>3, <3>1, <3>2, <3>3 DEF PutOK
  <2>7. \A s \in Slots : Writing(s)' => PutOK(s)'
    BY <1>8, <2>3, <2>5, <2>6
  <2>8. ASSUME NEW k \in kept', k.item[1] = "blob"
        PROVE  /\ k.item[2] \in Blobs /\ k.val = k.item[2] /\ file'[BlobFile(k.val)] = k.val
               /\ \A s \in Slots : Writing(s)' /\ req'[s].arg = k.val => Len(req'[s].todo) = 1
    <3>1. /\ k.item[2] \in Blobs /\ k.val = k.item[2] /\ file[BlobFile(k.val)] = k.val
          /\ \A s \in Slots : Writing(s) /\ req[s].arg = k.val => Len(req[s].todo) = 1
      BY <2>2, <2>8 DEF BlobsOK
    <3>2. k.val # b
      <4>1. Len(req[r].todo) # 1
        BY <2>1
      <4> QED
        BY <1>2, <3>1, <4>1
    <3> QED
      BY <1>3, <1>6, <2>3, <2>5, <3>1, <3>2
  <2>9. \A s \in Slots : req'[s].op = "put" => req'[s].arg \in Blobs
    BY <1>2, <1>3, <2>3 DEF BlobsOK
  <2>10. \A c \in Blobs : file'[BlobFile(c)] \in {Absent, Unreadable, c}
    BY <2>4, <2>5 DEF BlobsOK
  <2> QED
    BY <2>7, <2>8, <2>9, <2>10 DEF BlobsOK
<1>10. CASE req[r].todo = <<M>>
  <2>1. Len(req[r].todo) = 1 /\ Head(req[r].todo) = M
    BY <1>10
  <2>2. req'[r] = IdleReq /\ kept' = kept \cup Sure(req[r], M)
    <3>1. ~(Len(req[r].todo) > 1)
      BY <2>1
    <3> QED
      BY <1>1, <2>1, <3>1, AdvanceIs, Zenon
  <2>3. PICK v : file' = [file EXCEPT ![MetaFile(b)] = v]
    BY <1>1, <1>5, <2>1
  <2>4. \A c \in Blobs : file'[BlobFile(c)] = file[BlobFile(c)]
    BY <1>2, <2>3, BlobFiles
  <2>5. ~Writing(r)' /\ req'[r].op # "put"
    BY <2>2, IdleIs DEF Writing
  <2>6. \A s \in Slots : Writing(s)' => PutOK(s)'
    BY <1>8, <2>2, <2>4, <2>5
  <2>7. ASSUME NEW k \in kept', k.item[1] = "blob"
        PROVE  /\ k.item[2] \in Blobs /\ k.val = k.item[2] /\ file'[BlobFile(k.val)] = k.val
               /\ \A s \in Slots : Writing(s)' /\ req'[s].arg = k.val => Len(req'[s].todo) = 1
    <3>1. CASE k \in kept
      <4>1. /\ k.item[2] \in Blobs /\ k.val = k.item[2] /\ file[BlobFile(k.val)] = k.val
            /\ \A s \in Slots : Writing(s) /\ req[s].arg = k.val => Len(req[s].todo) = 1
        BY <2>7, <3>1 DEF BlobsOK
      <4> QED
        BY <1>3, <1>6, <2>4, <2>5, <4>1
    <3>2. CASE k \in Sure(req[r], M)
      <4>1. req[r].alone /\ Unreadable \notin req[r].seen /\ k = [item |-> <<"blob", b>>, val |-> b]
        BY <1>2, <3>2, SurePut
      <4>2. file[BlobFile(b)] = b
        BY <1>2, <2>1, <4>1 DEF PutOK
      <4>3. \A s \in Slots : Writing(s)' => req'[s].arg # b
        BY <1>3, <1>6, <1>7, <2>5, <4>1
      <4> QED
        BY <1>2, <2>4, <4>1, <4>2, <4>3
    <3> QED
      BY <2>2, <2>7, <3>1, <3>2
  <2>8. \A s \in Slots : req'[s].op = "put" => req'[s].arg \in Blobs
    BY <1>3, <2>5 DEF BlobsOK
  <2>9. \A c \in Blobs : file'[BlobFile(c)] \in {Absent, Unreadable, c}
    BY <2>4 DEF BlobsOK
  <2> QED
    BY <2>6, <2>7, <2>8, <2>9 DEF BlobsOK
<1> QED
  BY <1>4, <1>9, <1>10

\* Only a put answers about blobs.
LEMMA OthersSure ==
  ASSUME NEW q, NEW last, q.op # "put", NEW k \in Sure(q, last)
  PROVE  k.item[1] # "blob"
BY DEF Sure

\* In a run about something else no blob is ever answered for.
LEMMA NoBlobKept ==
  ASSUME Shape, [Next]_vars, family # "blob", \A k \in kept : k.item[1] # "blob"
  PROVE  \A k \in kept' : k.item[1] # "blob"
<1>1. CASE kept' \subseteq kept
  BY <1>1
<1>2. ASSUME NEW r \in Slots, Advance(r)
      PROVE  \A k \in kept' : k.item[1] # "blob"
  <2>1. req[r].op # "put"
    BY FamilyOps DEF Shape
  <2>2. kept' = kept \/ kept' = kept \cup Sure(req[r], Head(req[r].todo))
    BY <1>2, AdvanceIs
  <2> QED
    BY <2>1, <2>2, OthersSure
<1>3. ASSUME NEW r \in Slots, RequestStep(r) \/ WriteFails(r)
      PROVE  kept' \subseteq kept \/ Advance(r)
  <2>1. CASE Load(r)
    BY <2>1, LoadIs
  <2>2. CASE EndWrite(r)
    BY <2>2 DEF EndWrite
  <2>3. CASE WriteFails(r)
    BY <2>3 DEF WriteFails
  <2>4. CASE Start(r) \/ CheckId(r) \/ CheckMember(r) \/ BeginWrite(r) \/ ListQueue(r) \/ Fetch(r)
    BY <2>4 DEF Start, CheckId, CheckMember, BeginWrite, ListQueue, Fetch
  <2> QED
    BY <1>3, <2>1, <2>2, <2>3, <2>4 DEF RequestStep
<1> QED
  BY <1>1, <1>2, <1>3 DEF Next, Kill, vars, fileVars

\* Every step keeps the blobs.
LEMMA BlobsStep ==
  ASSUME Shape, [Next]_vars, family = "blob", BlobsOK
  PROVE  BlobsOK'
<1>0. /\ \A s \in Slots : req[s].op = "put" => req[s].arg \in Blobs
      /\ \A s \in Slots : /\ req[s].op \in {"put", "none"} /\ DOMAIN req[s] = Keys
                          /\ req[s].pc # "idle" => req[s].op = "put"
  BY OnlyPuts DEF BlobsOK, Shape
<1>1. CASE UNCHANGED <<file, req, kept>>
  BY <1>1, <1>0, BlobsQuiet
<1>2. ASSUME NEW r \in Slots, Others(r), UNCHANGED <<file, kept>>,
             req'[r].pc \notin {"begin", "fill"}, req'[r].op = "put" => req'[r].arg \in Blobs
      PROVE  BlobsOK'
  BY <1>0, <1>2, BlobsQuiet DEF Others
<1>3. ASSUME NEW r \in Slots, RequestStep(r) \/ WriteFails(r)
      PROVE  BlobsOK'
  <2>1. CASE Start(r)
    <3>1. PICK op \in Ops[family] : \E arg \in Args(op) :
            req'[r].op = op /\ req'[r].arg = arg /\ req'[r].pc \in {"id", "member", "load"}
      BY <2>1, StartIs
    <3>2. Args("put") = Blobs
      BY DEF Args, IndexOps
    <3>3. op = "put"
      BY FamilyOps DEF Shape
    <3> QED
      BY <1>2, <2>1, <3>1, <3>2, <3>3, StartIs
  <2>2. CASE CheckId(r) \/ CheckMember(r)
    <3>1. Same(r, {"pc"}) => req'[r].op = req[r].op /\ req'[r].arg = req[r].arg
      BY DEF Same, Keys
    <3> QED
      BY <1>0, <1>2, <2>2, <3>1, CheckIs, IdleIs
  <2>3. CASE WriteFails(r)
    BY <1>0, <1>2, <2>3, FailIs, IdleIs
  <2>4. CASE ListQueue(r) \/ Fetch(r)
    BY <1>0, <2>4, ListIs, FetchEnds
  <2> QED
    BY <1>3, <2>1, <2>2, <2>3, <2>4, BlobsLoad, BlobsBegin, BlobsEnd DEF RequestStep
<1>4. CASE Kill
  <2>1. UNCHANGED <<file, kept>> /\ \A s \in Slots : req'[s] = IdleReq
    BY <1>4 DEF Kill
  <2> QED
    BY <2>1, IdleIs, BlobsQuiet
<1> QED
  BY <1>1, <1>3, <1>4 DEF Next, vars, fileVars

\* A blob whose upload was answered stays complete, whatever uploads, failures and kills
\* follow (BlobStore::put).
THEOREM BlobSafe == Spec => []AckedBlobWhole
<1>1. Init => BlobInv
  <2> SUFFICES ASSUME Init PROVE BlobInv
    OBVIOUS
  <2>1. kept = {} /\ \A r \in Slots : req[r] = IdleReq
    BY DEF Init
  <2>2. family = "blob" => \A b \in Blobs : file[BlobFile(b)] = Absent
    BY BlobFiles DEF Init, BlobFile, NameFile, IdFile, MembersFile
  <2> QED
    BY <2>1, <2>2, InitShape, IdleIs DEF BlobInv, BlobsOK, Writing
<1>2. BlobInv /\ [Next]_vars => BlobInv'
  <2> SUFFICES ASSUME BlobInv, [Next]_vars PROVE BlobInv'
    OBVIOUS
  <2>1. Shape /\ Shape' /\ family' = family
    BY ShapeStep DEF BlobInv, Next, Kill, vars, fileVars
  <2> QED
    BY <2>1, NoBlobKept, BlobsStep DEF BlobInv
<1>3. BlobInv => AckedBlobWhole
  BY DEF BlobInv, BlobsOK, AckedBlobWhole
<1> QED
  BY <1>1, <1>2, <1>3, PTL DEF Spec

-----------------------------------------------------------------------------
(* The delivery queue *)

\* A set of numbers that is not empty has a smallest one.
LEMMA MinIn ==
  ASSUME NEW S, S # {}, \A x \in S : x \in Nat
  PROVE  Min(S) \in S /\ \A y \in S : Min(S) <= y
<1>1. \E x \in S : \A y \in S : ~(<<y, x>> \in OpToRel(<, Nat))
  BY NatLessThanWellFounded, WFMin, Zenon
<1>2. PICK x \in S : \A y \in S : ~(y < x)
  BY <1>1 DEF OpToRel
<1>3. x \in S /\ \A y \in S : x <= y
  BY <1>2
<1> QED
  BY <1>3 DEF Min

\* A set of numbers that is bounded and not empty has a largest one.
LEMMA MaxIn ==
  ASSUME NEW n \in Nat, NEW S \in SUBSET (0..n), S # {}
  PROVE  Max(S) \in S /\ \A k \in S : k <= Max(S)
<1> DEFINE T == {j \in 0..n : \E i \in S : j = n - i}
<1>0. \A i \in S : i \in Nat /\ n - i \in 0..n
  OBVIOUS
<1>1. \A i \in S : n - i \in T
  BY <1>0
<1>2. \A x \in T : x \in Nat
  OBVIOUS
<1>3. PICK x \in T : \A y \in T : x <= y
  <2> HIDE DEF T
  <2>1. T # {}
    BY <1>1
  <2> QED
    BY <1>2, <2>1, MinIn
<1>4. PICK i \in S : x = n - i
  OBVIOUS
<1>5. ASSUME NEW k \in S  PROVE i >= k
  <2>1. n - i <= n - k
    BY <1>1, <1>3, <1>4
  <2> QED
    BY <1>0, <2>1
<1> QED
  BY <1>5 DEF Max

\* fetch, sorted and cut off: what a page leaves out is past its end, and it is full then.
LEMMA PageFull ==
  ASSUME NEW m \in Nat, NEW S \in SUBSET (1..m), NEW n \in S, n \notin PageOf(S)
  PROVE  Cardinality(PageOf(S)) = PageLimit /\ \A k \in PageOf(S) : k < n
<1> DEFINE Below(k) == {j \in S : j < k}
           page == PageOf(S)
<1>0. PageLimit \in Nat
  BY HostAssumption
<1>1. IsFiniteSet(S) /\ IsFiniteSet(page) /\ page \in SUBSET S
  <2>1. IsFiniteSet(1..m)
    BY FS_Interval
  <2>2. IsFiniteSet(S)
    BY <2>1, FS_Subset
  <2>3. page \in SUBSET S
    BY DEF PageOf
  <2> QED
    BY <2>2, <2>3, FS_Subset
<1>2. \A k \in S : k \in page <=> Cardinality(Below(k)) < PageLimit
  BY DEF PageOf
<1>3. \A k \in S : IsFiniteSet(Below(k)) /\ Cardinality(Below(k)) \in Nat /\ Below(k) \in SUBSET S
  <2> TAKE k \in S
  <2>1. Below(k) \in SUBSET S
    OBVIOUS
  <2> HIDE DEF Below
  <2>2. IsFiniteSet(Below(k))
    BY <1>1, <2>1, FS_Subset
  <2> QED
    BY <2>1, <2>2, FS_CardinalityType
<1>4. Cardinality(page) \in Nat
  BY <1>1, FS_CardinalityType
<1>5. ASSUME NEW k \in page  PROVE k < n
  <2>1. SUFFICES ASSUME ~(k < n) PROVE FALSE
    OBVIOUS
  <2>2. k \in S /\ n \in 1..m /\ k \in 1..m
    BY <1>1
  <2>3. Below(n) \in SUBSET Below(k)
    <3> SUFFICES ASSUME NEW j \in S, j < n PROVE j < k
      OBVIOUS
    <3>1. j \in 1..m /\ n \in Nat /\ k \in Nat /\ n <= k
      BY <2>1, <2>2
    <3> QED
      BY <3>1
  <2>4. Cardinality(Below(n)) <= Cardinality(Below(k))
    <3> HIDE DEF Below
    <3> QED
      BY <1>3, <2>2, <2>3, FS_Subset
  <2>5. Cardinality(Below(k)) < PageLimit /\ ~(Cardinality(Below(n)) < PageLimit)
    BY <1>2, <1>5, <2>2
  <2>6. Cardinality(Below(k)) \in Nat /\ Cardinality(Below(n)) \in Nat
    BY <1>3, <2>2
  <2> HIDE DEF Below
  <2> QED
    BY <1>0, <2>4, <2>5, <2>6
<1>6. PageLimit <= Cardinality(page)
  <2> DEFINE Cut == S \ page
  <2>1. PICK c \in Cut : \A y \in Cut : c <= y
    <3>1. Cut # {} /\ \A x \in Cut : x \in Nat
      OBVIOUS
    <3> HIDE DEF Cut
    <3> QED
      BY <3>1, MinIn
  <2>2. c \in S /\ c \notin page
    OBVIOUS
  <2>3. Below(c) \in SUBSET page
    <3> SUFFICES ASSUME NEW j \in S, j < c, j \notin page PROVE FALSE
      OBVIOUS
    <3>1. c <= j
      BY <2>1
    <3> QED
      BY <3>1
  <2> HIDE DEF Below, page
  <2>4. Cardinality(Below(c)) <= Cardinality(page)
    BY <1>1, <2>3, FS_Subset
  <2>5. Cardinality(Below(c)) \in Nat /\ ~(Cardinality(Below(c)) < PageLimit)
    BY <1>2, <1>3, <2>2
  <2> QED
    BY <1>0, <1>4, <2>4, <2>5
<1>7. Cardinality(page) <= PageLimit
  <2>1. CASE page = {}
    <3>1. Cardinality(page) = 0
      BY <2>1, FS_EmptySet
    <3> QED
      BY <1>0, <3>1
  <2>2. CASE page # {}
    <3>0. page \in SUBSET (0..m)
      <4>1. \A k \in S : k \in 0..m
        OBVIOUS
      <4> HIDE DEF page
      <4> QED
        BY <1>1, <4>1
    <3>1. PICK x \in page : \A k \in page : k <= x
      <4> HIDE DEF page
      <4> QED
        BY <2>2, <3>0, MaxIn
    <3>2. page \in SUBSET (Below(x) \cup {x})
      <4> SUFFICES ASSUME NEW k \in page, k # x PROVE k \in S /\ k < x
        OBVIOUS
      <4>1. k \in S /\ k \in 0..m /\ x \in 0..m
        BY <1>1, <3>0
      <4> QED
        BY <3>1, <4>1
    <3>3. x \in S
      BY <1>1
    <3>4. Cardinality(Below(x)) \in Nat /\ IsFiniteSet(Below(x)) /\ Cardinality(Below(x)) < PageLimit
      BY <1>2, <1>3, <3>1, <3>3
    <3>5. x \notin Below(x)
      BY <3>3
    <3> HIDE DEF Below, page
    <3>6. IsFiniteSet(Below(x) \cup {x}) /\ Cardinality(Below(x) \cup {x}) = Cardinality(Below(x)) + 1
      BY <3>4, <3>5, FS_AddElement
    <3>7. Cardinality(page) <= Cardinality(Below(x) \cup {x})
      BY <3>2, <3>6, FS_Subset
    <3> QED
      BY <1>0, <1>4, <3>4, <3>6, <3>7
  <2> QED
    BY <2>1, <2>2
<1> HIDE DEF Below
<1> QED
  BY <1>0, <1>4, <1>5, <1>6, <1>7

\* What a fetch returns.
LEMMA FetchedComplete ==
  ASSUME QueueOK, FetchComplete, NEW r \in Slots, Fetch(r)
  PROVE  FetchComplete'
<1>1. /\ req[r].must \subseteq req[r].seen /\ req[r].seen \subseteq Numbers
  BY DEF QueueOK, ReqOK, Fetch
<1>2. PICK more \in SUBSET (Listed \ req[r].seen) :
        LET after == {n \in req[r].seen \cup more : n > req[r].arg} IN
        fetched' = IF \E n \in after : file[QueueFile(n)] = Unreadable THEN fetched
                   ELSE [after |-> req[r].arg, must |-> req[r].must, page |-> PageOf(after)]
  BY DEF Fetch
<1>3. PICK after : after = {n \in req[r].seen \cup more : n > req[r].arg}
  OBVIOUS
<1>4. \/ fetched' = fetched
      \/ fetched' = [after |-> req[r].arg, must |-> req[r].must, page |-> PageOf(after)]
  BY <1>2, <1>3
<1>5. CASE fetched' = fetched
  BY <1>5 DEF FetchComplete
<1>6. CASE fetched' = [after |-> req[r].arg, must |-> req[r].must, page |-> PageOf(after)]
  <2>1. after \in SUBSET (1..MaxRequests) /\ MaxRequests \in Nat
    BY <1>1, <1>3, HostAssumption DEF Numbers, Listed
  <2>2. \A n \in req[r].must : n > req[r].arg => n \in after
    BY <1>1, <1>3
  <2>3. \A n \in after : n \notin PageOf(after) =>
          Cardinality(PageOf(after)) = PageLimit /\ \A k \in PageOf(after) : k < n
    BY <2>1, PageFull
  <2>4. PICK page : page = PageOf(after)
    OBVIOUS
  <2>5. fetched'.after = req[r].arg /\ fetched'.must = req[r].must /\ fetched'.page = page
    BY <1>6, <2>4
  <2>6. \A n \in after : n \notin page => Cardinality(page) = PageLimit /\ \A k \in page : k < n
    BY <2>3, <2>4, Zenon
  <2> QED
    BY <2>2, <2>5, <2>6 DEF FetchComplete
<1> QED
  BY <1>4, <1>5, <1>6

\* Messages are in files of their own.
LEMMA QueueFiles ==
  /\ \A n \in Numbers : QueueFile(n) \in FileNames
  /\ \A n, m : QueueFile(n) = QueueFile(m) => n = m
BY DEF QueueFile, FileNames

\* Requests that are still to write can be counted.
LEMMA PendingIs ==
  IsFiniteSet(Pending) /\ Cardinality(Pending) \in Nat /\ Pending \in SUBSET Slots
<1>1. Pending \in SUBSET Slots
  BY DEF Pending
<1> QED
  BY <1>1, HostAssumption, FS_Subset, FS_CardinalityType

\* enqueue numbers a message within the bound on requests: every number in the directory
\* came from a request, and this one is not among them.
LEMMA NextIs ==
  ASSUME Shape, QueueOK, Pending # {}
  PROVE  NextNumber \in Numbers /\ NextNumber + Cardinality(Pending) <= made + 1
<1> DEFINE S == {0} \cup Listed
<1>0. made \in Nat /\ MaxRequests \in Nat /\ made <= MaxRequests /\ Cardinality(Pending) <= made
  BY HostAssumption DEF Shape, QueueOK
<1>1. Cardinality(Pending) \in Nat /\ Cardinality(Pending) # 0
  BY PendingIs, FS_EmptySet
<1>2. S \in SUBSET (0..MaxRequests) /\ S # {}
  BY <1>0 DEF Listed, Numbers
<1>3. PICK m : m = Max(S)
  OBVIOUS
<1>4. m \in S
  <2> HIDE DEF S
  <2> QED
    BY <1>0, <1>2, <1>3, MaxIn
<1>5. NextNumber = 1 + m
  BY <1>3 DEF NextNumber, Listed
<1>6. m + Cardinality(Pending) <= made /\ m \in Nat
  <2>1. CASE m = 0
    BY <1>0, <1>1, <2>1
  <2>2. CASE m \in Listed
    BY <2>2 DEF QueueOK, Taken, Numbers
  <2> QED
    BY <1>4, <2>1, <2>2
<1> QED
  BY <1>0, <1>1, <1>5, <1>6 DEF Numbers

\* Room in the queue stays when no request joins those that are still to write.
LEMMA TakenStays ==
  ASSUME Shape, QueueOK, made' = made, Pending' \in SUBSET Pending
  PROVE  /\ \A n \in Numbers : Taken(n) => Taken(n)'
         /\ Cardinality(Pending)' <= made' /\ made' <= MaxRequests
<1>0. made \in Nat /\ made <= MaxRequests /\ Cardinality(Pending) <= made /\ MaxRequests \in Nat
  BY HostAssumption DEF Shape, QueueOK
<1>1. PICK P : P = Pending'
  OBVIOUS
<1>2. IsFiniteSet(P) /\ Cardinality(P) <= Cardinality(Pending) /\ Cardinality(P) \in Nat
  BY <1>1, PendingIs, FS_Subset, FS_CardinalityType
<1>3. Cardinality(Pending) \in Nat
  BY PendingIs
<1>4. \A n \in Numbers : n + Cardinality(Pending) <= made => n + Cardinality(P) <= made
  BY <1>0, <1>2, <1>3 DEF Numbers
<1>5. Cardinality(P) <= made
  BY <1>0, <1>2, <1>3
<1> QED
  BY <1>0, <1>1, <1>4, <1>5 DEF Taken

\* A request that a step leaves alone.
LEMMA ReqKept ==
  ASSUME NEW s \in Slots, ReqOK(s), Listed \subseteq Listed',
         \A n \in Numbers : Taken(n) => Taken(n)',
         req'[s].no = req[s].no, req'[s].must = req[s].must, req'[s].op = req[s].op,
         req'[s].arg = req[s].arg, req'[s].pc = req[s].pc, req'[s].todo = req[s].todo,
         req'[s].seen = req[s].seen
  PROVE  ReqOK(s)'
BY DEF ReqOK, Writing

\* A slot without a request.
LEMMA IdleOK ==
  ASSUME NEW s \in Slots, req'[s] = IdleReq
  PROVE  ReqOK(s)'
BY IdleIs DEF ReqOK, Writing

\* Steps that leave the files alone: requests end, or go on without writing.
LEMMA QueueQuiet ==
  ASSUME Shape, QueueOK, UNCHANGED <<file, made>>, kept' \subseteq kept,
         \A s \in Slots :
            \/ req'[s] = req[s] \/ req'[s] = IdleReq
            \/ /\ req[s].pc \in {"id", "member", "load"} /\ req'[s].pc \notin {"begin", "fill"}
               /\ req'[s].no = req[s].no /\ req'[s].must = req[s].must
               /\ req'[s].op = req[s].op /\ req'[s].arg = req[s].arg
               /\ req'[s].pc = "list" => req'[s].seen = Listed
  PROVE  QueueOK'
<1>1. Pending' \in SUBSET Pending
  BY IdleIs DEF Pending
<1>2. Listed' = Listed
  BY DEF Listed, Exists
<1>3. /\ \A n \in Numbers : Taken(n) => Taken(n)'
      /\ Cardinality(Pending)' <= made' /\ made' <= MaxRequests
  BY <1>1, TakenStays
<1>4. ASSUME NEW s \in Slots  PROVE ReqOK(s)'
  <2>1. ReqOK(s)
    BY DEF QueueOK
  <2>2. CASE req'[s] = req[s]
    BY <1>2, <1>3, <2>1, <2>2, ReqKept
  <2>3. CASE req'[s] = IdleReq
    BY <2>3, IdleOK
  <2>4. CASE /\ req'[s].pc \notin {"begin", "fill"}
             /\ req'[s].no = req[s].no /\ req'[s].must = req[s].must
             /\ req'[s].op = req[s].op /\ req'[s].arg = req[s].arg
             /\ req'[s].pc = "list" => req'[s].seen = Listed
    BY <1>2, <2>1, <2>4 DEF ReqOK, Writing, Listed
  <2> QED
    BY <2>2, <2>3, <2>4
<1>5. \A n \in Listed : n \in Numbers
  BY DEF Listed
<1> QED
  BY <1>2, <1>3, <1>4, <1>5 DEF QueueOK

\* One more request is still to write, and one more was made.
LEMMA QueueStart ==
  ASSUME Shape, QueueOK, family = "queue", NEW r \in Slots, Start(r)
  PROVE  QueueOK'
<1>1. /\ Others(r) /\ UNCHANGED <<file, kept>> /\ made' = made + 1 /\ made < MaxRequests
      /\ req[r].pc = "idle"
  BY StartIs
<1>2. PICK op \in Ops[family] : \E arg \in Args(op) :
              /\ req'[r].op = op /\ req'[r].arg = arg
              /\ req'[r].no = made + 1 /\ req'[r].pc \in {"id", "member", "load"}
              /\ req'[r].must = {k.item[2] : k \in {x \in kept : x.item[1] = "mls"}}
  BY StartIs
<1>3. made \in Nat /\ made <= MaxRequests /\ Cardinality(Pending) <= made /\ MaxRequests \in Nat
  BY HostAssumption DEF Shape, QueueOK
<1>4. PICK P : P = Pending'
  OBVIOUS
<1>5. P = Pending \cup {r} /\ r \notin Pending
  BY <1>1, <1>2, <1>4 DEF Pending, Others
<1>6. Cardinality(P) = Cardinality(Pending) + 1 /\ Cardinality(Pending) \in Nat
  BY <1>5, PendingIs, FS_AddElement
<1>7. Cardinality(P) <= made + 1 /\ made + 1 <= MaxRequests
  BY <1>1, <1>3, <1>6
<1>8. \A n \in Numbers : n + Cardinality(Pending) <= made => n + Cardinality(P) <= made + 1
  BY <1>3, <1>6 DEF Numbers
<1>9. \A n \in Numbers : Taken(n) => Taken(n)'
  BY <1>1, <1>4, <1>8 DEF Taken
<1>10. Listed' = Listed
  BY <1>1 DEF Listed, Exists
<1>11. ReqOK(r)'
  <2>1. req'[r].must \subseteq Listed
    BY <1>2 DEF QueueOK
  <2>2. Args("fetch") = 0..1
    BY DEF Args, IndexOps
  <2>3. req'[r].op = "fetch" => req'[r].arg \in Nat
    BY <1>2, <2>2
  <2> QED
    BY <1>2, <1>3, <1>10, <2>1, <2>3 DEF ReqOK, Writing
<1>12. \A s \in Slots : ReqOK(s)'
  BY <1>1, <1>9, <1>10, <1>11, ReqKept DEF Others, QueueOK
<1>13. \A n \in Listed : n \in Numbers
  BY DEF Listed
<1> QED
  BY <1>1, <1>4, <1>7, <1>9, <1>10, <1>12, <1>13 DEF QueueOK

\* An enqueue takes its number and is no longer still to write.
LEMMA QueueLoad ==
  ASSUME Shape, QueueOK, family = "queue", NEW r \in Slots, Load(r)
  PROVE  QueueOK'
<1>1. UNCHANGED <<file, made>> /\ req[r].pc = "load" /\ req[r].op = "enqueue"
  BY LoadIs, FamilyOps DEF Shape
<1>2. CASE Others(r) /\ req'[r] = IdleReq /\ kept' = kept
  BY <1>1, <1>2, QueueQuiet DEF Others
<1>3. CASE /\ Same(r, {"pc", "todo", "alone", "seen"}) /\ req'[r].pc = "begin"
           /\ req'[r].todo = Writes(req[r].op, req[r].arg, req[r].no)
           /\ \A s \in Slots \ {r} : Same(s, {"alone"})
           /\ kept' \subseteq kept
  <2>1. /\ req'[r].op = req[r].op /\ req'[r].arg = req[r].arg /\ req'[r].no = req[r].no
        /\ req'[r].must = req[r].must
    BY <1>3 DEF Same, Keys
  <2>2. \A s \in Slots \ {r} :
          /\ req'[s].op = req[s].op /\ req'[s].arg = req[s].arg /\ req'[s].no = req[s].no
          /\ req'[s].pc = req[s].pc /\ req'[s].todo = req[s].todo /\ req'[s].seen = req[s].seen
          /\ req'[s].must = req[s].must
    BY <1>3 DEF Same, Keys
  <2>3. PICK P : P = Pending'
    OBVIOUS
  <2>4. P = Pending \ {r} /\ r \in Pending
    BY <1>1, <1>3, <2>2, <2>3 DEF Pending
  <2>5. Cardinality(P) = Cardinality(Pending) - 1 /\ Cardinality(Pending) \in Nat
    BY <2>4, PendingIs, FS_RemoveElement
  <2>6. PICK n : n = NextNumber
    OBVIOUS
  <2>7. n \in Numbers /\ n + Cardinality(Pending) <= made + 1
    BY <2>4, <2>6, NextIs
  <2>8. n + Cardinality(P) <= made
    BY <2>5, <2>7 DEF Numbers, Shape
  <2>9. Taken(n)'
    BY <1>1, <2>3, <2>7, <2>8 DEF Taken
  <2>10. Writes("enqueue", req[r].arg, req[r].no) = <<<<QueueFile(n), req[r].no>>>>
    BY <2>6 DEF Writes, MlsEnqueue, IndexOps
  <2>11. req'[r].todo = <<<<QueueFile(n), req[r].no>>>>
    BY <1>1, <1>3, <2>10
  <2>12. Listed' = Listed
    BY <1>1 DEF Listed, Exists
  <2>13. /\ \A m \in Numbers : Taken(m) => Taken(m)'
         /\ Cardinality(Pending)' <= made' /\ made' <= MaxRequests
    BY <1>1, <2>3, <2>4, TakenStays
  <2>14. ReqOK(r)'
    <3>1. ReqOK(r)
      BY DEF QueueOK
    <3> QED
      BY <1>1, <1>3, <2>1, <2>7, <2>9, <2>11, <2>12, <3>1 DEF ReqOK
  <2>15. \A s \in Slots : ReqOK(s)'
    BY <2>2, <2>12, <2>13, <2>14, ReqKept DEF QueueOK
  <2>16. \A m \in Listed : m \in Numbers
    BY DEF Listed
  <2> QED
    BY <1>3, <2>12, <2>13, <2>15, <2>16 DEF QueueOK
<1> QED
  BY <1>2, <1>3, LoadIs

\* A write to the queue puts a file there, under a number there is room for.
LEMMA QueueListed ==
  ASSUME Shape, NEW n \in Numbers, NEW v, v # Absent, file' = [file EXCEPT ![QueueFile(n)] = v]
  PROVE  Listed' = Listed \cup {n}
<1>1. DOMAIN file = FileNames
  BY DEF Shape
<1>2. ASSUME NEW m \in Numbers
      PROVE  file'[QueueFile(m)] = IF m = n THEN v ELSE file[QueueFile(m)]
  BY <1>1, QueueFiles
<1> QED
  BY <1>2 DEF Listed, Exists

\* The file of a message is created.
LEMMA QueueBegin ==
  ASSUME Shape, QueueOK, NEW r \in Slots, BeginWrite(r)
  PROVE  QueueOK'
<1>1. /\ UNCHANGED <<made, kept>> /\ req[r].pc = "begin"
      /\ file' = [file EXCEPT ![Target(r)] = Unreadable]
      /\ Same(r, {"pc", "mixed"}) /\ req'[r].pc = "fill"
      /\ \A s \in Slots \ {r} : Same(s, {"mixed"})
  BY BeginIs
<1>2. \A s \in Slots :
        /\ req'[s].op = req[s].op /\ req'[s].arg = req[s].arg /\ req'[s].no = req[s].no
        /\ req'[s].todo = req[s].todo /\ req'[s].seen = req[s].seen /\ req'[s].must = req[s].must
  BY <1>1 DEF Same, Keys
<1>3. \A s \in Slots \ {r} : req'[s].pc = req[s].pc
  BY <1>1 DEF Same, Keys
<1>4. ReqOK(r) /\ Writing(r)
  BY <1>1 DEF QueueOK, Writing
<1>5. PICK n \in Numbers : Taken(n) /\ req[r].todo = <<<<QueueFile(n), req[r].no>>>>
  BY <1>4 DEF ReqOK
<1>6. Target(r) = QueueFile(n)
  BY <1>5 DEF Target
<1>7. Listed' = Listed \cup {n}
  BY <1>1, <1>6, HostAssumption, QueueListed
<1>8. Pending' \in SUBSET Pending
  BY <1>1, <1>3 DEF Pending
<1>9. /\ \A m \in Numbers : Taken(m) => Taken(m)'
      /\ Cardinality(Pending)' <= made' /\ made' <= MaxRequests
  BY <1>1, <1>8, TakenStays
<1>10. ReqOK(r)'
  BY <1>1, <1>2, <1>4, <1>5, <1>7, <1>9 DEF ReqOK
<1>11. \A s \in Slots : ReqOK(s)'
  BY <1>2, <1>3, <1>7, <1>9, <1>10, ReqKept DEF QueueOK
<1>12. \A m \in Listed : m \in Numbers
  BY DEF Listed
<1> QED
  BY <1>1, <1>5, <1>7, <1>9, <1>11, <1>12 DEF QueueOK

\* What an enqueue is answered with.
LEMMA SureEnqueue ==
  ASSUME NEW q, NEW last, q.op = "enqueue", NEW k \in Sure(q, last)
  PROVE  k.item[2] = last[1][2]
<1>1. q.alone
  BY DEF Sure
<1>2. Sure(q, last) = {[item |-> <<"mls", last[1][2]>>, val |-> q.no]}
  BY <1>1 DEF Sure
<1> QED
  BY <1>2

\* The message is there and its sender is answered.
LEMMA QueueEnd ==
  ASSUME Shape, QueueOK, family = "queue", NEW r \in Slots, EndWrite(r)
  PROVE  QueueOK'
<1>1. /\ made' = made /\ req[r].pc = "fill" /\ Advance(r)
      /\ \E v : /\ v = Head(req[r].todo)[2] \/ v = Unreadable
                /\ file' = [file EXCEPT ![Head(req[r].todo)[1]] = v]
  BY EndIs
<1>2. ReqOK(r) /\ Writing(r) /\ req[r].op = "enqueue"
  BY <1>1, FamilyOps DEF QueueOK, Writing, Shape
<1>3. PICK n \in Numbers : Taken(n) /\ req[r].todo = <<<<QueueFile(n), req[r].no>>>>
  BY <1>2 DEF ReqOK
<1>4. PICK W : W = <<QueueFile(n), req[r].no>>
  OBVIOUS
<1>5. W[1] = QueueFile(n) /\ W[2] = req[r].no /\ W[1][2] = n
  BY <1>4 DEF QueueFile
<1>6. Head(req[r].todo) = W /\ ~(Len(req[r].todo) > 1)
  BY <1>3, <1>4
<1>7. Others(r) /\ req'[r] = IdleReq /\ kept' = kept \cup Sure(req[r], W)
  BY <1>1, <1>6, AdvanceIs, Zenon
<1>8. PICK v : v \in {req[r].no, Unreadable} /\ file' = [file EXCEPT ![QueueFile(n)] = v]
  BY <1>1, <1>5, <1>6
<1>9. v # Absent
  BY <1>2, <1>8, HostAssumption DEF ReqOK
<1>10. Listed' = Listed \cup {n}
  BY <1>8, <1>9, QueueListed
<1>11. Pending' \in SUBSET Pending
  BY <1>7, IdleIs DEF Pending, Others
<1>12. /\ \A m \in Numbers : Taken(m) => Taken(m)'
       /\ Cardinality(Pending)' <= made' /\ made' <= MaxRequests
  BY <1>1, <1>11, TakenStays
<1>13. ReqOK(r)'
  BY <1>7, IdleOK
<1>14. \A s \in Slots : ReqOK(s)'
  BY <1>7, <1>10, <1>12, <1>13, ReqKept DEF QueueOK, Others
<1>15. \A m \in Listed : m \in Numbers
  BY DEF Listed
<1>16. \A k \in Sure(req[r], W) : k.item[2] = n
  BY <1>2, <1>5, SureEnqueue
<1>17. \A k \in kept' : k.item[1] = "mls" => k.item[2] \in Listed'
  BY <1>7, <1>10, <1>16 DEF QueueOK
<1> QED
  BY <1>3, <1>10, <1>12, <1>14, <1>15, <1>17 DEF QueueOK

\* Every step keeps the queue.
LEMMA QueueStep ==
  ASSUME Shape, [Next]_vars, family = "queue", QueueOK
  PROVE  QueueOK'
<1>1. CASE UNCHANGED <<file, req, made, kept>>
  BY <1>1, QueueQuiet
<1>2. ASSUME NEW r \in Slots, RequestStep(r) \/ WriteFails(r)
      PROVE  QueueOK'
  <2>1. CASE CheckId(r) \/ CheckMember(r)
    <3>1. Same(r, {"pc"}) => /\ req'[r].op = req[r].op /\ req'[r].arg = req[r].arg
                             /\ req'[r].no = req[r].no /\ req'[r].must = req[r].must
      BY DEF Same, Keys
    <3>2. /\ Others(r) /\ UNCHANGED <<file, made, kept>> /\ req[r].pc \in {"id", "member"}
          /\ \/ req'[r] = IdleReq
             \/ Same(r, {"pc"}) /\ req'[r].pc \in {"member", "load"}
      BY <2>1, CheckIs
    <3> QED
      BY <3>1, <3>2, QueueQuiet DEF Others
  <2>2. CASE WriteFails(r)
    <3>1. req[r].op # "create"
      BY FamilyOps DEF Shape
    <3>2. UNCHANGED <<file, made, kept>> /\ Others(r) /\ req'[r] = IdleReq
      BY <2>2, <3>1, FailIs
    <3> QED
      BY <3>2, QueueQuiet DEF Others
  <2>3. CASE ListQueue(r)
    <3>1. /\ Others(r) /\ UNCHANGED <<file, made, kept>> /\ req[r].pc = "load"
          /\ Same(r, {"pc", "seen"}) /\ req'[r].pc = "list" /\ req'[r].seen = Listed
      BY <2>3, ListIs
    <3>2. /\ req'[r].op = req[r].op /\ req'[r].arg = req[r].arg
          /\ req'[r].no = req[r].no /\ req'[r].must = req[r].must
      BY <3>1 DEF Same, Keys
    <3> QED
      BY <3>1, <3>2, QueueQuiet DEF Others
  <2>4. CASE Fetch(r)
    <3>1. Others(r) /\ req'[r] = IdleReq /\ UNCHANGED <<file, made, kept>>
      BY <2>4, FetchEnds
    <3> QED
      BY <3>1, QueueQuiet DEF Others
  <2> QED
    BY <1>2, <2>1, <2>2, <2>3, <2>4, QueueStart, QueueLoad, QueueBegin, QueueEnd DEF RequestStep
<1>3. CASE Kill
  <2>1. UNCHANGED <<file, made, kept>> /\ \A s \in Slots : req'[s] = IdleReq
    BY <1>3 DEF Kill
  <2> QED
    BY <2>1, QueueQuiet
<1> QED
  BY <1>1, <1>2, <1>3 DEF Next, vars, fileVars

\* Only a fetch changes what was fetched.
LEMMA FetchedStep ==
  ASSUME Shape, [Next]_vars
  PROVE  fetched' = fetched \/ (family = "queue" /\ \E r \in Slots : Fetch(r))
<1>1. ASSUME NEW r \in Slots, RequestStep(r) \/ WriteFails(r)
      PROVE  fetched' = fetched \/ Fetch(r)
  BY <1>1 DEF RequestStep, Start, CheckId, CheckMember, Load, BeginWrite, EndWrite, ListQueue,
              WriteFails
<1>2. ASSUME NEW r \in Slots, Fetch(r)  PROVE family = "queue"
  BY <1>2, FetchEnds, FamilyOps DEF Shape
<1> QED
  BY <1>1, <1>2 DEF Next, Kill, vars, fileVars

\* The queue is empty at first.
LEMMA InitQueue ==
  ASSUME Init, family = "queue"
  PROVE  QueueOK
<1>1. kept = {} /\ made = 0 /\ \A r \in Slots : req[r] = IdleReq
  BY DEF Init
<1>2. Listed = {}
  BY QueueFiles DEF Init, Listed, Exists, QueueFile, NameFile, IdFile, MembersFile
<1>3. Pending = {}
  BY <1>1, IdleIs DEF Pending
<1>4. Cardinality(Pending) = 0
  BY <1>3, FS_EmptySet
<1>5. \A r \in Slots : ReqOK(r)
  BY <1>1, IdleIs DEF ReqOK, Writing
<1> QED
  BY <1>1, <1>2, <1>4, <1>5, HostAssumption DEF QueueOK

\* A page of the queue skips no message whose sender was answered before the fetch began,
\* whatever is enqueued, listed, cut off or killed meanwhile (enqueue and fetch of local.rs).
THEOREM FetchSafe == Spec => []FetchComplete
<1>1. Init => QueueInv
  <2> SUFFICES ASSUME Init PROVE QueueInv
    OBVIOUS
  <2>1. FetchComplete /\ fetched = NoFetch
    BY DEF Init, FetchComplete, NoFetch
  <2> QED
    BY <2>1, InitShape, InitQueue DEF QueueInv
<1>2. QueueInv /\ [Next]_vars => QueueInv'
  <2> SUFFICES ASSUME QueueInv, [Next]_vars PROVE QueueInv'
    OBVIOUS
  <2>1. Shape /\ Shape' /\ family' = family
    BY ShapeStep DEF QueueInv, Next, Kill, vars, fileVars
  <2>2. FetchComplete'
    <3>1. CASE fetched' = fetched
      BY <3>1 DEF QueueInv, FetchComplete
    <3>2. CASE family = "queue" /\ \E r \in Slots : Fetch(r)
      BY <3>2, FetchedComplete DEF QueueInv
    <3> QED
      BY <2>1, <3>1, <3>2, FetchedStep
  <2>3. family # "queue" => fetched' = fetched
    BY <2>1, FetchedStep
  <2> QED
    BY <2>1, <2>2, <2>3, QueueStep DEF QueueInv
<1>3. QueueInv => FetchComplete
  BY DEF QueueInv
<1> QED
  BY <1>1, <1>2, <1>3, PTL DEF Spec
=============================================================================
