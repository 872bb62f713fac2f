-------------------------- MODULE EpochKeysProofs --------------------------
(***************************************************************************)
(* Proofs about EpochKeys for every number of members, epochs, keys, heads *)
(* and messages.                                                           *)
(***************************************************************************)
EXTENDS EpochKeys, WellFoundedInduction, TLAPS

\* The material that accept_welcome_mls makes of a grant.
MaterialOf(g) ==
    [epoch |-> g.epoch, transport |-> g.key, token |-> g.token, from |-> g.from, prior |-> g.prior]

\* Every key of the material was drawn before the key k.
Below(mat, k) ==
    mat.transport < k /\ mat.token < k /\ \A e \in Epochs : mat.prior[e] < k

\* No seed is kept for an epoch after the material's own.
NoFuture(mat) == \A e \in Epochs : e > mat.epoch => mat.prior[e] = NoKey

\* The admin's material is whole, and a token is drawn with or after the key of its commit.
AdminOK ==
    LET mat == epochFile[Admin] IN
    /\ mat \in Material /\ mat.from = 0 /\ NoFuture(mat) /\ mat.prior[mat.epoch] = NoKey
    /\ Below(mat, fresh) /\ mat.transport <= mat.token

\* The steps of a command, the admin's epoch.json and its keystore keep in touch; the key
\* of the commit under way is newer than any that was granted or has sealed a head.
OpOK ==
    LET mat == epochFile[Admin] IN
    /\ op.removed # NoOne => op.to = NoOne /\ op.removed \notin acl
    /\ mat.epoch \in {keystore.epoch, keystore.epoch + 1}
    /\ op.pc = "persist" => op.epoch = keystore.epoch + 1
    /\ op.pc = "enqueue" => op.epoch = keystore.epoch /\ op.to # NoOne
    /\ op.pc \in {"persist", "enqueue"} =>
        /\ mat.epoch = op.epoch /\ mat.transport = op.key
        /\ op.to # NoOne /\ op.history = "forward_only" => mat.transport < mat.token
        /\ \A i \in GrantsIn(Len(queue)) : Below(MaterialOf(queue[i]), op.key)
        /\ \A n \in 1..Len(heads) : heads[n].seed < op.key

\* What is granted was drawn, each grant has a key of its own, and a forward-only one
\* comes with a token newer than what sealed the heads before it, and no other key.
GrantOK(i) ==
    LET g == queue[i] IN
    /\ Below(MaterialOf(g), fresh) /\ NoFuture(MaterialOf(g)) /\ g.upto <= Len(heads)
    /\ g.history = "forward_only" =>
        g.prior = NoPrior /\ \A n \in 1..g.upto : heads[n].seed < g.token
    /\ \A k \in GrantsIn(Len(queue)) : k < i => queue[k].key < g.key
GrantsOK == \A i \in GrantsIn(Len(queue)) : GrantOK(i)

\* A joiner's material is that of one of the grants made to it.
JoinerOK(j) ==
    Has(j) => \E i \in GrantsIn(Len(queue)) : queue[i].to = j /\ epochFile[j] = MaterialOf(queue[i])

\* A removed member is off the access list, and the admin has gone on to newer keys.
RemovedOK(j) ==
    removedAt[j] < MaxHeads =>
        /\ j \notin acl
        /\ Has(j) => Below(epochFile[j], epochFile[Admin].transport)
        /\ \A n \in (removedAt[j] + 1)..Len(heads) : heads[n].by = Admin /\ Has(j) =>
             heads[n].seed = NoKey \/ Below(epochFile[j], heads[n].seed)

HeadsOK == (\A n \in 1..Len(heads) : heads[n].seed < fresh) /\ HeadEpochsNeverDecrease

IInv ==
    /\ TypeOK
    /\ AdminOK
    /\ OpOK
    /\ GrantsOK
    /\ \A j \in Joiners : JoinerOK(j) /\ RemovedOK(j)
    /\ HeadsOK

\* The key of an epoch as a material has it.
KeyOf(mat, e) == IF e = mat.epoch THEN mat.token ELSE mat.prior[e]

\* While invites are full and no command is cut off, the admin has the key of every epoch
\* so far, and every grant and every head goes by those keys.
PlainOK ==
    LET mat == epochFile[Admin] IN plain =>
    /\ mat.token = mat.transport /\ op.history = "full"
    /\ op.pc = "persist" \/ mat.epoch = keystore.epoch
    /\ \A e \in Epochs : e <= mat.epoch => KeyOf(mat, e) # NoKey
    /\ \A n \in 1..Len(heads) : heads[n].epoch <= mat.epoch /\ heads[n].seed = KeyOf(mat, heads[n].epoch)
    /\ \A i \in GrantsIn(Len(queue)) :
        LET g == queue[i] IN
        /\ g.from = 0 /\ g.epoch <= mat.epoch
        /\ \A e \in Epochs : e <= g.epoch => KeyOf(MaterialOf(g), e) = KeyOf(mat, e)
        /\ \A n \in 1..g.upto : heads[n].epoch <= g.epoch

OpType == [pc : {"idle", "commit", "persist", "enqueue"}, to : Joiners \cup {NoOne},
           removed : Joiners \cup {NoOne}, history : {"full", "forward_only"},
           epoch : Epochs, key : Key \cup {NoKey}]
HeadType == [epoch : Epochs, seed : Key \cup {NoKey}, by : Members]
Grants == GrantsIn(Len(queue))

USE EpochKeysAssumption

-----------------------------------------------------------------------------
\* A set of numbers that is bounded and not empty has a last one.
LEMMA LastOfIn ==
  ASSUME NEW n \in Nat, NEW S \in SUBSET (1..n), S # {}
  PROVE  LastOf(S) \in S /\ \A k \in S : k <= LastOf(S)
<1> DEFINE T == {n - i : i \in S}
<1>0. \A i \in S : i \in 1..n /\ n - i \in Nat
  OBVIOUS
<1>1. T # {} /\ \A x \in T : x \in Nat
  BY <1>0
<1>2. \E x \in T : \A y \in T : ~(<<y, x>> \in OpToRel(<, Nat))
  BY <1>1, NatLessThanWellFounded, WFMin, Zenon
<1>3. \E x \in T : \A y \in T : ~(y < x)
  BY <1>1, <1>2 DEF OpToRel
<1>4. PICK x \in T : \A y \in T : x <= y
  <2> HIDE DEF T
  <2> QED
    BY <1>1, <1>3
<1>5. PICK i \in S : x = n - i
  OBVIOUS
<1>6. \A k \in S : k <= i
  <2> TAKE k \in S
  <2>1. n - k \in T
    OBVIOUS
  <2>2. n - i <= n - k
    BY <1>4, <1>5, <2>1
  <2>3. i \in Nat /\ k \in Nat
    BY <1>0
  <2> HIDE DEF T
  <2> QED
    BY <2>2, <2>3
<1> QED
  BY <1>6 DEF LastOf

\* What a material derives for an epoch is nothing or the key it has for it.
LEMMA SeedAtIs ==
  ASSUME NEW mat, NEW e
  PROVE  SeedAt(mat, e) \in {NoKey, KeyOf(mat, e)}
BY DEF SeedAt, Advance, DeriveEpochKey, KeyOf

\* A message that is a grant has the parts of one.
LEMMA GrantType ==
  ASSUME TypeOK, NEW i \in Grants
  PROVE  /\ i \in 1..Len(queue) /\ queue[i].kind = "welcome"
         /\ queue[i].to \in Joiners /\ queue[i].history \in {"full", "forward_only"}
         /\ queue[i].from \in Epochs /\ queue[i].token \in Key /\ queue[i].epoch \in Epochs
         /\ queue[i].key \in Key /\ queue[i].prior \in [Epochs -> Key \cup {NoKey}]
         /\ queue[i].upto \in 0..MaxHeads
         /\ MaterialOf(queue[i]) \in Material
<1>1. i \in 1..Len(queue) /\ queue[i].kind = "welcome"
  BY DEF Grants, GrantsIn
<1>2. queue[i] \in Message
  BY <1>1 DEF TypeOK
<1>3. /\ queue[i].to \in Joiners /\ queue[i].history \in {"full", "forward_only"}
      /\ queue[i].from \in Epochs /\ queue[i].token \in Key /\ queue[i].epoch \in Epochs
      /\ queue[i].key \in Key /\ queue[i].prior \in [Epochs -> Key \cup {NoKey}]
      /\ queue[i].upto \in 0..MaxHeads
  BY <1>1, <1>2 DEF Message
<1> QED
  BY <1>1, <1>3 DEF MaterialOf, Material

\* The idle command.
LEMMA IdleOpIs ==
  /\ IdleOp \in OpType /\ IdleOp.pc = "idle" /\ IdleOp.to = NoOne /\ IdleOp.removed = NoOne
  /\ IdleOp.history = "full" /\ IdleOp.key = NoKey
BY DEF IdleOp, OpType, Epochs, NoKey

\* The group has been bootstrapped: one epoch, one key, nothing granted.
LEMMA InitIInv == Init => IInv
<1> SUFFICES ASSUME Init PROVE IInv
  OBVIOUS
<1> DEFINE mat == [epoch |-> 0, transport |-> 1, token |-> 1, from |-> 0, prior |-> NoPrior]
<1>1. NoPrior \in [Epochs -> Key \cup {NoKey}] /\ (\A e \in Epochs : NoPrior[e] = 0) /\ 0 \in Epochs
      /\ 1 \in Key
  BY DEF NoPrior, NoKey, Epochs, Key
<1>2. mat \in Material /\ epochFile[Admin] = mat /\ Admin \in Members
  BY <1>1 DEF Init, Material, Members
<1>3. IdleOp \in OpType
  BY IdleOpIs
<1>4. TypeOK
  <2>1. epochFile \in [Members -> Material \cup {NoMaterial}]
    BY <1>2 DEF Init
  <2> HIDE DEF mat
  <2> QED
    BY <1>1, <1>3, <2>1 DEF Init, TypeOK, OpType, Members
<1>5. AdminOK
  BY <1>1, <1>2 DEF AdminOK, NoFuture, Below, Init, NoKey
<1>6. OpOK
  BY <1>1, <1>2 DEF OpOK, Init, IdleOp
<1>7. GrantsOK /\ HeadsOK
  BY DEF Init, GrantsOK, GrantsIn, HeadsOK, HeadEpochsNeverDecrease
<1>8. \A j \in Joiners : JoinerOK(j) /\ RemovedOK(j)
  BY DEF Init, JoinerOK, RemovedOK, Has, Members
<1> QED
  BY <1>4, <1>5, <1>6, <1>7, <1>8 DEF IInv

\* A step that leaves keys, heads and queue alone leaves what is said of them.
LEMMA SameKeys ==
  ASSUME UNCHANGED <<epochFile, queue, heads, fresh>>
  PROVE  /\ AdminOK' = AdminOK /\ GrantsOK' = GrantsOK /\ HeadsOK' = HeadsOK
         /\ \A j : JoinerOK(j)' = JoinerOK(j)
<1>1. AdminOK' = AdminOK
  BY DEF AdminOK, Below, NoFuture
<1>2. GrantsOK' = GrantsOK
  BY DEF GrantsOK, GrantOK, GrantsIn
<1>3. HeadsOK' = HeadsOK
  BY DEF HeadsOK, HeadEpochsNeverDecrease
<1>4. \A j : JoinerOK(j)' = JoinerOK(j)
  BY DEF JoinerOK, Has, GrantsIn
<1> QED
  BY <1>1, <1>2, <1>3, <1>4

\* A command that starts, fails or changes the access list.
LEMMA CommandFrame ==
  ASSUME IInv, UNCHANGED <<epochFile, keystore, queue, heads, cursor, inbox, fresh>>,
         op' \in OpType, op'.pc \in {"idle", "commit"},
         op'.removed # NoOne => op'.to = NoOne /\ op'.removed \notin acl',
         acl' \subseteq Members, plain' \in BOOLEAN,
         removedAt' \in [Joiners -> 0..MaxHeads],
         \A j \in Joiners : removedAt'[j] < MaxHeads => removedAt'[j] = removedAt[j] /\ j \notin acl'
  PROVE  IInv'
<1>1. TypeOK'
  BY DEF IInv, TypeOK, OpType
<1>2. OpOK'
  BY DEF IInv, OpOK
<1>3. \A j \in Joiners : RemovedOK(j)'
  BY DEF IInv, RemovedOK, Has, Below
<1> QED
  BY <1>1, <1>2, <1>3, SameKeys DEF IInv

\* invite draws nothing yet.
LEMMA InviteIInv ==
  ASSUME IInv, NEW j \in Joiners, NEW h \in {"full", "forward_only"}, Invite(j, h)
  PROVE  IInv'
<1>1. op' = [IdleOp EXCEPT !.pc = "commit", !.to = j, !.history = h]
  BY DEF Invite
<1>2. op' \in OpType /\ op'.pc = "commit" /\ op'.removed = NoOne
  BY <1>1, IdleOpIs DEF OpType
<1>3. removedAt' = [removedAt EXCEPT ![j] = MaxHeads] /\ acl' = acl \cup {j} /\ plain' \in BOOLEAN
  BY DEF Invite
<1>4. \A k \in Joiners : removedAt'[k] < MaxHeads => removedAt'[k] = removedAt[k] /\ k \notin acl'
  BY <1>3 DEF IInv, TypeOK, RemovedOK
<1>5. removedAt' \in [Joiners -> 0..MaxHeads] /\ acl' \subseteq Members
  BY <1>3 DEF IInv, TypeOK, Members
<1> QED
  BY <1>2, <1>3, <1>4, <1>5, CommandFrame DEF Invite, inboxVars

\* remove-member and the access page take a member off the access list.
LEMMA AclIInv ==
  ASSUME IInv, NEW j \in Joiners, RemoveMember(j) \/ ApplyAccess(j)
  PROVE  IInv'
<1>0. TypeOK /\ OpOK /\ op \in OpType /\ op.pc = "idle"
  BY DEF IInv, TypeOK, OpType, RemoveMember, ApplyAccess
<1>1. acl' = acl \ {j} /\ UNCHANGED <<removedAt, plain>>
  BY DEF RemoveMember, ApplyAccess
<1>2. op' \in OpType /\ op'.pc \in {"idle", "commit"}
      /\ (op'.removed # NoOne => op'.to = NoOne /\ op'.removed \notin acl')
  <2>1. CASE RemoveMember(j)
    BY <1>1, <2>1, IdleOpIs DEF RemoveMember, OpType
  <2>2. CASE ApplyAccess(j)
    BY <1>0, <1>1, <2>2 DEF ApplyAccess, OpOK
  <2> QED
    BY <2>1, <2>2
<1>3. /\ removedAt' \in [Joiners -> 0..MaxHeads] /\ acl' \subseteq Members /\ plain' \in BOOLEAN
      /\ \A k \in Joiners : removedAt'[k] < MaxHeads => removedAt'[k] = removedAt[k] /\ k \notin acl'
  BY <1>1 DEF IInv, TypeOK, RemovedOK
<1> QED
  BY <1>2, <1>3, CommandFrame DEF RemoveMember, ApplyAccess, inboxVars

\* rotate begins, or a command is cut off.
LEMMA RotateFailIInv ==
  ASSUME IInv, Rotate \/ Fail
  PROVE  IInv'
<1>1. op' \in OpType /\ op'.pc \in {"idle", "commit"} /\ op'.removed = NoOne
  BY IdleOpIs DEF Rotate, Fail, OpType
<1>2. acl' = acl /\ removedAt' = removedAt /\ plain' \in BOOLEAN
  BY DEF IInv, TypeOK, Rotate, Fail
<1>3. /\ removedAt' \in [Joiners -> 0..MaxHeads] /\ acl' \subseteq Members
      /\ \A k \in Joiners : removedAt'[k] < MaxHeads => removedAt'[k] = removedAt[k] /\ k \notin acl'
  BY <1>2 DEF IInv, TypeOK, RemovedOK
<1> QED
  BY <1>1, <1>2, <1>3, CommandFrame DEF Rotate, Fail, inboxVars

\* The material after a commit: its own keys, and the seeds of the epoch it replaces unless
\* that is its own.
LEMMA NextMaterialIs ==
  ASSUME NEW prev \in Material, NEW e, NEW k, NEW t
  PROVE  NextMaterial(prev, e, k, t) =
           [epoch |-> e, transport |-> k, token |-> t, from |-> 0,
            prior |-> IF prev.epoch = e THEN prev.prior
                      ELSE [prev.prior EXCEPT ![prev.epoch] = prev.transport]]
BY DEF NextMaterial, Inherited, Inherit

\* Keys drawn before some key were drawn before any later one.
LEMMA BelowLater ==
  ASSUME NEW mat \in Material, NEW k \in Nat, NEW l \in Nat, k <= l, Below(mat, k)
  PROVE  Below(mat, l)
BY DEF Below, Material, Key, NoKey

\* The numbers that the types give.
LEMMA Numbers ==
  ASSUME TypeOK
  PROVE  /\ Len(queue) \in Nat /\ Len(heads) \in Nat /\ fresh \in Nat /\ keystore.epoch \in Nat
         /\ \A n \in 1..Len(heads) : heads[n].seed \in Nat /\ heads[n].epoch \in Epochs /\ heads[n].epoch \in Nat
         /\ op \in OpType
<1>1. Len(queue) \in Nat /\ Len(heads) \in Nat /\ fresh \in Nat
  BY DEF TypeOK
<1>2. keystore.epoch \in Nat
  BY DEF TypeOK, Epochs
<1>3. ASSUME NEW n \in 1..Len(heads)
      PROVE  heads[n].seed \in Nat /\ heads[n].epoch \in Epochs /\ heads[n].epoch \in Nat
  <2>1. heads \in Seq(HeadType)
    BY DEF TypeOK, HeadType
  <2>2. heads[n] \in HeadType
    BY <2>1
  <2> QED
    BY <2>2 DEF HeadType, Epochs, Key, NoKey
<1> QED
  BY <1>1, <1>2, <1>3 DEF TypeOK, OpType

\* epoch.json is written with a fresh key.
LEMMA SaveMaterialIInv ==
  ASSUME IInv, SaveMaterial
  PROVE  IInv'
<1> DEFINE A == epochFile[Admin]
           e == keystore.epoch + 1
           token == IF op.to # NoOne /\ op.history = "forward_only" THEN fresh + 1 ELSE fresh
           P == IF A.epoch = e THEN A.prior ELSE [A.prior EXCEPT ![A.epoch] = A.transport]
           B == [epoch |-> e, transport |-> fresh, token |-> token, from |-> 0, prior |-> P]
<1>0. /\ TypeOK /\ AdminOK /\ OpOK /\ GrantsOK /\ HeadsOK
      /\ (\A j \in Joiners : JoinerOK(j) /\ RemovedOK(j))
      /\ A \in Material /\ Admin \in Members
  BY DEF IInv, AdminOK, Members
<1>1. /\ op.pc = "commit" /\ e <= MaxEpoch /\ token <= MaxKey
      /\ epochFile' = [epochFile EXCEPT ![Admin] = B]
      /\ fresh' = token + 1
      /\ op' = [op EXCEPT !.pc = "persist", !.epoch = e, !.key = fresh]
      /\ UNCHANGED <<keystore, acl, queue, heads, cursor, inbox, removedAt, plain>>
  <2>1. NextMaterial(A, e, fresh, token) = B
    BY <1>0, NextMaterialIs
  <2> QED
    BY <2>1 DEF SaveMaterial, BackwardBlock, inboxVars
<1>2. /\ fresh \in Nat /\ token \in Nat /\ fresh <= token /\ fresh >= 1 /\ fresh \in Key /\ token \in Key
      /\ e \in Epochs /\ A.epoch \in {e - 1, e} /\ A.epoch \in Epochs /\ e - 1 \in Epochs
  <2>1. fresh \in Nat /\ fresh >= 1 /\ keystore.epoch \in Nat /\ e \in Nat /\ keystore.epoch = e - 1
    BY <1>0, Numbers DEF TypeOK
  <2>2. token \in Nat /\ fresh <= token /\ fresh \in Key /\ token \in Key
    BY <1>1, <2>1 DEF Key
  <2>3. e \in Epochs /\ e - 1 \in Epochs
    BY <1>1, <2>1 DEF Epochs
  <2> HIDE DEF e, token
  <2> QED
    BY <1>0, <2>1, <2>2, <2>3 DEF OpOK, Material, e
<1> HIDE DEF e, token
<1>3. /\ P \in [Epochs -> Key \cup {NoKey}]
      /\ \A x \in Epochs : P[x] < fresh
      /\ \A x \in Epochs : x >= e => P[x] = NoKey
  <2>1. /\ A.prior \in [Epochs -> Key \cup {NoKey}] /\ A.transport \in Key /\ A.transport < fresh
        /\ \A x \in Epochs : A.prior[x] < fresh
        /\ \A x \in Epochs : x >= A.epoch => A.prior[x] = NoKey
    BY <1>0, <1>2 DEF AdminOK, Below, Material, NoFuture, Epochs
  <2> HIDE DEF A
  <2> QED
    BY <1>2, <2>1 DEF Epochs
<1> HIDE DEF P
<1>4. B \in Material /\ Below(B, token + 1) /\ NoFuture(B) /\ B.prior[B.epoch] = NoKey
      /\ B.epoch = e /\ B.transport = fresh /\ B.token = token /\ B.from = 0
  <2>1. B \in Material /\ B.epoch = e /\ B.transport = fresh /\ B.token = token /\ B.from = 0 /\ B.prior = P
    BY <1>2, <1>3 DEF Material, Epochs
  <2>2. \A x \in Epochs : P[x] < token + 1
    BY <1>2, <1>3 DEF Key, NoKey
  <2> HIDE DEF B
  <2> QED
    BY <1>2, <1>3, <2>1, <2>2 DEF Below, NoFuture, Epochs
<1> HIDE DEF B, A
<1>5. /\ epochFile'[Admin] = B
      /\ \A j \in Joiners : epochFile'[j] = epochFile[j]
      /\ epochFile' \in [Members -> Material \cup {NoMaterial}]
  BY <1>0, <1>1, <1>4 DEF TypeOK, Members
<1>6. op' \in OpType /\ op'.pc = "persist" /\ op'.epoch = e /\ op'.key = fresh
      /\ op'.to = op.to /\ op'.removed = op.removed /\ op'.history = op.history
  BY <1>0, <1>1, <1>2, Numbers DEF OpType
<1>7. TypeOK'
  <2>1. fresh' \in 1..(MaxKey + 1)
    BY <1>1, <1>2 DEF Key
  <2> QED
    BY <1>0, <1>1, <1>5, <1>6, <2>1 DEF TypeOK, OpType
<1>8. AdminOK'
  BY <1>1, <1>2, <1>4, <1>5 DEF AdminOK, Below, NoFuture
<1>9. \A i \in Grants : Below(MaterialOf(queue[i]), fresh) /\ MaterialOf(queue[i]) \in Material
  BY <1>0, GrantType DEF GrantsOK, GrantOK, Grants
<1>10. \A n \in 1..Len(heads) : heads[n].seed < fresh /\ heads[n].seed \in Nat
  BY <1>0, Numbers DEF HeadsOK
<1>11. OpOK'
  <2>1. op'.to # NoOne /\ op'.history = "forward_only" => fresh < token
    BY <1>2, <1>6 DEF token
  <2>2. \A i \in GrantsIn(Len(queue))' : Below(MaterialOf(queue[i]), op.key)'
    BY <1>1, <1>6, <1>9 DEF Grants, GrantsIn, Below, MaterialOf
  <2> QED
    BY <1>0, <1>1, <1>2, <1>4, <1>5, <1>6, <1>10, <2>1, <2>2 DEF OpOK, e
<1>12. GrantsOK'
  <2>1. \A i \in Grants : Below(MaterialOf(queue[i]), token + 1)
    BY <1>2, <1>9, BelowLater
  <2> QED
    BY <1>0, <1>1, <2>1 DEF GrantsOK, GrantOK, Grants, GrantsIn, Below, NoFuture, MaterialOf
<1>13. HeadsOK'
  BY <1>0, <1>1, <1>2, <1>10 DEF HeadsOK, HeadEpochsNeverDecrease
<1>14. \A j \in Joiners : JoinerOK(j)'
  BY <1>0, <1>1, <1>5 DEF JoinerOK, Has, GrantsIn
<1>15. \A j \in Joiners : RemovedOK(j)'
  <2> TAKE j \in Joiners
  <2>1. Has(j) => Below(epochFile[j], fresh)
    BY <1>0, <1>9 DEF JoinerOK, Grants
  <2> QED
    BY <1>0, <1>1, <1>4, <1>5, <2>1 DEF RemovedOK, Has, Below
<1> QED
  BY <1>7, <1>8, <1>11, <1>12, <1>13, <1>14, <1>15 DEF IInv

\* A member's material is whole, its keys were drawn, and while a commit is under way those
\* of a joiner are older than the commit's.
LEMMA MemberOK ==
  ASSUME IInv, NEW m \in Members, Has(m)
  PROVE  /\ epochFile[m] \in Material /\ Below(epochFile[m], fresh) /\ NoFuture(epochFile[m])
         /\ m # Admin /\ op.pc \in {"persist", "enqueue"} => Below(epochFile[m], op.key)
<1>1. CASE m = Admin
  BY <1>1 DEF IInv, AdminOK
<1>2. CASE m \in Joiners
  <2>1. PICK i \in Grants : epochFile[m] = MaterialOf(queue[i])
    BY <1>2 DEF IInv, JoinerOK, Grants
  <2>2. GrantOK(i) /\ MaterialOf(queue[i]) \in Material
    BY GrantType DEF IInv, GrantsOK, Grants
  <2> QED
    BY <2>1, <2>2 DEF GrantOK, IInv, OpOK, Grants
<1> QED
  BY <1>1, <1>2 DEF Members

\* The group state follows epoch.json.
LEMMA PersistGroupIInv ==
  ASSUME IInv, PersistGroup
  PROVE  IInv'
<1>0. /\ TypeOK /\ OpOK /\ op \in OpType /\ op.pc = "persist" /\ Len(heads) \in 0..MaxHeads
      /\ UNCHANGED <<epochFile, acl, queue, heads, cursor, inbox, fresh, plain>>
  BY Numbers DEF IInv, PersistGroup, inboxVars, TypeOK
<1>1. /\ keystore' \in [epoch : Epochs, roster : SUBSET Joiners]
      /\ keystore'.epoch = op.epoch
  <2>1. op.epoch \in Epochs /\ ({op.to} \ {NoOne}) \subseteq Joiners /\ keystore.roster \subseteq Joiners
    BY <1>0 DEF OpType, TypeOK
  <2>2. keystore' = [epoch |-> op.epoch, roster |-> keystore.roster \cup ({op.to} \ {NoOne})]
    BY DEF PersistGroup
  <2> QED
    BY <2>1, <2>2
<1>2. /\ op' \in OpType /\ op'.removed = NoOne
      /\ \/ op'.pc = "idle"
         \/ /\ op'.pc = "enqueue" /\ op'.to # NoOne
            /\ op'.to = op.to /\ op'.epoch = op.epoch /\ op'.key = op.key /\ op'.history = op.history
  <2>1. CASE op.to = NoOne
    BY <2>1, IdleOpIs DEF PersistGroup
  <2>2. CASE op.to # NoOne
    <3>1. op.removed = NoOne
      BY <1>0, <2>2 DEF OpOK
    <3> QED
      BY <1>0, <2>2, <3>1 DEF PersistGroup, OpType
  <2> QED
    BY <2>1, <2>2
<1>3. /\ removedAt' \in [Joiners -> 0..MaxHeads]
      /\ \A j \in Joiners : removedAt'[j] = IF j = op.removed THEN Len(heads) ELSE removedAt[j]
  BY <1>0 DEF PersistGroup, TypeOK
<1>4. TypeOK'
  BY <1>0, <1>1, <1>2, <1>3 DEF TypeOK, OpType
<1>5. OpOK'
  <2>1. \A i \in GrantsIn(Len(queue))' : op'.key = op.key => Below(MaterialOf(queue[i]), op.key)'
    BY <1>0 DEF OpOK, GrantsIn, Below, MaterialOf
  <2>2. /\ epochFile[Admin].epoch = op.epoch /\ epochFile[Admin].transport = op.key
        /\ op.to # NoOne /\ op.history = "forward_only" => epochFile[Admin].transport < epochFile[Admin].token
        /\ \A n \in 1..Len(heads) : heads[n].seed < op.key
    BY <1>0 DEF OpOK
  <2> QED
    BY <1>0, <1>1, <1>2, <2>1, <2>2 DEF OpOK
<1>6. \A j \in Joiners : RemovedOK(j)'
  <2> TAKE j \in Joiners
  <2>1. CASE j = op.removed
    <3>1. j \notin acl
      BY <1>0, <2>1 DEF OpOK
    <3>2. Has(j) => Below(epochFile[j], epochFile[Admin].transport)
      BY <1>0, MemberOK DEF OpOK, Members
    <3>3. removedAt'[j] = Len(heads)
      BY <1>3, <2>1
    <3> QED
      BY <1>0, <3>1, <3>2, <3>3 DEF RemovedOK, Has, Below
  <2>2. CASE j # op.removed
    <3>1. removedAt'[j] = removedAt[j] /\ RemovedOK(j)
      BY <1>3, <2>2 DEF IInv
    <3> QED
      BY <1>0, <3>1 DEF RemovedOK, Has, Below
  <2> QED
    BY <2>1, <2>2
<1> QED
  BY <1>0, <1>4, <1>5, <1>6, SameKeys DEF IInv

\* One more message in the queue.
LEMMA Enqueued ==
  ASSUME TypeOK, NEW msg \in Message, Len(queue) < MaxQueue, queue' = Append(queue, msg)
  PROVE  /\ queue' \in Seq(Message) /\ Len(queue') = Len(queue) + 1 /\ Len(queue') <= MaxQueue
         /\ queue'[Len(queue) + 1] = msg
         /\ \A i \in Grants : queue'[i] = queue[i] /\ i <= Len(queue) /\ i \in Nat
         /\ Grants' = IF msg.kind = "welcome" THEN Grants \cup {Len(queue) + 1} ELSE Grants
<1>1. queue \in Seq(Message) /\ Len(queue) \in Nat
  BY DEF TypeOK
<1>2. /\ queue' \in Seq(Message) /\ Len(queue') = Len(queue) + 1
      /\ queue'[Len(queue) + 1] = msg /\ \A i \in 1..Len(queue) : queue'[i] = queue[i]
  BY <1>1
<1>3. 1..Len(queue') = 1..Len(queue) \cup {Len(queue) + 1}
  BY <1>1, <1>2
<1> QED
  BY <1>1, <1>2, <1>3 DEF Grants, GrantsIn

\* The Welcome is queued with the material of the admin.
LEMMA EnqueueGrantIInv ==
  ASSUME IInv, EnqueueGrant
  PROVE  IInv'
<1> DEFINE A == epochFile[Admin]
           g == Grant(A)
<1>a. /\ op.pc = "enqueue" /\ Len(queue) < MaxQueue
      /\ queue' = Append(queue, g) /\ op' = IdleOp
      /\ UNCHANGED <<epochFile, keystore, acl, heads, cursor, inbox, fresh, removedAt, plain>>
  BY DEF EnqueueGrant, inboxVars
<1>0. /\ TypeOK /\ AdminOK /\ OpOK /\ GrantsOK /\ HeadsOK /\ op \in OpType /\ op.pc = "enqueue"
      /\ Len(heads) \in 0..MaxHeads /\ Len(queue) \in Nat /\ Len(queue) < MaxQueue
      /\ queue' = Append(queue, g) /\ op' = IdleOp
      /\ UNCHANGED <<epochFile, keystore, acl, heads, cursor, inbox, fresh, removedAt, plain>>
  <2>1. TypeOK /\ Len(heads) \in 0..MaxHeads
    BY DEF IInv, TypeOK
  <2> HIDE DEF g
  <2> QED
    BY <1>a, <2>1, Numbers DEF IInv
<1>b. PICK last \in Nat : last = Len(queue) + 1
  BY <1>0
<1>1. /\ A \in Material /\ A.epoch = op.epoch /\ A.transport = op.key /\ A.token \in Key
      /\ A.transport <= A.token /\ A.transport \in Key
      /\ op.to \in Joiners /\ op.epoch \in Epochs
      /\ op.key \in Key /\ op.history \in {"full", "forward_only"} /\ NoFuture(A) /\ Below(A, fresh)
      /\ A.prior \in [Epochs -> Key \cup {NoKey}]
  BY <1>0 DEF AdminOK, OpOK, OpType, Material
<1>2. /\ NoPrior \in [Epochs -> Key \cup {NoKey}] /\ \A e \in Epochs : NoPrior[e] = 0
      /\ 0 \in Epochs
  BY DEF NoPrior, NoKey, Epochs
<1>3. /\ g \in Message /\ g.kind = "welcome" /\ g.to = op.to /\ g.history = op.history
      /\ g.token = A.token /\ g.epoch = op.epoch /\ g.key = op.key /\ g.upto = Len(heads)
      /\ g.prior \in {A.prior, NoPrior} /\ (op.history = "forward_only" => g.prior = NoPrior)
  <2> DEFINE fr == IF op.history = "full" THEN 0 ELSE op.epoch
             pr == IF op.history = "full" THEN A.prior ELSE NoPrior
  <2>1. fr \in Epochs /\ pr \in [Epochs -> Key \cup {NoKey}] /\ pr \in {A.prior, NoPrior}
        /\ (op.history = "forward_only" => pr = NoPrior)
    BY <1>1, <1>2
  <2>2. g = [kind |-> "welcome", to |-> op.to, history |-> op.history, from |-> fr, token |-> A.token,
             epoch |-> op.epoch, key |-> op.key, prior |-> pr, upto |-> Len(heads)]
    BY DEF Grant
  <2> HIDE DEF A, fr, pr, g
  <2> QED
    BY <1>0, <1>1, <2>1, <2>2 DEF Message
<1> HIDE DEF g
<1>4. /\ queue' \in Seq(Message) /\ Len(queue') = last /\ Len(queue') <= MaxQueue
      /\ queue'[last] = g
      /\ (\A i \in Grants : queue'[i] = queue[i] /\ i < last /\ i \in Nat)
      /\ Grants' = Grants \cup {last}
  <2>1. \A i \in Grants : queue'[i] = queue[i] /\ i <= Len(queue) /\ i \in Nat
    BY <1>0, <1>3, Enqueued
  <2>2. \A i \in Grants : i < last
    BY <1>0, <1>b, <2>1
  <2> QED
    BY <1>0, <1>b, <1>3, <2>1, <2>2, Enqueued
<1>5. TypeOK'
  BY <1>0, <1>4, IdleOpIs DEF TypeOK, OpType
<1>6. OpOK'
  BY <1>0, IdleOpIs DEF OpOK
<1>7. GrantOK(last)'
  <2>1. MaterialOf(g).transport = g.key /\ MaterialOf(g).token = g.token /\ MaterialOf(g).prior = g.prior
        /\ MaterialOf(g).epoch = g.epoch
    BY DEF MaterialOf
  <2>2. Below(MaterialOf(g), fresh)
    <3>1. \A e \in Epochs : g.prior[e] < fresh
      BY <1>0, <1>1, <1>2, <1>3, Numbers DEF Below, Material, Key
    <3> QED
      BY <1>1, <1>3, <2>1, <3>1 DEF Below
  <2>3. NoFuture(MaterialOf(g))
    BY <1>1, <1>2, <1>3, <2>1 DEF NoFuture, NoKey
  <2>4. g.history = "forward_only" => g.prior = NoPrior /\ \A n \in 1..g.upto : heads[n].seed < g.token
    <3>1. \A n \in 1..Len(heads) : heads[n].seed \in Nat /\ heads[n].seed < op.key
      BY <1>0, Numbers DEF OpOK
    <3> QED
      BY <1>1, <1>3, <3>1 DEF Key
  <2>5. \A k \in Grants' : k < last => queue'[k].key < g.key
    <3> TAKE k \in Grants'
    <3>1. k \in Grants => queue'[k].key < g.key
      BY <1>0, <1>3, <1>4 DEF OpOK, Grants, Below, MaterialOf
    <3> QED
      BY <1>4, <3>1
  <2>6. (Below(MaterialOf(queue[last]), fresh) /\ NoFuture(MaterialOf(queue[last])))'
    BY <1>0, <1>4, <2>2, <2>3 DEF Below, NoFuture, MaterialOf
  <2> QED
    <3>1. queue'[last] = g /\ heads' = heads /\ g.upto <= Len(heads')
      BY <1>0, <1>3, <1>4
    <3> HIDE DEF A
    <3> QED
      BY <2>4, <2>5, <2>6, <3>1 DEF GrantOK, Grants
<1>8. \A i \in Grants : GrantOK(i)'
  <2> TAKE i \in Grants
  <2>1. GrantOK(i) /\ queue'[i] = queue[i]
    BY <1>0, <1>4 DEF GrantsOK, Grants
  <2>2. \A k \in Grants' : k < i => queue'[k].key < queue'[i].key
    <3> TAKE k \in Grants'
    <3>1. CASE k \in Grants
      BY <1>4, <2>1, <3>1 DEF GrantOK, Grants
    <3>2. CASE k = last
      <4>1. i \in Nat /\ i < last
        BY <1>4
      <4> QED
        BY <3>2, <4>1
    <3> QED
      BY <1>4, <3>1, <3>2
  <2> QED
    BY <1>0, <2>1, <2>2 DEF GrantOK, Grants, Below, NoFuture, MaterialOf
<1>9. GrantsOK'
  BY <1>4, <1>7, <1>8 DEF GrantsOK, Grants
<1>10. AdminOK' /\ HeadsOK'
  BY <1>0 DEF AdminOK, HeadsOK, HeadEpochsNeverDecrease, Below, NoFuture
<1>11. \A j \in Joiners : JoinerOK(j)' /\ RemovedOK(j)'
  <2> TAKE j \in Joiners
  <2>1. JoinerOK(j) /\ RemovedOK(j)
    BY DEF IInv
  <2>2. RemovedOK(j)'
    BY <1>0, <2>1 DEF RemovedOK, Has, Below
  <2>3. JoinerOK(j)'
    <3> SUFFICES ASSUME Has(j) PROVE JoinerOK(j)'
      BY <1>0 DEF JoinerOK, Has
    <3>1. PICK i \in Grants : queue[i].to = j /\ epochFile[j] = MaterialOf(queue[i])
      BY <2>1 DEF JoinerOK, Grants
    <3>2. i \in Grants' /\ queue'[i].to = j /\ epochFile'[j] = MaterialOf(queue'[i])
      BY <1>0, <1>4, <3>1
    <3> QED
      BY <3>2 DEF JoinerOK, Grants, MaterialOf
  <2> QED
    BY <2>2, <2>3
<1> QED
  BY <1>5, <1>6, <1>9, <1>10, <1>11 DEF IInv

\* A joiner makes its material from a grant to it.
LEMMA AcceptWelcomeIInv ==
  ASSUME IInv, NEW j \in Joiners, AcceptWelcome(j)
  PROVE  IInv'
<1>0. /\ TypeOK /\ Len(queue) \in Nat /\ j \in acl /\ GrantsIn(FirstPage) # {}
      /\ UNCHANGED <<keystore, acl, queue, heads, op, cursor, inbox, fresh, removedAt, plain>>
  BY Numbers DEF IInv, AcceptWelcome, inboxVars
<1>1. GrantsIn(FirstPage) \subseteq Grants /\ GrantsIn(FirstPage) \in SUBSET (1..Len(queue))
  <2>1. FirstPage \in 0..Len(queue)
    BY <1>0 DEF FirstPage
  <2> QED
    BY <1>0, <2>1 DEF GrantsIn, Grants
<1>2. PICK i \in Grants : queue[i].to = j /\ epochFile' = [epochFile EXCEPT ![j] = MaterialOf(queue[i])]
  <2>1. LastOf(GrantsIn(FirstPage)) \in GrantsIn(FirstPage)
    BY <1>0, <1>1, LastOfIn
  <2> QED
    BY <1>1, <2>1 DEF AcceptWelcome, MaterialOf
<1>3. MaterialOf(queue[i]) \in Material
  BY <1>0, GrantType
<1>4. /\ epochFile' \in [Members -> Material \cup {NoMaterial}]
      /\ epochFile'[j] = MaterialOf(queue[i])
      /\ \A m \in Members : m # j => epochFile'[m] = epochFile[m]
      /\ epochFile'[Admin] = epochFile[Admin]
  BY <1>0, <1>2, <1>3 DEF TypeOK, Members
<1>5. TypeOK'
  BY <1>0, <1>4 DEF TypeOK
<1>6. AdminOK' /\ OpOK' /\ GrantsOK' /\ HeadsOK'
  <2>1. AdminOK'
    BY <1>0, <1>4 DEF IInv, AdminOK, Below, NoFuture
  <2>2. OpOK'
    BY <1>0, <1>4 DEF IInv, OpOK, GrantsIn, Below, MaterialOf
  <2>3. GrantsOK'
    BY <1>0 DEF IInv, GrantsOK, GrantOK, GrantsIn, Below, NoFuture, MaterialOf
  <2>4. HeadsOK'
    BY <1>0 DEF IInv, HeadsOK, HeadEpochsNeverDecrease
  <2> QED
    BY <2>1, <2>2, <2>3, <2>4
<1>7. \A k \in Joiners : JoinerOK(k)' /\ RemovedOK(k)'
  <2> TAKE k \in Joiners
  <2>1. CASE k = j
    <3>1. JoinerOK(k)'
      BY <1>0, <1>2, <1>4, <2>1 DEF JoinerOK, Grants, GrantsIn, MaterialOf
    <3>2. RemovedOK(k)'
      BY <1>0, <2>1 DEF IInv, RemovedOK
    <3> QED
      BY <3>1, <3>2
  <2>2. CASE k # j
    <3>1. epochFile'[k] = epochFile[k]
      BY <1>4, <2>2 DEF Members
    <3>2. JoinerOK(k)'
      BY <1>0, <3>1 DEF IInv, JoinerOK, GrantsIn, Has
    <3>3. RemovedOK(k)'
      BY <1>0, <1>4, <3>1 DEF IInv, RemovedOK, Has, Below
    <3> QED
      BY <3>2, <3>3
  <2> QED
    BY <2>1, <2>2
<1> QED
  BY <1>5, <1>6, <1>7 DEF IInv

\* A comment joins the queue and grants nothing.
LEMMA CommentIInv ==
  ASSUME IInv, NEW m \in Members, Comment(m)
  PROVE  IInv'
<1> DEFINE msg == [kind |-> "collab", key |-> epochFile[m].transport]
<1>0. /\ TypeOK /\ Has(m) /\ Len(queue) < MaxQueue /\ Len(queue) \in Nat
      /\ queue' = Append(queue, msg)
      /\ UNCHANGED <<epochFile, keystore, acl, heads, op, cursor, inbox, fresh, removedAt, plain>>
  BY Numbers DEF IInv, Comment, inboxVars
<1>1. msg \in Message /\ msg.kind = "collab"
  <2>1. epochFile[m].transport \in Key
    BY <1>0, MemberOK DEF Material
  <2> QED
    BY <2>1 DEF Message
<1> HIDE DEF msg
<1>2. /\ queue' \in Seq(Message) /\ Len(queue') <= MaxQueue
      /\ (\A i \in Grants : queue'[i] = queue[i])
      /\ Grants' = Grants
  BY <1>0, <1>1, Enqueued
<1>3. TypeOK'
  BY <1>0, <1>2 DEF TypeOK
<1>4. AdminOK' /\ HeadsOK'
  BY <1>0 DEF IInv, AdminOK, HeadsOK, HeadEpochsNeverDecrease, Below, NoFuture
<1>5. OpOK'
  BY <1>0, <1>2 DEF IInv, OpOK, Grants, Below, MaterialOf
<1>6. GrantsOK'
  <2>1. \A i \in Grants : GrantOK(i)'
    <3> TAKE i \in Grants
    <3>1. GrantOK(i) /\ queue'[i] = queue[i] /\ \A k \in Grants : queue'[k] = queue[k]
      BY <1>2 DEF IInv, GrantsOK, Grants
    <3> QED
      BY <1>0, <1>2, <3>1 DEF GrantOK, Grants
  <2> QED
    BY <1>2, <2>1 DEF GrantsOK, Grants
<1>7. \A j \in Joiners : JoinerOK(j)' /\ RemovedOK(j)'
  <2> TAKE j \in Joiners
  <2>1. JoinerOK(j)'
    <3> SUFFICES ASSUME Has(j) PROVE JoinerOK(j)'
      BY <1>0 DEF JoinerOK, Has
    <3>1. PICK i \in Grants : queue[i].to = j /\ epochFile[j] = MaterialOf(queue[i])
      BY DEF IInv, JoinerOK, Grants
    <3>2. i \in Grants' /\ queue'[i].to = j /\ epochFile'[j] = MaterialOf(queue'[i])
      BY <1>0, <1>2, <3>1
    <3> QED
      BY <3>2 DEF JoinerOK, Grants, MaterialOf
  <2>2. RemovedOK(j)'
    BY <1>0 DEF IInv, RemovedOK, Has
  <2> QED
    BY <2>1, <2>2
<1> QED
  BY <1>3, <1>4, <1>5, <1>6, <1>7 DEF IInv

\* Reading the inbox touches neither keys nor heads.
LEMMA SyncInboxIInv ==
  ASSUME IInv, NEW m \in Members, SyncInbox(m)
  PROVE  IInv'
<1>0. /\ TypeOK /\ Len(queue) \in Nat /\ Len(queue) <= MaxQueue
      /\ UNCHANGED <<epochFile, keystore, acl, queue, heads, op, fresh, removedAt, plain>>
  BY Numbers DEF IInv, SyncInbox, TypeOK
<1>1. Page(m) \in SUBSET (1..Len(queue)) /\ Page(m) # {}
  BY DEF Page, SyncInbox
<1>2. LastOf(Page(m)) \in 1..Len(queue)
  BY <1>0, <1>1, LastOfIn
<1>3. cursor' \in [Members -> 0..MaxQueue] /\ inbox' \in [Members -> SUBSET (1..MaxQueue)]
  <2>1. LastOf(Page(m)) \in 0..MaxQueue /\ Page(m) \subseteq 1..MaxQueue
    BY <1>0, <1>1, <1>2
  <2> QED
    BY <1>0, <2>1 DEF SyncInbox, TypeOK
<1>4. TypeOK'
  BY <1>0, <1>3 DEF TypeOK
<1>5. OpOK' /\ \A j \in Joiners : RemovedOK(j)'
  BY <1>0 DEF IInv, OpOK, RemovedOK, GrantsIn, Below, MaterialOf, Has
<1> QED
  BY <1>0, <1>4, <1>5, SameKeys DEF IInv

\* A member seals a head with the seed it has for its epoch.
LEMMA SealIInv ==
  ASSUME IInv, NEW m \in Members, Seal(m)
  PROVE  IInv'
<1> DEFINE mat == epochFile[m]
           h == [epoch |-> mat.epoch, by |-> m, seed |-> SeedAt(mat, mat.epoch)]
<1>0. /\ TypeOK /\ Has(m) /\ Len(heads) < MaxHeads /\ Len(heads) \in Nat /\ fresh \in Nat
      /\ (m = Admin => op.pc = "idle")
      /\ (heads # <<>> => Opens(mat, heads[Len(heads)]))
      /\ heads' = Append(heads, h)
      /\ UNCHANGED <<epochFile, keystore, acl, queue, op, cursor, inbox, fresh, removedAt, plain>>
  BY Numbers DEF IInv, Seal, inboxVars
<1>1. /\ mat \in Material /\ Below(mat, fresh) /\ NoFuture(mat)
      /\ m # Admin /\ op.pc \in {"persist", "enqueue"} => Below(mat, op.key)
  BY <1>0, MemberOK
<1> HIDE DEF mat
<1>2. SeedAt(mat, mat.epoch) \in {NoKey, mat.token} /\ mat.token \in Key /\ mat.epoch \in Epochs
  BY <1>1, SeedAtIs DEF KeyOf, Material
<1>3. h \in HeadType /\ h.epoch = mat.epoch /\ h.by = m /\ h.seed \in {NoKey, mat.token}
      /\ h.seed \in Nat
  BY <1>2 DEF HeadType, Key, NoKey
<1> HIDE DEF h
<1>4. /\ heads' \in Seq(HeadType) /\ Len(heads') = Len(heads) + 1 /\ heads'[Len(heads) + 1] = h
      /\ \A n \in 1..Len(heads) : heads'[n] = heads[n]
  <2>1. heads \in Seq(HeadType)
    BY <1>0 DEF TypeOK, HeadType
  <2> QED
    BY <1>0, <1>3, <2>1
<1>5. TypeOK'
  <2>1. Len(heads') <= MaxHeads
    BY <1>0, <1>4
  <2> QED
    BY <1>0, <1>4, <2>1 DEF TypeOK, HeadType
<1>6. h.seed < fresh
  BY <1>0, <1>1, <1>2, <1>3 DEF Below, NoKey, Key
<1>7. HeadsOK'
  <2>0. HeadsOK
    BY DEF IInv
  <2>1. \A n \in 1..Len(heads') : heads'[n].seed < fresh
    <3> TAKE n \in 1..Len(heads')
    <3>1. CASE n \in 1..Len(heads)
      BY <1>4, <2>0, <3>1 DEF HeadsOK
    <3>2. CASE n = Len(heads) + 1
      BY <1>4, <1>6, <3>2
    <3> QED
      BY <1>0, <1>4, <3>1, <3>2
  <2>2. ASSUME heads # <<>>
        PROVE  heads[Len(heads)].epoch <= h.epoch
    <3>0. Len(heads) \in 1..Len(heads)
      BY <1>0, <2>2 DEF TypeOK
    <3>1. heads[Len(heads)].epoch \in Epochs /\ heads[Len(heads)].epoch \in Nat /\ mat.epoch \in Nat
      BY <1>0, <1>2, <3>0, Numbers DEF Epochs
    <3>2. SeedAt(mat, heads[Len(heads)].epoch) # NoKey
      BY <1>0, <2>2 DEF Opens
    <3>3. KeyOf(mat, heads[Len(heads)].epoch) # NoKey
      BY <3>2, SeedAtIs
    <3> QED
      BY <1>1, <1>3, <3>1, <3>3 DEF KeyOf, NoFuture
  <2>3. \A n \in 2..Len(heads') : heads'[n - 1].epoch <= heads'[n].epoch
    <3> TAKE n \in 2..Len(heads')
    <3>1. CASE n \in 2..Len(heads)
      <4>1. n - 1 \in 1..Len(heads) /\ n \in 1..Len(heads)
        BY <1>0, <3>1
      <4> QED
        BY <1>4, <2>0, <3>1, <4>1 DEF HeadsOK, HeadEpochsNeverDecrease
    <3>2. CASE n = Len(heads) + 1
      <4>1. n - 1 = Len(heads) /\ Len(heads) \in 1..Len(heads) /\ heads # <<>>
        BY <1>0, <3>2
      <4> QED
        BY <1>4, <2>2, <3>2, <4>1
    <3> QED
      BY <1>0, <1>4, <3>1, <3>2
  <2> QED
    BY <1>0, <2>1, <2>3 DEF HeadsOK, HeadEpochsNeverDecrease
<1>8. AdminOK'
  BY <1>0 DEF IInv, AdminOK, Below, NoFuture
<1>9. OpOK'
  <2>1. op.pc \in {"persist", "enqueue"} => h.seed < op.key
    <3>1. op.pc \in {"persist", "enqueue"} => m # Admin /\ op.key \in Nat
      BY <1>0, Numbers DEF OpType, Key, NoKey
    <3> QED
      BY <1>0, <1>1, <1>2, <1>3, <3>1 DEF Below, NoKey, Key
  <2>2. op.pc \in {"persist", "enqueue"} => \A n \in 1..Len(heads') : heads'[n].seed < op.key
    <3> SUFFICES ASSUME op.pc \in {"persist", "enqueue"}, NEW n \in 1..Len(heads')
                 PROVE  heads'[n].seed < op.key
      OBVIOUS
    <3>1. n \in 1..Len(heads) \/ n = Len(heads) + 1
      BY <1>0, <1>4
    <3> QED
      BY <1>4, <2>1, <3>1 DEF IInv, OpOK
  <2> QED
    BY <1>0, <2>2 DEF IInv, OpOK, GrantsIn, Below, MaterialOf
<1>10. GrantsOK'
  <2>1. \A i \in Grants : GrantOK(i)'
    <3> TAKE i \in Grants
    <3>1. GrantOK(i) /\ queue[i].upto \in Nat
      BY <1>0, GrantType DEF IInv, GrantsOK, Grants
    <3>2. queue[i].upto <= Len(heads') /\ \A n \in 1..queue[i].upto : heads'[n] = heads[n]
      BY <1>0, <1>4, <3>1 DEF GrantOK
    <3> QED
      BY <1>0, <3>1, <3>2 DEF GrantOK, GrantsIn, Below, NoFuture, MaterialOf
  <2> QED
    BY <1>0, <2>1 DEF GrantsOK, Grants, GrantsIn
<1>11. \A j \in Joiners : JoinerOK(j)'
  BY <1>0 DEF IInv, JoinerOK, Has, GrantsIn, MaterialOf
<1>12. \A j \in Joiners : RemovedOK(j)'
  <2> TAKE j \in Joiners
  <2>0. RemovedOK(j)
    BY DEF IInv
  <2>1. ASSUME removedAt[j] < MaxHeads, NEW n \in (removedAt[j] + 1)..Len(heads'), heads'[n].by = Admin, Has(j)
        PROVE  heads'[n].seed = NoKey \/ Below(epochFile[j], heads'[n].seed)
    <3>0. removedAt[j] \in Nat
      BY <1>0 DEF TypeOK
    <3>1. CASE n \in (removedAt[j] + 1)..Len(heads)
      <4>1. n \in 1..Len(heads)
        BY <1>0, <3>0, <3>1
      <4> QED
        BY <1>4, <2>0, <2>1, <3>1, <4>1 DEF RemovedOK
    <3>2. CASE n = Len(heads) + 1
      <4>1. m = Admin /\ heads'[n] = h
        BY <1>3, <1>4, <2>1, <3>2
      <4>2. Below(epochFile[j], mat.transport) /\ mat.transport <= mat.token
        BY <2>0, <2>1, <4>1 DEF RemovedOK, IInv, AdminOK, mat
      <4>3. epochFile[j] \in Material /\ mat.transport \in Nat /\ mat.token \in Nat
        BY <1>1, <2>1, MemberOK DEF Members, Material, Key
      <4>4. Below(epochFile[j], mat.token)
        BY <4>2, <4>3, BelowLater
      <4> QED
        BY <1>3, <4>1, <4>4
    <3> QED
      BY <1>0, <1>4, <3>0, <3>1, <3>2
  <2> QED
    BY <1>0, <2>0, <2>1 DEF RemovedOK, Has, Below
<1> QED
  BY <1>5, <1>7, <1>8, <1>9, <1>10, <1>11, <1>12 DEF IInv

\* Every step keeps the invariant.
LEMMA NextIInv == IInv /\ [Next]_vars => IInv'
<1> SUFFICES ASSUME IInv, [Next]_vars PROVE IInv'
  OBVIOUS
<1>1. CASE UNCHANGED vars
  <2>1. /\ UNCHANGED <<epochFile, queue, heads, fresh>>
        /\ UNCHANGED <<keystore, acl, op, cursor, inbox, removedAt, plain>>
    BY <1>1 DEF vars
  <2>2. OpOK' /\ \A j \in Joiners : RemovedOK(j)'
    BY <2>1 DEF IInv, OpOK, RemovedOK, GrantsIn, Below, MaterialOf, Has
  <2> QED
    BY <2>1, <2>2, SameKeys DEF IInv, TypeOK
<1>2. CASE AdminStep
  BY <1>2, InviteIInv, AclIInv, RotateFailIInv, SaveMaterialIInv, PersistGroupIInv, EnqueueGrantIInv
     DEF AdminStep
<1> QED
  BY <1>1, <1>2, AcceptWelcomeIInv, SealIInv, CommentIInv, SyncInboxIInv DEF Next

\* The invariant holds of every reachable state.
THEOREM Invariant == Spec => []IInv
BY InitIInv, NextIInv, PTL DEF Spec

\* The state keeps its types, for any numbers of members, epochs, keys, heads and messages.
THEOREM TypeCorrect == Spec => []TypeOK
<1>1. IInv => TypeOK
  BY DEF IInv
<1> QED
  BY <1>1, Invariant, PTL

\* The epochs of the log never decrease (HeadEpochsNeverDecrease): fork comparison orders
\* heads by it (chain_internally_valid in fork.rs).
THEOREM EpochsOrdered == Spec => []HeadEpochsNeverDecrease
<1>1. IInv => HeadEpochsNeverDecrease
  BY DEF IInv, HeadsOK
<1> QED
  BY <1>1, Invariant, PTL

\* A removed member opens no head that the admin seals once remove-member is done
\* (RepoCmd::RemoveMember).
THEOREM RemovalSafe == Spec => []RemovalRekeys
<1>1. IInv => RemovalRekeys
  <2> SUFFICES ASSUME IInv, NEW j \in Joiners, Has(j), NEW n \in (removedAt[j] + 1)..Len(heads),
                      heads[n].by = Admin, Opens(epochFile[j], heads[n])
               PROVE  FALSE
    BY DEF RemovalRekeys
  <2>0. TypeOK /\ RemovedOK(j)
    BY DEF IInv
  <2>1. TypeOK /\ RemovedOK(j) /\ Len(heads) \in Nat /\ Len(heads) <= MaxHeads /\ removedAt[j] \in Nat
    <3>1. Len(heads) \in Nat /\ Len(heads) <= MaxHeads
      BY <2>0 DEF TypeOK
    <3>2. removedAt[j] \in Nat
      BY <2>0 DEF TypeOK
    <3> QED
      BY <2>0, <3>1, <3>2
  <2>2. n \in 1..Len(heads) /\ removedAt[j] < MaxHeads
    BY <2>1
  <2>3. heads[n].seed # NoKey /\ heads[n].epoch \in Epochs /\ heads[n].seed \in Nat
    BY <2>1, <2>2, Numbers DEF Opens
  <2>4. Below(epochFile[j], heads[n].seed)
    BY <2>1, <2>2, <2>3 DEF RemovedOK
  <2>5. heads[n].seed = KeyOf(epochFile[j], heads[n].epoch)
    BY <2>3, SeedAtIs DEF Opens
  <2> QED
    BY <2>3, <2>4, <2>5 DEF Below, KeyOf
<1> QED
  BY <1>1, Invariant, PTL

\* The grant that a joiner's material came from is the one it was made of.
LEMMA CameFrom ==
  ASSUME IInv, NEW j \in Joiners, NEW i \in 1..Len(queue), Came(j, i)
  PROVE  i \in Grants /\ epochFile[j] = MaterialOf(queue[i])
<1>1. i \in Grants /\ Has(j) /\ epochFile[j].transport = queue[i].key
  BY DEF Came, Grants, GrantsIn
<1>2. PICK k \in Grants : epochFile[j] = MaterialOf(queue[k])
  BY <1>1 DEF IInv, JoinerOK, Grants
<1>3. queue[k].key = queue[i].key
  BY <1>1, <1>2 DEF MaterialOf
<1>4. GrantOK(i) /\ GrantOK(k)
  BY <1>1 DEF IInv, GrantsOK, Grants
<1>5. i \in Nat /\ k \in Nat /\ queue[i].key \in Nat /\ queue[k].key \in Nat
  BY <1>1, GrantType DEF IInv, Key
<1>6. ~(i < k) /\ ~(k < i)
  BY <1>1, <1>3, <1>4, <1>5 DEF GrantOK, Grants
<1>7. i = k
  BY <1>5, <1>6
<1> QED
  BY <1>1, <1>2, <1>7

\* A forward-only member opens no head sealed before its grant
\* (invite_member_mls_with_graft, backward_block).
THEOREM ForwardOnlySafe == Spec => []ForwardOnlyWindow
<1>1. IInv => ForwardOnlyWindow
  <2> SUFFICES ASSUME IInv, NEW j \in Joiners, NEW i \in 1..Len(queue), Came(j, i),
                      queue[i].history = "forward_only", NEW n \in 1..queue[i].upto,
                      Opens(epochFile[j], heads[n])
               PROVE  FALSE
    BY DEF ForwardOnlyWindow
  <2> DEFINE g == queue[i]
  <2>1. i \in Grants /\ epochFile[j] = MaterialOf(g) /\ GrantOK(i) /\ TypeOK
    BY CameFrom DEF IInv, GrantsOK, Grants
  <2>2. g.upto \in Nat /\ n \in 1..Len(heads) /\ g.token \in Nat
    <3>1. g.upto \in Nat /\ g.token \in Nat
      BY <2>1, GrantType DEF Key
    <3>2. g.upto <= Len(heads) /\ Len(heads) \in Nat
      BY <2>1, Numbers DEF GrantOK
    <3> QED
      BY <3>1, <3>2
  <2>3. g.prior = NoPrior /\ heads[n].seed < g.token
    BY <2>1 DEF GrantOK
  <2>4. heads[n].seed # NoKey /\ heads[n].epoch \in Epochs /\ heads[n].seed \in Nat
    BY <2>1, <2>2, Numbers DEF Opens
  <2>5. heads[n].seed = KeyOf(MaterialOf(g), heads[n].epoch)
    BY <2>1, <2>4, SeedAtIs DEF Opens
  <2>6. KeyOf(MaterialOf(g), heads[n].epoch) \in {g.token, NoKey}
    <3>1. MaterialOf(g).prior = NoPrior /\ MaterialOf(g).token = g.token
      BY <2>3 DEF MaterialOf
    <3> QED
      BY <2>4, <3>1 DEF KeyOf, NoPrior
  <2> QED
    BY <2>2, <2>3, <2>4, <2>5, <2>6
<1> QED
  BY <1>1, Invariant, PTL

-----------------------------------------------------------------------------
\* Within the capacity of a segment a material that starts at epoch 0 derives every key it has.
LEMMA SeedAtAll ==
  ASSUME MaxEpoch < SegmentCapacity, NEW mat \in Material, mat.from = 0, NEW e \in Epochs
  PROVE  SeedAt(mat, e) = KeyOf(mat, e)
<1>1. mat.epoch \in Epochs
  BY DEF Material
<1> QED
  BY <1>1 DEF SeedAt, Advance, DeriveEpochKey, KeyOf, Epochs

\* A step that leaves the admin's material, the queue, the heads and the keystore alone.
LEMMA PlainSame ==
  ASSUME PlainOK, UNCHANGED <<keystore, queue, heads>>, epochFile'[Admin] = epochFile[Admin],
         plain' => plain /\ op'.history = "full" /\ (op'.pc = "persist" \/ op.pc # "persist")
  PROVE  PlainOK'
BY DEF PlainOK, GrantsIn, KeyOf

\* Commands that begin, or are cut off, touch no key.
LEMMA CommandPlain ==
  ASSUME IInv, PlainOK,
         Rotate \/ Fail \/ \E j \in Joiners : RemoveMember(j) \/ ApplyAccess(j)
                                              \/ \E h \in {"full", "forward_only"} : Invite(j, h)
  PROVE  PlainOK'
<1>1. UNCHANGED <<keystore, queue, heads>> /\ epochFile'[Admin] = epochFile[Admin]
  BY DEF Rotate, Fail, RemoveMember, ApplyAccess, Invite
<1>2. ASSUME plain'
      PROVE  plain /\ op'.history = "full" /\ (op'.pc = "persist" \/ op.pc # "persist")
  <2>1. CASE Rotate
    BY <1>2, <2>1, IdleOpIs DEF Rotate, OpType
  <2>2. CASE Fail
    BY <1>2, <2>2, IdleOpIs DEF Fail
  <2>3. ASSUME NEW j \in Joiners, RemoveMember(j) PROVE plain /\ op'.history = "full" /\ op.pc # "persist"
    BY <1>2, <2>3, IdleOpIs DEF RemoveMember, OpType
  <2>4. ASSUME NEW j \in Joiners, ApplyAccess(j) PROVE plain /\ op'.history = "full" /\ op.pc # "persist"
    BY <1>2, <2>4 DEF ApplyAccess, PlainOK
  <2>5. ASSUME NEW j \in Joiners, NEW h \in {"full", "forward_only"}, Invite(j, h)
        PROVE  plain /\ op'.history = "full" /\ op.pc # "persist"
    BY <1>2, <2>5, IdleOpIs DEF Invite, OpType
  <2> QED
    BY <2>1, <2>2, <2>3, <2>4, <2>5
<1> QED
  BY <1>1, <1>2, PlainSame

\* A commit while invites are full keeps the key of every epoch so far.
LEMMA SaveMaterialPlain ==
  ASSUME IInv, PlainOK, SaveMaterial
  PROVE  PlainOK'
<1> SUFFICES ASSUME plain PROVE PlainOK'
  BY DEF SaveMaterial, PlainOK
<1> DEFINE A == epochFile[Admin]
           e == keystore.epoch + 1
           P == [A.prior EXCEPT ![A.epoch] = A.transport]
           B == [epoch |-> e, transport |-> fresh, token |-> fresh, from |-> 0, prior |-> P]
<1>0. /\ TypeOK /\ AdminOK /\ A \in Material /\ Admin \in Members /\ op.pc = "commit"
      /\ A.token = A.transport /\ op.history = "full" /\ A.epoch = keystore.epoch
      /\ keystore.epoch \in Nat /\ A.epoch \in Epochs /\ e <= MaxEpoch /\ fresh \in Nat /\ fresh # NoKey
  <2>1. TypeOK /\ AdminOK /\ A \in Material /\ Admin \in Members
    BY DEF IInv, AdminOK, Members
  <2>2. fresh \in Nat /\ fresh # NoKey
    BY <2>1 DEF TypeOK, NoKey
  <2>3. op.pc = "commit" /\ e <= MaxEpoch
    BY DEF SaveMaterial
  <2>4. A.epoch \in Epochs
    BY <2>1 DEF Material
  <2> QED
    BY <2>1, <2>2, <2>3, <2>4, Numbers DEF PlainOK
<1>1. A.epoch # e /\ e \in Epochs
  BY <1>0 DEF Epochs
<1>2. NextMaterial(A, e, fresh, fresh) = B
  BY <1>0, <1>1, NextMaterialIs
<1>3. epochFile'[Admin] = B
  BY <1>0, <1>2 DEF SaveMaterial, TypeOK
<1>4. /\ UNCHANGED <<keystore, queue, heads, plain>>
      /\ op'.pc = "persist" /\ op'.history = "full"
  <2>1. op \in OpType
    BY <1>0, Numbers
  <2> QED
    BY <1>0, <2>1 DEF SaveMaterial, OpType
<1>5. /\ B.epoch = e /\ B.token = fresh /\ B.transport = fresh
      /\ \A x \in Epochs : x <= A.epoch => KeyOf(B, x) = KeyOf(A, x)
      /\ KeyOf(B, e) = fresh
  <2>1. B.epoch = e /\ B.token = fresh /\ B.transport = fresh /\ B.prior = P
    OBVIOUS
  <2>2. A.prior \in [Epochs -> Key \cup {NoKey}]
    BY <1>0 DEF Material
  <2>3. \A x \in Epochs : P[x] = IF x = A.epoch THEN A.token ELSE A.prior[x]
    BY <1>0, <2>2
  <2>4. \A x \in Epochs : x <= A.epoch => x # e
    BY <1>0 DEF Epochs
  <2> HIDE DEF B, A, P, e
  <2> QED
    BY <2>1, <2>3, <2>4 DEF KeyOf
<1>6. /\ \A x \in Epochs : x <= e => x <= A.epoch \/ x = e
      /\ \A x \in Epochs : x <= A.epoch => x <= e
  BY <1>0 DEF Epochs
<1> HIDE DEF B, e
<1>7. \A x \in Epochs : x <= e => KeyOf(B, x) # NoKey
  BY <1>0, <1>5, <1>6 DEF PlainOK
<1>8. \A n \in 1..Len(heads) : heads[n].epoch <= e /\ heads[n].seed = KeyOf(B, heads[n].epoch)
  <2>1. \A n \in 1..Len(heads) : heads[n].epoch \in Epochs
    BY <1>0, Numbers
  <2> QED
    BY <1>5, <1>6, <2>1 DEF PlainOK
<1>9. \A i \in Grants :
        /\ queue[i].from = 0 /\ queue[i].epoch <= e
        /\ \A x \in Epochs : x <= queue[i].epoch => KeyOf(MaterialOf(queue[i]), x) = KeyOf(B, x)
        /\ \A n \in 1..queue[i].upto : heads[n].epoch <= queue[i].epoch
  <2> TAKE i \in Grants
  <2>1. /\ queue[i].epoch \in Epochs /\ queue[i].from = 0 /\ queue[i].epoch <= A.epoch
        /\ \A x \in Epochs : x <= queue[i].epoch => KeyOf(MaterialOf(queue[i]), x) = KeyOf(A, x)
        /\ \A n \in 1..queue[i].upto : heads[n].epoch <= queue[i].epoch
    BY <1>0, GrantType DEF PlainOK, Grants
  <2>2. \A x \in Epochs : x <= queue[i].epoch => x <= A.epoch
    BY <1>0, <2>1 DEF Epochs
  <2> QED
    BY <1>5, <1>6, <2>1, <2>2
<1> HIDE DEF A
<1> QED
  BY <1>3, <1>4, <1>5, <1>7, <1>8, <1>9 DEF PlainOK, Grants, GrantsIn, KeyOf

\* The group state catches up with epoch.json.
LEMMA PersistGroupPlain ==
  ASSUME IInv, PlainOK, PersistGroup
  PROVE  PlainOK'
<1>1. /\ UNCHANGED <<epochFile, queue, heads, plain>> /\ op.pc = "persist"
      /\ keystore'.epoch = op.epoch /\ epochFile[Admin].epoch = op.epoch
  BY DEF PersistGroup, IInv, OpOK
<1>2. plain => op'.history = "full"
  BY IdleOpIs, Numbers DEF IInv, PersistGroup, PlainOK, OpType
<1> QED
  BY <1>1, <1>2 DEF PlainOK, GrantsIn, KeyOf

\* A full grant carries the keys the admin has.
LEMMA EnqueueGrantPlain ==
  ASSUME IInv, PlainOK, EnqueueGrant
  PROVE  PlainOK'
<1> SUFFICES ASSUME plain PROVE PlainOK'
  BY DEF EnqueueGrant, PlainOK
<1> DEFINE A == epochFile[Admin]
           g == [kind |-> "welcome", to |-> op.to, history |-> "full", from |-> 0, token |-> A.token,
                 epoch |-> op.epoch, key |-> op.key, prior |-> A.prior, upto |-> Len(heads)]
<1>0. /\ TypeOK /\ op.pc = "enqueue" /\ op.history = "full" /\ Len(queue) < MaxQueue
      /\ A \in Material /\ op.epoch = A.epoch /\ A.epoch = keystore.epoch /\ op.key = A.transport
      /\ op.to \in Joiners /\ Len(heads) \in 0..MaxHeads /\ op \in OpType
  <2>1. TypeOK /\ op.pc = "enqueue" /\ Len(queue) < MaxQueue /\ OpOK /\ AdminOK
    BY DEF IInv, EnqueueGrant
  <2>2. op \in OpType /\ Len(heads) \in 0..MaxHeads
    BY <2>1, Numbers DEF TypeOK
  <2> QED
    BY <2>1, <2>2 DEF OpOK, AdminOK, PlainOK, OpType
<1>1. Grant(A) = g
  BY <1>0 DEF Grant
<1>2. g \in Message /\ g.kind = "welcome" /\ g.from = 0 /\ g.epoch = A.epoch /\ g.upto = Len(heads)
      /\ MaterialOf(g).epoch = A.epoch /\ MaterialOf(g).token = A.token /\ MaterialOf(g).prior = A.prior
  <2>1. /\ A.token \in Key /\ A.transport \in Key /\ A.prior \in [Epochs -> Key \cup {NoKey}]
        /\ A.epoch \in Epochs /\ 0 \in Epochs
    BY <1>0 DEF Material, Epochs
  <2> HIDE DEF A
  <2> QED
    BY <1>0, <2>1 DEF Message, MaterialOf
<1>3. \A x \in Epochs : KeyOf(MaterialOf(g), x) = KeyOf(A, x)
  BY <1>2 DEF KeyOf
<1>4. queue' = Append(queue, g) /\ UNCHANGED <<epochFile, keystore, heads, plain>> /\ op' = IdleOp
  BY <1>1 DEF EnqueueGrant
<1> HIDE DEF g
<1>5. PICK last \in Nat : last = Len(queue) + 1
  BY <1>0, Numbers
<1>6. /\ queue'[last] = g /\ (\A i \in Grants : queue'[i] = queue[i])
      /\ Grants' = Grants \cup {last}
  BY <1>0, <1>2, <1>4, <1>5, Enqueued
<1>7. \A i \in Grants' :
        /\ queue'[i].from = 0 /\ queue'[i].epoch <= A.epoch
        /\ \A x \in Epochs : x <= queue'[i].epoch => KeyOf(MaterialOf(queue'[i]), x) = KeyOf(A, x)
        /\ \A n \in 1..queue'[i].upto : heads[n].epoch <= queue'[i].epoch
  <2> TAKE i \in Grants'
  <2>1. CASE i \in Grants
    BY <1>6, <2>1 DEF PlainOK, Grants
  <2>2. CASE i = last
    <3>1. g.epoch <= A.epoch
      BY <1>0, <1>2 DEF Material, Epochs
    <3>2. \A n \in 1..g.upto : heads[n].epoch <= g.epoch
      BY <1>2 DEF PlainOK
    <3> QED
      BY <1>2, <1>3, <1>6, <2>2, <3>1, <3>2
  <2> QED
    BY <1>6, <2>1, <2>2
<1>8. op'.history = "full" /\ op'.pc = "idle"
  BY <1>4, IdleOpIs
<1> QED
  BY <1>0, <1>4, <1>7, <1>8 DEF PlainOK, Grants, KeyOf

\* A member of a plain history seals under the key the admin has for that epoch.
LEMMA SealPlain ==
  ASSUME MaxEpoch < SegmentCapacity, IInv, PlainOK, NEW m \in Members, Seal(m)
  PROVE  PlainOK'
<1> SUFFICES ASSUME plain PROVE PlainOK'
  BY DEF Seal, PlainOK
<1> DEFINE A == epochFile[Admin]
           mat == epochFile[m]
           h == [epoch |-> mat.epoch, by |-> m, seed |-> SeedAt(mat, mat.epoch)]
<1>0. /\ TypeOK /\ Has(m) /\ mat \in Material /\ mat.epoch \in Epochs /\ A \in Material /\ A.epoch \in Epochs
      /\ heads' = Append(heads, h) /\ Len(heads) \in Nat
      /\ UNCHANGED <<epochFile, keystore, queue, op, plain>>
  BY MemberOK, Numbers DEF IInv, Seal, AdminOK, Material
<1>1. mat.from = 0 /\ mat.epoch <= A.epoch /\ KeyOf(mat, mat.epoch) = KeyOf(A, mat.epoch)
  <2>1. CASE m = Admin
    BY <1>0, <2>1 DEF IInv, AdminOK, Epochs
  <2>2. CASE m \in Joiners
    <3>1. PICK i \in Grants : mat = MaterialOf(queue[i])
      BY <1>0, <2>2 DEF IInv, JoinerOK, Grants
    <3>2. mat.from = queue[i].from /\ mat.epoch = queue[i].epoch
      BY <3>1 DEF MaterialOf
    <3>3. mat.epoch <= queue[i].epoch
      BY <1>0, <3>2 DEF Epochs
    <3> QED
      BY <1>0, <3>1, <3>2, <3>3 DEF PlainOK, Grants
  <2> QED
    BY <2>1, <2>2 DEF Members
<1>2. h.seed = KeyOf(A, h.epoch) /\ h.epoch <= A.epoch
  <2>1. SeedAt(mat, mat.epoch) = KeyOf(mat, mat.epoch)
    BY <1>0, <1>1, SeedAtAll
  <2> QED
    BY <1>1, <2>1
<1> HIDE DEF h
<1>3. /\ Len(heads') = Len(heads) + 1 /\ heads'[Len(heads) + 1] = h
      /\ \A n \in 1..Len(heads) : heads'[n] = heads[n]
  <2>1. heads \in Seq(HeadType)
    BY <1>0 DEF TypeOK, HeadType
  <2> QED
    BY <1>0, <2>1
<1>4. \A n \in 1..Len(heads') : heads'[n].epoch <= A.epoch /\ heads'[n].seed = KeyOf(A, heads'[n].epoch)
  <2> TAKE n \in 1..Len(heads')
  <2>1. n \in 1..Len(heads) \/ n = Len(heads) + 1
    BY <1>0, <1>3
  <2> QED
    BY <1>2, <1>3, <2>1 DEF PlainOK
<1>5. \A i \in Grants : \A n \in 1..queue[i].upto : heads'[n] = heads[n]
  <2> TAKE i \in Grants
  <2>1. queue[i].upto \in Nat /\ queue[i].upto <= Len(heads)
    BY <1>0, GrantType DEF IInv, GrantsOK, GrantOK, Grants
  <2> QED
    BY <1>0, <1>3, <2>1
<1>6. \A i \in Grants :
        /\ queue[i].from = 0 /\ queue[i].epoch <= A.epoch
        /\ \A x \in Epochs : x <= queue[i].epoch => KeyOf(MaterialOf(queue[i]), x) = KeyOf(A, x)
        /\ \A n \in 1..queue[i].upto : heads'[n].epoch <= queue[i].epoch
  BY <1>5 DEF PlainOK, Grants
<1>7. UNCHANGED <<epochFile, keystore, queue, op, plain>>
  BY <1>0
<1>8. /\ A.token = A.transport /\ op.history = "full"
      /\ op.pc = "persist" \/ A.epoch = keystore.epoch
      /\ \A e \in Epochs : e <= A.epoch => KeyOf(A, e) # NoKey
  BY DEF PlainOK
<1> QED
  BY <1>4, <1>6, <1>7, <1>8 DEF PlainOK, Grants, GrantsIn, KeyOf

\* Every step of a plain behaviour keeps one key for each epoch.
LEMMA NextPlain ==
  ASSUME MaxEpoch < SegmentCapacity
  PROVE  IInv /\ PlainOK /\ [Next]_vars => PlainOK'
<1> SUFFICES ASSUME IInv, PlainOK, [Next]_vars PROVE PlainOK'
  OBVIOUS
<1>1. CASE UNCHANGED vars
  BY <1>1 DEF vars, PlainOK, GrantsIn, KeyOf
<1>2. CASE AdminStep
  BY <1>2, CommandPlain, SaveMaterialPlain, PersistGroupPlain, EnqueueGrantPlain DEF AdminStep
<1>3. ASSUME NEW j \in Joiners, AcceptWelcome(j)
      PROVE  PlainOK'
  <2>1. UNCHANGED <<keystore, queue, heads, op, plain>> /\ epochFile'[Admin] = epochFile[Admin]
    BY <1>3 DEF AcceptWelcome, IInv, TypeOK, Members
  <2> QED
    BY <2>1, PlainSame DEF PlainOK
<1>4. ASSUME NEW m \in Members, Comment(m)
      PROVE  PlainOK'
  <2> DEFINE msg == [kind |-> "collab", key |-> epochFile[m].transport]
  <2>0. /\ TypeOK /\ Has(m) /\ Len(queue) < MaxQueue /\ queue' = Append(queue, msg)
        /\ UNCHANGED <<epochFile, keystore, heads, op, plain>>
    BY <1>4 DEF IInv, Comment
  <2>1. msg \in Message /\ msg.kind = "collab"
    <3>1. epochFile[m].transport \in Key
      BY <2>0, MemberOK DEF Material
    <3> QED
      BY <3>1 DEF Message
  <2> HIDE DEF msg
  <2>2. Grants' = Grants /\ \A i \in Grants : queue'[i] = queue[i]
    BY <2>0, <2>1, Enqueued
  <2>3. plain => \A i \in Grants :
          /\ queue'[i].from = 0 /\ queue'[i].epoch <= epochFile[Admin].epoch
          /\ \A e \in Epochs : e <= queue'[i].epoch =>
               KeyOf(MaterialOf(queue'[i]), e) = KeyOf(epochFile[Admin], e)
          /\ \A n \in 1..queue'[i].upto : heads[n].epoch <= queue'[i].epoch
    BY <2>2 DEF PlainOK, Grants
  <2>4. plain =>
          /\ epochFile[Admin].token = epochFile[Admin].transport /\ op.history = "full"
          /\ op.pc = "persist" \/ epochFile[Admin].epoch = keystore.epoch
          /\ \A e \in Epochs : e <= epochFile[Admin].epoch => KeyOf(epochFile[Admin], e) # NoKey
          /\ \A n \in 1..Len(heads) : heads[n].epoch <= epochFile[Admin].epoch
                                      /\ heads[n].seed = KeyOf(epochFile[Admin], heads[n].epoch)
    BY DEF PlainOK
  <2>5. UNCHANGED <<epochFile, keystore, heads, op, plain>>
    BY <2>0
  <2> QED
    BY <2>2, <2>3, <2>4, <2>5 DEF PlainOK, Grants, KeyOf
<1>5. ASSUME NEW m \in Members, SyncInbox(m)
      PROVE  PlainOK'
  BY <1>5, PlainSame DEF SyncInbox, PlainOK
<1> QED
  BY <1>1, <1>2, <1>3, <1>4, <1>5, SealPlain DEF Next

\* The first key is that of the first epoch.
LEMMA InitPlain == Init => PlainOK
<1> SUFFICES ASSUME Init PROVE PlainOK
  OBVIOUS
<1>1. /\ epochFile[Admin] = [epoch |-> 0, transport |-> 1, token |-> 1, from |-> 0, prior |-> NoPrior]
      /\ keystore.epoch = 0 /\ heads = <<>> /\ queue = <<>> /\ op = IdleOp
  BY DEF Init, Members
<1>2. Grants = {} /\ \A e \in Epochs : e <= 0 => e = 0
  BY <1>1 DEF Grants, GrantsIn, Epochs
<1> QED
  BY <1>1, <1>2, IdleOpIs DEF PlainOK, KeyOf, NoKey, Grants

\* The two invariants together.
LEMMA PlainInvariant ==
  ASSUME MaxEpoch < SegmentCapacity
  PROVE  Spec => [](IInv /\ PlainOK)
<1>1. IInv /\ PlainOK /\ [Next]_vars => PlainOK'
  BY NextPlain
<1> QED
  BY <1>1, InitPlain, Invariant, PTL DEF Spec

\* Rotating and inviting orphan no head: while invites are full and no command is cut off
\* the admin opens every head there is, up to the capacity of a segment of the key
\* regression (prior_transport in EpochMaterial, DKR_SEGMENT_CAPACITY).
THEOREM NoOrphansSafe ==
  ASSUME MaxEpoch < SegmentCapacity
  PROVE  Spec => []NoOrphans
<1>1. IInv /\ PlainOK => NoOrphans
  <2> SUFFICES ASSUME IInv, PlainOK, plain, NEW n \in 1..Len(heads)
               PROVE  Opens(epochFile[Admin], heads[n])
    BY DEF NoOrphans
  <2> DEFINE A == epochFile[Admin]
  <2>1. heads[n].epoch \in Epochs /\ A \in Material /\ A.from = 0
    BY Numbers DEF IInv, AdminOK
  <2>2. heads[n].seed = KeyOf(A, heads[n].epoch) /\ KeyOf(A, heads[n].epoch) # NoKey
    BY <2>1 DEF PlainOK
  <2>3. SeedAt(A, heads[n].epoch) = KeyOf(A, heads[n].epoch)
    BY <2>1, SeedAtAll
  <2> QED
    BY <2>2, <2>3 DEF Opens
<1> QED
  BY <1>1, PlainInvariant, PTL

\* Under the same condition who joined with a full grant opens every head sealed before it
\* (the retained window of the WelcomeGrant).
THEOREM FullGrantSafe ==
  ASSUME MaxEpoch < SegmentCapacity
  PROVE  Spec => []FullGrantReadsAll
<1>1. IInv /\ PlainOK => FullGrantReadsAll
  <2> SUFFICES ASSUME IInv, PlainOK, plain, NEW j \in Joiners, NEW i \in 1..Len(queue), Came(j, i),
                      NEW n \in 1..queue[i].upto
               PROVE  Opens(epochFile[j], heads[n])
    BY DEF FullGrantReadsAll
  <2> DEFINE mat == MaterialOf(queue[i])
             A == epochFile[Admin]
  <2>1. i \in Grants /\ epochFile[j] = mat /\ GrantOK(i) /\ TypeOK
    BY CameFrom DEF IInv, GrantsOK, Grants
  <2>2. n \in 1..Len(heads) /\ mat \in Material /\ queue[i].epoch \in Epochs
    <3>1. queue[i].upto \in Nat /\ mat \in Material /\ queue[i].epoch \in Epochs
      BY <2>1, GrantType
    <3>2. queue[i].upto <= Len(heads) /\ Len(heads) \in Nat
      BY <2>1, Numbers DEF GrantOK
    <3> QED
      BY <3>1, <3>2
  <2>3. mat.from = queue[i].from /\ mat.epoch = queue[i].epoch
    BY DEF MaterialOf
  <2> HIDE DEF mat
  <2>4. heads[n].epoch \in Epochs
    BY <2>1, <2>2, Numbers
  <2>5. /\ queue[i].from = 0 /\ heads[n].epoch <= queue[i].epoch /\ heads[n].epoch <= A.epoch
        /\ KeyOf(mat, heads[n].epoch) = KeyOf(A, heads[n].epoch)
        /\ heads[n].seed = KeyOf(A, heads[n].epoch)
    BY <2>1, <2>2, <2>4 DEF PlainOK, Grants, mat
  <2>6. KeyOf(A, heads[n].epoch) # NoKey
    BY <2>4, <2>5 DEF PlainOK
  <2>7. SeedAt(mat, heads[n].epoch) = KeyOf(mat, heads[n].epoch)
    BY <2>2, <2>3, <2>4, <2>5, SeedAtAll
  <2> QED
    BY <2>1, <2>5, <2>6, <2>7 DEF Opens
<1> QED
  BY <1>1, PlainInvariant, PTL
=============================================================================
