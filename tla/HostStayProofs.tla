--------------------------- MODULE HostStayProofs ---------------------------
(***************************************************************************)
(* The proof of AckedStay: what a request of the server was answered with, *)
(* and no other request overlapped, stays until it is changed, for every   *)
(* number of requests, kills and failed writes.                            *)
(***************************************************************************)
EXTENDS HostProofs

USE HostAssumption

\* What was asked, and under which number.
ArgOK(r) ==
    LET q == req[r] IN
    /\ q.op = "create" => q.arg \in RepoIds
    /\ q.op = "patch" => q.arg \in 1..2
    /\ q.op \in {"invite", "remove"} => q.arg \in Users
    /\ q.op \in IndexOps => q.arg[1] \in Lists /\ q.arg[2] \in Nat /\ q.arg = <<q.arg[1], q.arg[2]>>
    /\ q.pc # "idle" => q.no \in 1..made
ReqsOK ==
    /\ \A r \in Slots : ArgOK(r)
    /\ \A r, s \in Slots : r # s /\ req[r].pc # "idle" /\ req[s].pc # "idle" => req[r].no # req[s].no

\* The numbers of the requests that are past their load.
Used == (1..made) \ {req[r].no : r \in Pending}

ResourceOf(r) == Resource(req[r].op, req[r].arg)

\* A request that is alone has no rival under way.
AloneOK ==
    \A r, s \in Slots : r # s /\ Writing(r) /\ Writing(s) /\ req[r].alone =>
        ResourceOf(r) # ResourceOf(s)

\* Nobody else is writing the file that it writes.
MixOK == \A r \in Slots : req[r].pc = "fill" /\ req[r].alone => ~req[r].mixed

\* What the requests of a family are answered for.
Kinds == [repo |-> {"repo"}, members |-> {"member"}, queue |-> {"mls"}, blob |-> {"blob"},
          index |-> {"made", "state", "note"}, keys |-> {"keylog"}, accounts |-> {}]
KindsOK == \A k \in kept : k.item[1] \in Kinds[family]

-----------------------------------------------------------------------------
(* The directory *)

Rec == [id : RepoIds, desc : 0..2, deleted : BOOLEAN]

\* What is left to write of a record: its two files and, on creation, the access list.
NameW(rec) == <<NameFile, rec>>
IdW(rec) == <<IdFile(rec.id), rec>>
ListW == <<MembersFile, {Owner}>>
Left(rec) == {<<NameW(rec), IdW(rec)>>, <<NameW(rec), IdW(rec), ListW>>, <<IdW(rec)>>,
              <<IdW(rec), ListW>>, <<ListW>>}

\* A change of the record is under way; what is behind it is written, if it is alone.
RecordOK(r, rec) ==
    LET todo == req[r].todo IN
    /\ todo \in Left(rec)
    /\ req[r].alone =>
        /\ todo[1] # NameW(rec) => file[NameFile] = rec
        /\ todo[1] = ListW => file[IdFile(rec.id)] = rec

RepoOK ==
    /\ file[NameFile] \in {Absent, Unreadable} \cup Rec
    /\ \A r \in Slots : Writing(r) => \E rec \in Rec : RecordOK(r, rec)
    /\ \A k \in kept : /\ k.item = <<"repo", 0>> /\ k.val \in Rec
                       /\ file[NameFile] = k.val /\ file[IdFile(k.val.id)] = k.val
                       /\ \A r \in Slots : ~Writing(r)

-----------------------------------------------------------------------------
(* The queue and the key log: what was answered for is not written again. *)

MailOK ==
    /\ QueueOK
    /\ \A k \in kept : /\ k.item[2] \in Numbers /\ file[QueueFile(k.item[2])] = k.val
                       /\ \A r \in Slots : Writing(r) => Target(r) # QueueFile(k.item[2])

KeyWrites(no) ==
    {<<<<PackageFile("bin"), no>>, <<PackageFile("json"), no>>>>, <<<<PackageFile("json"), no>>>>}

\* What is left to write by a request for a key package, and by one for the log.
KeyWritesOK(r) ==
    IF req[r].op = "keylog" THEN req[r].todo = <<<<KeyLogFile(1), req[r].no>>>>
    ELSE req[r].todo \in KeyWrites(req[r].no)

KeysOK ==
    /\ \A r \in Slots : Writing(r) => KeyWritesOK(r)
    /\ \A k \in kept : /\ k.item = <<"keylog", 1>> /\ file[KeyLogFile(1)] = k.val
                       /\ \A r \in Slots : Writing(r) => req[r].op # "keylog"

-----------------------------------------------------------------------------
(* The access list and the index: a file that is loaded, changed and saved. *)

Saved == IF family = "members" THEN MembersFile ELSE IndexFile
Current == IF family = "members" THEN Members ELSE Index
ContentType == IF family = "members" THEN SUBSET Users ELSE IndexType

\* Contents that show what was answered.
Holds(k, v) ==
    LET x == k.item[2] IN
    /\ k.item[1] = "member" => (x \in v <=> k.val)
    /\ k.item[1] = "made" =>
        /\ \A l \in Lists : \A i \in Range(v[l].items) : i.by = x => <<l, i.id>> = k.val
        /\ \E l \in Lists : \E i \in Range(v[l].items) : i.by = x
    /\ k.item[1] = "state" => \E i \in Range(v[x[1]].items) : i.id = x[2] /\ i.state = k.val
    /\ k.item[1] = "note" => \E i \in Range(v[k.val[1]].items) : i.id = k.val[2] /\ x \in i.notes

\* Items are made by requests that have loaded.
MadeByUsed(v) ==
    family = "index" => \A l \in Lists : \A i \in Range(v[l].items) : i.by \in Used

Content(r) == req[r].todo[1][2]

\* A request that is about to save will show what it is answered with, and what others were.
SaveOK(r) ==
    /\ req[r].todo = <<<<Saved, Content(r)>>>>
    /\ Content(r) \in ContentType /\ MadeByUsed(Content(r))
    /\ \A k \in Sure(req[r], req[r].todo[1]) : Holds(k, Content(r))
    /\ \A k \in kept : Holds(k, Content(r))

\* What is answered.
KeptOK(k) ==
    LET x == k.item[2] IN
    /\ k.item = <<k.item[1], x>>
    /\ k.item[1] = "member" => k.val \in BOOLEAN
    /\ k.item[1] = "made" => x \in Used
    /\ k.item[1] = "state" => x[1] \in Lists /\ x = <<x[1], x[2]>>
    /\ k.item[1] = "note" => k.val[1] \in Lists

SavesOK ==
    /\ \A k \in kept : KeptOK(k)
    /\ file[Saved] # Unreadable =>
        /\ Current \in ContentType /\ MadeByUsed(Current)
        /\ \A k \in kept : Holds(k, Current)
    /\ \A r \in Slots : Writing(r) => SaveOK(r)

StayInv ==
    /\ Shape /\ ReqsOK /\ KindsOK /\ AloneOK
    /\ family = "repo" => MixOK /\ RepoOK
    /\ family = "queue" => MixOK /\ MailOK
    /\ family = "keys" => MixOK /\ KeysOK
    /\ family \in {"members", "index"} => SavesOK

-----------------------------------------------------------------------------
(* The steps of requests *)

\* Request s goes on, or is as it was, or is over.
Asked(s) == req'[s].op = req[s].op /\ req'[s].arg = req[s].arg /\ req'[s].no = req[s].no
Goes(s) ==
    /\ Asked(s) /\ (req'[s].pc # "idle" => req[s].pc # "idle")
    /\ req'[s].pc \in {"id", "member", "load"} => req[s].pc \in {"id", "member", "load"}
Stands(s) == req'[s] = req[s] \/ req'[s] = IdleReq
Quiet == \A s \in Slots : Stands(s) \/ (Goes(s) /\ req'[s].pc \notin {"begin", "fill"})

\* Request r knows what to write.
Loaded(r) ==
    /\ req[r].pc = "load" /\ req'[r].pc = "begin" /\ Asked(r)
    /\ req'[r].todo = Writes(req[r].op, req[r].arg, req[r].no) /\ req'[r].todo # Refuse
    /\ req'[r].alone => Rivals(r) = {}
    /\ \A s \in Slots \ {r} :
        /\ Asked(s) /\ req'[s].pc = req[s].pc /\ req'[s].todo = req[s].todo
        /\ req'[s].mixed = req[s].mixed
        /\ req'[s].alone => req[s].alone /\ s \notin Rivals(r)
    /\ kept' = {k \in kept : k.item \notin Decides(req[r].op, req[r].arg)}

\* Request r truncates its file.
Begun(r) ==
    /\ req[r].pc = "begin" /\ req'[r].pc = "fill" /\ kept' = kept
    /\ file' = [file EXCEPT ![Target(r)] = Unreadable]
    /\ req'[r].mixed => Overlaps(r) # {}
    /\ \A s \in Slots : Asked(s) /\ req'[s].todo = req[s].todo /\ req'[s].alone = req[s].alone
    /\ \A s \in Slots \ {r} :
        req'[s].pc = req[s].pc /\ (req'[s].mixed => req[s].mixed \/ s \in Overlaps(r))

\* Request r is done with a file, of which v is the contents, and goes on to the next one or
\* is answered.
Ended(r, v) ==
    /\ req[r].pc = "fill"
    /\ v = Head(req[r].todo)[2] \/ (req[r].mixed /\ v = Unreadable)
    /\ file' = [file EXCEPT ![Head(req[r].todo)[1]] = v]
Passed(r) ==
    /\ req[r].pc = "fill" /\ \A s \in Slots \ {r} : req'[s] = req[s]
    /\ \/ /\ Len(req[r].todo) > 1 /\ kept' = kept
          /\ Asked(r) /\ req'[r].alone = req[r].alone
          /\ req'[r].todo = Tail(req[r].todo) /\ req'[r].pc = "begin"
       \/ /\ ~(Len(req[r].todo) > 1) /\ req'[r] = IdleReq
          /\ kept' = kept \cup Sure(req[r], Head(req[r].todo))

\* A request that is done with a file goes on to the next, or is answered.
LEMMA AdvancePasses ==
  ASSUME Shape, NEW r \in Slots, req[r].pc = "fill", Advance(r)
  PROVE  Passed(r)
<1>1. Same(r, {"todo", "pc", "mixed"}) => Asked(r) /\ req'[r].alone = req[r].alone
  BY DEF Same, Keys, Asked
<1> QED
  BY <1>1, AdvanceIs DEF Passed, Others

\* All that a step can do.
LEMMA StepIs ==
  ASSUME Shape, [Next]_vars
  PROVE  \/ \E r \in Slots : Start(r)
         \/ UNCHANGED <<file, kept, made>> /\ Quiet
         \/ \E r \in Slots : Loaded(r) /\ UNCHANGED <<file, made>>
         \/ \E r \in Slots : Begun(r) /\ made' = made
         \/ \E r \in Slots : Passed(r) /\ made' = made /\ \E v : Ended(r, v)
         \/ \E r \in Slots : /\ Passed(r) /\ UNCHANGED <<file, made>> /\ req[r].op = "create"
                            /\ req[r].todo[1][1] = MembersFile
<1>1. CASE UNCHANGED <<file, req, made, kept>>
  BY <1>1 DEF Quiet, Stands
<1>2. ASSUME NEW r \in Slots, RequestStep(r) \/ WriteFails(r)
      PROVE  \/ Start(r)
             \/ UNCHANGED <<file, kept, made>> /\ Quiet
             \/ Loaded(r) /\ UNCHANGED <<file, made>>
             \/ Begun(r) /\ made' = made
             \/ Passed(r) /\ made' = made /\ \E v : Ended(r, v)
             \/ /\ Passed(r) /\ UNCHANGED <<file, made>> /\ req[r].op = "create"
                /\ req[r].todo[1][1] = MembersFile
  <2>1. CASE CheckId(r) \/ CheckMember(r)
    <3>1. /\ Others(r) /\ UNCHANGED <<file, made, kept>> /\ req[r].pc \in {"id", "member"}
          /\ \/ req'[r] = IdleReq
             \/ Same(r, {"pc"}) /\ req'[r].pc \in {"member", "load"}
      BY <2>1, CheckIs
    <3>2. Same(r, {"pc"}) => Asked(r)
      BY DEF Same, Keys, Asked
    <3> QED
      BY <3>1, <3>2 DEF Others, Quiet, Stands, Goes
  <2>2. CASE Load(r)
    <3>1. UNCHANGED <<file, made>> /\ req[r].pc = "load"
      BY <2>2, LoadIs
    <3>2. CASE Others(r) /\ req'[r] = IdleReq /\ kept' = kept
      BY <3>1, <3>2 DEF Others, Quiet, Stands
    <3>3. CASE /\ Same(r, {"pc", "todo", "alone", "seen"}) /\ req'[r].pc = "begin"
               /\ req'[r].todo = Writes(req[r].op, req[r].arg, req[r].no)
               /\ req'[r].todo # Refuse
               /\ req'[r].alone = (Rivals(r) = {})
               /\ \A s \in Slots \ {r} : /\ Same(s, {"alone"})
                                         /\ req'[s].alone => req[s].alone /\ s \notin Rivals(r)
               /\ kept' = {k \in kept : k.item \notin Decides(req[r].op, req[r].arg)}
      <4>1. Asked(r)
        BY <3>3 DEF Same, Keys, Asked
      <4>2. \A s \in Slots \ {r} : /\ Asked(s) /\ req'[s].pc = req[s].pc
                                  /\ req'[s].todo = req[s].todo /\ req'[s].mixed = req[s].mixed
        BY <3>3 DEF Same, Keys, Asked
      <4>3. req'[r].alone => Rivals(r) = {}
        BY <3>3
      <4> QED
        BY <3>1, <3>3, <4>1, <4>2, <4>3 DEF Loaded
    <3> QED
      BY <2>2, <3>2, <3>3, LoadIs
  <2>3. CASE BeginWrite(r)
    <3>1. /\ UNCHANGED <<made, kept>> /\ req[r].pc = "begin"
          /\ file' = [file EXCEPT ![Target(r)] = Unreadable]
          /\ Same(r, {"pc", "mixed"}) /\ req'[r].pc = "fill" /\ (req'[r].mixed => Overlaps(r) # {})
          /\ \A s \in Slots \ {r} :
               Same(s, {"mixed"}) /\ (req'[s].mixed => req[s].mixed \/ s \in Overlaps(r))
      BY <2>3, BeginIs
    <3>2. Asked(r) /\ req'[r].todo = req[r].todo /\ req'[r].alone = req[r].alone
      BY <3>1 DEF Same, Keys, Asked
    <3>3. \A s \in Slots \ {r} : /\ Asked(s) /\ req'[s].todo = req[s].todo
                                /\ req'[s].alone = req[s].alone /\ req'[s].pc = req[s].pc
      BY <3>1 DEF Same, Keys, Asked
    <3> QED
      BY <3>1, <3>2, <3>3 DEF Begun
  <2>4. CASE EndWrite(r)
    BY <2>4, EndIs, AdvancePasses DEF Ended
  <2>5. CASE WriteFails(r)
    <3>1. CASE req[r].op = "create" /\ req[r].todo[1][1] = MembersFile
      <4>1. UNCHANGED <<file, made>> /\ req[r].pc = "fill" /\ Advance(r)
        BY <2>5, <3>1 DEF WriteFails
      <4> QED
        BY <3>1, <4>1, AdvancePasses
    <3>2. CASE ~(req[r].op = "create" /\ req[r].todo[1][1] = MembersFile)
      <4>1. UNCHANGED <<file, made, kept>> /\ Finish(r)
        BY <2>5, <3>2 DEF WriteFails
      <4> QED
        BY <4>1, FinishIs DEF Others, Quiet, Stands
    <3> QED
      BY <3>1, <3>2
  <2>6. CASE ListQueue(r)
    <3>1. /\ Others(r) /\ UNCHANGED <<file, made, kept>> /\ req[r].pc = "load"
          /\ Same(r, {"pc", "seen"}) /\ req'[r].pc = "list"
      BY <2>6, ListIs
    <3>2. Asked(r)
      BY <3>1 DEF Same, Keys, Asked
    <3> QED
      BY <3>1, <3>2 DEF Others, Quiet, Stands, Goes
  <2>7. CASE Fetch(r)
    BY <2>7, FetchEnds DEF Others, Quiet, Stands
  <2> QED
    BY <1>2, <2>1, <2>2, <2>3, <2>4, <2>5, <2>6, <2>7 DEF RequestStep
<1>3. CASE Kill
  BY <1>3 DEF Kill, Quiet, Stands
<1> QED
  BY <1>1, <1>2, <1>3 DEF Next, vars, fileVars

\* A number is used for good.
LEMMA ReqsStep ==
  ASSUME Shape, ReqsOK, [Next]_vars
  PROVE  ReqsOK' /\ Used \subseteq Used'
<1>0. made \in Nat
  BY DEF Shape
<1>1. ASSUME made' = made, \A s \in Slots : Stands(s) \/ Goes(s)
      PROVE  ReqsOK' /\ Used \subseteq Used'
  <2>1. ASSUME NEW s \in Slots, req'[s].pc # "idle"
        PROVE  Asked(s) /\ req[s].pc # "idle" /\ (s \in Pending' => s \in Pending)
    BY <1>1, <2>1, IdleIs DEF Stands, Goes, Asked, Pending
  <2>2. ASSUME NEW s \in Slots  PROVE ArgOK(s)'
    <3>1. ArgOK(s)
      BY DEF ReqsOK
    <3>2. CASE req'[s] = IdleReq
      BY <3>2, IdleIs DEF ArgOK, IndexOps
    <3>3. CASE Asked(s) /\ (req'[s].pc # "idle" => req[s].pc # "idle")
      BY <1>1, <3>1, <3>3 DEF ArgOK, Asked
    <3> QED
      BY <1>1, <3>2, <3>3 DEF Stands, Goes, Asked
  <2>3. \A r, s \in Slots : r # s /\ req'[r].pc # "idle" /\ req'[s].pc # "idle" => req'[r].no # req'[s].no
    BY <2>1 DEF ReqsOK, Asked
  <2>4. \A s \in Pending' : s \in Slots /\ s \in Pending /\ req'[s].no = req[s].no
    BY <2>1 DEF Pending, Asked
  <2>5. Used \subseteq Used'
    BY <1>1, <2>4 DEF Used
  <2> QED
    BY <2>2, <2>3, <2>5 DEF ReqsOK
<1>2. ASSUME NEW r \in Slots, Start(r)
      PROVE  ReqsOK' /\ Used \subseteq Used'
  <2>0. PICK op \in Ops[family] : \E arg \in Args(op) :
          /\ req'[r].op = op /\ req'[r].arg = arg /\ req'[r].no = made + 1
          /\ req'[r].pc \in {"id", "member", "load"}
    BY <1>2, StartIs
  <2>1. PICK arg \in Args(op) :
          /\ req'[r].op = op /\ req'[r].arg = arg /\ req'[r].no = made + 1
          /\ req'[r].pc \in {"id", "member", "load"}
    BY <2>0
  <2>2. made' = made + 1 /\ \A s \in Slots \ {r} : req'[s] = req[s]
    BY <1>2, StartIs DEF Others
  <2>3. /\ op = "create" => arg \in RepoIds
        /\ op = "patch" => arg \in 1..2
        /\ op \in {"invite", "remove"} => arg \in Users
    BY DEF Args, IndexOps
  <2>4. op \in IndexOps => arg[1] \in Lists /\ arg[2] \in Nat /\ arg = <<arg[1], arg[2]>>
    BY DEF Args, IndexOps
  <2>5. ArgOK(r)'
    BY <1>0, <2>1, <2>2, <2>3, <2>4 DEF ArgOK
  <2>6. \A s \in Slots \ {r} : req[s].pc # "idle" => req[s].no \in 1..made
    BY DEF ReqsOK, ArgOK
  <2>7. ASSUME NEW s \in Slots \ {r}  PROVE ArgOK(s)'
    <3>1. ArgOK(s)
      BY DEF ReqsOK
    <3> QED
      BY <1>0, <2>2, <3>1 DEF ArgOK
  <2>8. ASSUME NEW s \in Slots, NEW u \in Slots, s # u, req'[s].pc # "idle", req'[u].pc # "idle"
        PROVE  req'[s].no # req'[u].no
    <3>1. CASE s = r
      BY <1>0, <2>1, <2>2, <2>6, <2>8, <3>1
    <3>2. CASE u = r
      BY <1>0, <2>1, <2>2, <2>6, <2>8, <3>2
    <3>3. CASE s # r /\ u # r
      BY <2>2, <2>8, <3>3 DEF ReqsOK
    <3> QED
      BY <3>1, <3>2, <3>3
  <2>9. Used \subseteq Used'
    <3> SUFFICES ASSUME NEW n \in Used PROVE n \in 1..(made + 1) /\ \A s \in Pending' : req'[s].no # n
      BY <2>2 DEF Used
    <3>1. n \in 1..made /\ \A s \in Pending : req[s].no # n
      BY DEF Used
    <3>2. \A s \in Pending' : s = r \/ (s \in Pending /\ req'[s] = req[s])
      BY <2>2 DEF Pending
    <3> QED
      BY <1>0, <2>1, <3>1, <3>2
  <2> QED
    BY <2>5, <2>7, <2>8, <2>9 DEF ReqsOK
<1>3. ASSUME NEW r \in Slots, Loaded(r) \/ Begun(r)
      PROVE  \A s \in Slots : Goes(s)
  BY <1>3 DEF Loaded, Begun, Goes
<1>4. ASSUME NEW r \in Slots, Passed(r)
      PROVE  \A s \in Slots : Stands(s) \/ Goes(s)
  BY <1>4 DEF Passed, Stands, Goes
<1>5. CASE made' = made /\ Quiet
  BY <1>1, <1>5 DEF Quiet
<1> QED
  BY <1>1, <1>2, <1>3, <1>4, <1>5, StepIs

\* Requests that go on writing stay alone when no other begins.
LEMMA AloneKept ==
  ASSUME AloneOK, \A s \in Slots : Writing(s)' => Writing(s) /\ Asked(s) /\ (req'[s].alone => req[s].alone)
  PROVE  AloneOK'
BY DEF AloneOK, ResourceOf, Asked

\* What the steps leave of the requests that are writing.
LEMMA WritingStep ==
  ASSUME Shape, NEW r \in Slots, Quiet \/ Start(r) \/ Begun(r) \/ Passed(r)
  PROVE  \A s \in Slots : Writing(s)' =>
            Writing(s) /\ Asked(s) /\ (req'[s].alone => req[s].alone)
<1>1. CASE Quiet
  BY <1>1, IdleIs DEF Quiet, Stands, Writing, Asked
<1>2. CASE Start(r)
  <2>1. Others(r) /\ req'[r].pc \in {"id", "member", "load"}
    BY <1>2, StartIs
  <2> QED
    BY <2>1 DEF Others, Writing, Asked
<1>3. CASE Begun(r)
  BY <1>3 DEF Begun, Writing
<1>4. CASE Passed(r)
  BY <1>4, IdleIs DEF Passed, Writing, Asked
<1> QED
  BY <1>1, <1>2, <1>3, <1>4

\* A rival that loads leaves no request alone, and is not alone itself.
LEMMA AloneStep ==
  ASSUME Shape, AloneOK, [Next]_vars
  PROVE  AloneOK'
<1>1. ASSUME NEW r \in Slots, Quiet \/ Start(r) \/ Begun(r) \/ Passed(r)
      PROVE  AloneOK'
  BY <1>1, WritingStep, AloneKept
<1>2. ASSUME NEW r \in Slots, Loaded(r)
      PROVE  AloneOK'
  <2> SUFFICES ASSUME NEW s \in Slots, NEW u \in Slots, s # u, Writing(s)', Writing(u)',
                      req'[s].alone
               PROVE  ResourceOf(s)' # ResourceOf(u)'
    BY DEF AloneOK
  <2>1. ASSUME NEW x \in Slots, x # r
        PROVE  /\ req'[x].op = req[x].op /\ req'[x].arg = req[x].arg
               /\ Writing(x)' => Writing(x)
    BY <1>2, <2>1 DEF Loaded, Writing, Asked
  <2>2. ASSUME NEW x \in Slots, x # r, req'[x].alone
        PROVE  req[x].alone /\ x \notin Rivals(r)
    BY <1>2, <2>2 DEF Loaded
  <2>r. req'[r].op = req[r].op /\ req'[r].arg = req[r].arg
    BY <1>2 DEF Loaded, Asked
  <2>b. req'[r].alone => Rivals(r) = {}
    BY <1>2 DEF Loaded
  <2>3. ASSUME NEW x \in Slots  PROVE ResourceOf(x)' = ResourceOf(x)
    <3>1. req'[x].op = req[x].op /\ req'[x].arg = req[x].arg
      BY <2>1, <2>r
    <3> QED
      BY <3>1 DEF ResourceOf, Resource, IndexOps
  <2>4. ASSUME NEW x \in Slots, x # r, Writing(x), x \notin Rivals(r)
        PROVE  ResourceOf(x) # ResourceOf(r)
    BY <2>4 DEF Rivals, ResourceOf
  <2>a. SUFFICES ResourceOf(s) # ResourceOf(u)
    BY <2>3
  <2>5. CASE s = r
    BY <2>1, <2>b, <2>4, <2>5
  <2>6. CASE u = r
    BY <2>1, <2>2, <2>4, <2>6
  <2>7. CASE s # r /\ u # r
    BY <2>1, <2>2, <2>7 DEF AloneOK
  <2> QED
    BY <2>5, <2>6, <2>7
<1>3. CASE Slots = {}
  BY <1>3 DEF AloneOK
<1> QED
  BY <1>1, <1>2, <1>3, StepIs

\* Where requests that write one file are rivals, writes of one that is alone do not mix.
LEMMA MixStep ==
  ASSUME Shape, AloneOK, MixOK, [Next]_vars,
         \A r, s \in Slots : Writing(r) /\ Writing(s) /\ Target(r) = Target(s) => ResourceOf(r) = ResourceOf(s)
  PROVE  MixOK'
<1>1. CASE Quiet
  BY <1>1, IdleIs DEF Quiet, Stands, MixOK
<1>2. ASSUME NEW r \in Slots, Start(r)  PROVE MixOK'
  <2>1. Others(r) /\ req'[r].pc \in {"id", "member", "load"}
    BY <1>2, StartIs
  <2> QED
    BY <2>1 DEF Others, MixOK
<1>3. ASSUME NEW r \in Slots, Loaded(r)  PROVE MixOK'
  BY <1>3 DEF Loaded, MixOK
<1>4. ASSUME NEW r \in Slots, Passed(r)  PROVE MixOK'
  BY <1>4, IdleIs DEF Passed, MixOK
<1>5. ASSUME NEW r \in Slots, Begun(r)  PROVE MixOK'
  <2>1. \A s \in Overlaps(r) : s \in Slots \ {r} /\ Writing(s) /\ Target(s) = Target(r)
    BY DEF Overlaps, Writing
  <2>2. Writing(r)
    BY <1>5 DEF Begun, Writing
  <2>3. \A s \in Overlaps(r) : ~req[r].alone /\ ~req[s].alone
    BY <2>1, <2>2 DEF AloneOK
  <2> QED
    BY <1>5, <2>3 DEF Begun, MixOK
<1> QED
  BY <1>1, <1>2, <1>3, <1>4, <1>5, StepIs

\* A request is answered about things of its family.
LEMMA SureKinds ==
  ASSUME Shape, NEW r \in Slots, req[r].pc # "idle", NEW last, NEW k \in Sure(req[r], last)
  PROVE  k.item[1] \in Kinds[family]
<1>1. req[r].op \in Ops[family] /\ family \in DOMAIN Ops
  BY DEF Shape
<1>2. /\ req[r].op \in {"create", "patch", "delete"} => k.item[1] = "repo"
      /\ req[r].op \in {"invite", "remove"} => k.item[1] = "member"
      /\ req[r].op = "enqueue" => k.item[1] = "mls"
  BY DEF Sure
<1>3. /\ req[r].op = "put" => k.item[1] = "blob"
      /\ req[r].op \in IndexOps => k.item[1] \in {"made", "state", "note"}
      /\ req[r].op = "keylog" => k.item[1] = "keylog"
  BY DEF Sure, IndexOps
<1>4. req[r].op \notin {"fetch", "keypackage"}
  BY DEF Sure
<1>5. family \in {"repo", "members", "queue", "blob", "index", "keys", "accounts"}
  BY <1>1 DEF Ops
<1> QED
  BY <1>1, <1>2, <1>3, <1>4, <1>5 DEF Ops, Kinds

\* Nothing is answered for that is not of the family.
LEMMA KindsStep ==
  ASSUME Shape, KindsOK, [Next]_vars
  PROVE  KindsOK'
<1>1. family' = family
  BY DEF Next, Kill, vars, fileVars
<1>2. ASSUME NEW r \in Slots, Passed(r)  PROVE KindsOK'
  BY <1>1, <1>2, SureKinds DEF Passed, KindsOK
<1>3. CASE kept' \subseteq kept
  BY <1>1, <1>3 DEF KindsOK
<1>4. ASSUME NEW r \in Slots, Start(r) \/ Loaded(r) \/ Begun(r)  PROVE kept' \subseteq kept
  BY <1>4 DEF Start, Loaded, Begun
<1> QED
  BY <1>2, <1>3, <1>4, StepIs

-----------------------------------------------------------------------------
(* The directory *)

\* The record is in two files, by name and by id, and the access list in a third.
LEMMA RepoFiles ==
  /\ NameFile \in FileNames /\ MembersFile \in FileNames /\ NameFile # MembersFile
  /\ \A i \in RepoIds : IdFile(i) \in FileNames
  /\ \A i : IdFile(i) # NameFile /\ IdFile(i) # MembersFile
BY DEF FileNames, NameFile, MembersFile, IdFile

\* All requests on the directory are for one resource.
LEMMA RepoOps ==
  ASSUME Shape, family = "repo", NEW r \in Slots, req[r].pc # "idle"
  PROVE  req[r].op \in {"create", "patch", "delete"} /\ ResourceOf(r) = <<"repo", 0>>
<1>1. req[r].op \in Ops[family]
  BY DEF Shape
<1>2. req[r].op \in {"create", "patch", "delete"}
  BY <1>1 DEF Ops
<1> QED
  BY <1>2 DEF ResourceOf, Resource, IndexOps

\* All changes of the directory are in each other's way.
LEMMA RepoRival ==
  ASSUME Shape, AloneOK, family = "repo", NEW r \in Slots, NEW s \in Slots, r # s,
         Writing(r), Writing(s)
  PROVE  ~req[r].alone /\ ~req[s].alone
<1>1. ResourceOf(r) = ResourceOf(s)
  BY RepoOps DEF Writing
<1> QED
  BY <1>1 DEF AloneOK

\* The files of a record are written in order.
LEMMA LeftIs ==
  ASSUME NEW rec \in Rec, NEW todo \in Left(rec)
  PROVE  /\ Head(todo) = todo[1] /\ todo[1] \in {NameW(rec), IdW(rec), ListW}
         /\ todo[1] = NameW(rec) => /\ Len(todo) > 1 /\ Tail(todo) \in Left(rec)
                                    /\ Tail(todo)[1] = IdW(rec)
         /\ todo[1] = IdW(rec) /\ Len(todo) > 1 => Tail(todo) \in Left(rec) /\ Tail(todo)[1] = ListW
         /\ todo[1] = ListW => ~(Len(todo) > 1)
         /\ NameW(rec) # IdW(rec) /\ NameW(rec) # ListW /\ IdW(rec) # ListW
<1>1. NameW(rec) # IdW(rec) /\ NameW(rec) # ListW /\ IdW(rec) # ListW
  BY RepoFiles DEF NameW, IdW, ListW
<1>2. CASE todo = <<NameW(rec), IdW(rec)>>
  BY <1>1, <1>2 DEF Left
<1>3. CASE todo = <<NameW(rec), IdW(rec), ListW>>
  BY <1>1, <1>3 DEF Left
<1>4. CASE todo = <<IdW(rec)>>
  BY <1>1, <1>4 DEF Left
<1>5. CASE todo = <<IdW(rec), ListW>>
  BY <1>1, <1>5 DEF Left
<1>6. CASE todo = <<ListW>>
  BY <1>1, <1>6 DEF Left
<1> QED
  BY <1>2, <1>3, <1>4, <1>5, <1>6 DEF Left

\* A pair and a third make a triple.
LEMMA Triple ==
  ASSUME NEW x, NEW y, NEW z
  PROVE  <<x, y>> \o <<z>> = <<x, y, z>>
<1>1. PICK S : x \in S /\ y \in S /\ z \in S
  <2>1. x \in {x, y, z} /\ y \in {x, y, z} /\ z \in {x, y, z}
    OBVIOUS
  <2> QED
    BY <2>1
<1>2. PICK s, t : s = <<x, y>> \o <<z>> /\ t = <<x, y, z>>
  OBVIOUS
<1>3. <<x, y>> \in Seq(S) /\ <<z>> \in Seq(S) /\ t \in Seq(S) /\ Len(t) = 3
  BY <1>1, <1>2
<1>4. s \in Seq(S) /\ Len(s) = 3
  BY <1>2, <1>3
<1>5. s[1] = x /\ s[2] = y /\ s[3] = z
  BY <1>2, <1>3
<1>6. t[1] = x /\ t[2] = y /\ t[3] = z
  BY <1>2
<1>7. s = t
  BY <1>3, <1>4, <1>5, <1>6
<1> QED
  BY <1>2, <1>7

\* A request on the directory writes a record, all of it.
LEMMA DirectoryIs ==
  ASSUME Shape, family = "repo", file[NameFile] \in {Absent, Unreadable} \cup Rec,
         NEW r \in Slots, req[r].pc # "idle", ArgOK(r),
         Writes(req[r].op, req[r].arg, req[r].no) # Refuse
  PROVE  \E rec \in Rec : /\ Writes(req[r].op, req[r].arg, req[r].no) \in Left(rec)
                          /\ Writes(req[r].op, req[r].arg, req[r].no)[1] = NameW(rec)
<1> DEFINE op == req[r].op
           arg == req[r].arg
           old == file[NameFile]
<1>1. op \in {"create", "patch", "delete"}
  BY RepoOps
<1>2. Writes(op, arg, req[r].no) = DirectoryWrites(op, arg)
  BY <1>1 DEF Writes, IndexOps
<1>3. ASSUME NEW rec \in Rec, \/ DirectoryWrites(op, arg) = RecordWrites(rec)
                             \/ DirectoryWrites(op, arg) = RecordWrites(rec) \o <<<<MembersFile, {Owner}>>>>
      PROVE  DirectoryWrites(op, arg) \in Left(rec) /\ DirectoryWrites(op, arg)[1] = NameW(rec)
  <2>1. RecordWrites(rec) = <<NameW(rec), IdW(rec)>>
    BY DEF RecordWrites, NameW, IdW
  <2>2. RecordWrites(rec) \o <<<<MembersFile, {Owner}>>>> = <<NameW(rec), IdW(rec), ListW>>
    BY <2>1, Triple DEF ListW
  <2>3. PICK d : d = DirectoryWrites(op, arg)
    OBVIOUS
  <2>4. d = <<NameW(rec), IdW(rec)>> \/ d = <<NameW(rec), IdW(rec), ListW>>
    BY <1>3, <2>1, <2>2, <2>3
  <2>5. d \in Left(rec) /\ d[1] = NameW(rec)
    BY <2>4 DEF Left
  <2> QED
    BY <2>3, <2>5
<1>4. CASE op = "create"
  <2>1. Record(arg) \in Rec
    BY <1>4 DEF Record, Rec, ArgOK
  <2>2. DirectoryWrites(op, arg) = RecordWrites(Record(arg)) \o <<<<MembersFile, {Owner}>>>>
    BY <1>2, <1>4 DEF DirectoryWrites
  <2> QED
    BY <1>2, <1>3, <2>1, <2>2
<1>5. CASE op = "patch"
  <2>1. arg \in 1..2
    BY <1>5 DEF ArgOK
  <2>2. Readable(NameFile) /\ DirectoryWrites(op, arg) = RecordWrites([old EXCEPT !.desc = arg])
    BY <1>2, <1>5 DEF DirectoryWrites
  <2>3. old \in Rec
    BY <2>2 DEF Readable
  <2>4. [old EXCEPT !.desc = arg] \in Rec
    BY <2>1, <2>3 DEF Rec
  <2> QED
    BY <1>2, <1>3, <2>2, <2>4
<1>6. CASE op = "delete"
  <2>2. Readable(NameFile) /\ DirectoryWrites(op, arg) = RecordWrites([old EXCEPT !.deleted = TRUE])
    BY <1>2, <1>6 DEF DirectoryWrites
  <2>3. old \in Rec
    BY <2>2 DEF Readable
  <2>4. [old EXCEPT !.deleted = TRUE] \in Rec
    BY <2>3 DEF Rec
  <2> QED
    BY <1>2, <1>3, <2>2, <2>4
<1> QED
  BY <1>1, <1>4, <1>5, <1>6

\* A request that reads its way through or begins leaves the files alone, and what is written
\* goes on as it was.
LEMMA Unwritten ==
  ASSUME Shape, NEW r \in Slots, Quiet \/ Start(r), NEW s \in Slots, Writing(s)'
  PROVE  req'[s] = req[s]
<1>1. CASE Quiet
  BY <1>1, IdleIs DEF Quiet, Stands, Writing
<1>2. CASE Start(r)
  <2>1. Others(r) /\ req'[r].pc \in {"id", "member", "load"}
    BY <1>2, StartIs
  <2> QED
    BY <2>1 DEF Others, Writing
<1> QED
  BY <1>1, <1>2

\* A change of the record stays one while others do not write its files.
LEMMA RecordKept ==
  ASSUME NEW s \in Slots, NEW rec \in Rec, RecordOK(s, rec), req'[s].todo = req[s].todo,
         req'[s].alone => req[s].alone /\ file' = file
  PROVE  RecordOK(s, rec)'
<1>1. \/ file'[NameFile] = file[NameFile] /\ file'[IdFile(rec.id)] = file[IdFile(rec.id)]
      \/ ~req'[s].alone
  OBVIOUS
<1> QED
  BY <1>1 DEF RecordOK

\* No change of the directory is under way when one is answered for.
LEMMA RepoBusy ==
  ASSUME RepoOK, NEW r \in Slots, Writing(r)
  PROVE  kept = {}
BY DEF RepoOK

\* A change of the directory has loaded: nothing is answered for any more (create_repo,
\* patch_repo and delete_repo).
LEMMA RepoLoad ==
  ASSUME Shape, ReqsOK, RepoOK, family = "repo", NEW r \in Slots, Loaded(r), file' = file
  PROVE  RepoOK'
<1>1. kept' = {}
  <2>1. req[r].op \in {"create", "patch", "delete"}
    BY RepoOps DEF Loaded
  <2>2. Decides(req[r].op, req[r].arg) = {<<"repo", 0>>}
    BY <2>1 DEF Decides
  <2> QED
    BY <2>2 DEF Loaded, RepoOK
<1>2. PICK rec \in Rec : req'[r].todo \in Left(rec) /\ req'[r].todo[1] = NameW(rec)
  <2>1. ArgOK(r) /\ req[r].pc # "idle" /\ file[NameFile] \in {Absent, Unreadable} \cup Rec
    BY DEF ReqsOK, Loaded, RepoOK
  <2> QED
    BY <2>1, DirectoryIs DEF Loaded
<1>3. RecordOK(r, rec)'
  BY <1>2, LeftIs DEF RecordOK, NameW, ListW
<1>4. ASSUME NEW s \in Slots \ {r}, Writing(s)'  PROVE \E x \in Rec : RecordOK(s, x)'
  <2>1. Writing(s) /\ req'[s].todo = req[s].todo /\ (req'[s].alone => req[s].alone)
    BY <1>4 DEF Loaded, Writing
  <2>2. PICK x \in Rec : RecordOK(s, x)
    BY <2>1 DEF RepoOK
  <2> QED
    BY <2>1, <2>2, RecordKept
<1>5. file'[NameFile] \in {Absent, Unreadable} \cup Rec
  BY DEF RepoOK
<1> QED
  BY <1>1, <1>3, <1>4, <1>5 DEF RepoOK

\* A file of the record is truncated.
LEMMA RepoBegin ==
  ASSUME Shape, AloneOK, RepoOK, family = "repo", NEW r \in Slots, Begun(r)
  PROVE  RepoOK'
<1>1. Writing(r)
  BY DEF Begun, Writing
<1>2. kept' = {}
  BY <1>1, RepoBusy DEF Begun
<1>3. PICK rec \in Rec : RecordOK(r, rec)
  BY <1>1 DEF RepoOK
<1>4. /\ req[r].todo \in Left(rec) /\ req[r].todo[1] \in {NameW(rec), IdW(rec), ListW}
      /\ NameW(rec) # IdW(rec) /\ NameW(rec) # ListW /\ IdW(rec) # ListW
  BY <1>3, LeftIs DEF RecordOK
<1>5. \A f \in FileNames : f # Target(r) => file'[f] = file[f]
  BY DEF Begun, Shape
<1>6. RecordOK(r, rec)'
  <2>1. req'[r].todo = req[r].todo /\ req'[r].alone = req[r].alone
    BY DEF Begun
  <2>2. req[r].todo[1] # NameW(rec) => file'[NameFile] = file[NameFile]
    BY <1>4, <1>5, RepoFiles DEF Target, NameW, IdW, ListW
  <2>3. req[r].todo[1] = ListW => file'[IdFile(rec.id)] = file[IdFile(rec.id)]
    <3>1. IdFile(rec.id) \in FileNames /\ IdFile(rec.id) # MembersFile
      BY RepoFiles DEF Rec
    <3>2. req[r].todo[1] = ListW => Target(r) = MembersFile
      BY DEF Target, ListW
    <3> QED
      BY <1>5, <3>1, <3>2
  <2> QED
    BY <1>3, <2>1, <2>2, <2>3 DEF RecordOK
<1>7. ASSUME NEW s \in Slots \ {r}, Writing(s)'  PROVE \E x \in Rec : RecordOK(s, x)'
  <2>1. Writing(s) /\ req'[s].todo = req[s].todo /\ req'[s].alone = req[s].alone
    BY <1>7 DEF Begun, Writing
  <2>2. PICK x \in Rec : RecordOK(s, x)
    BY <2>1 DEF RepoOK
  <2>3. ~req[s].alone
    BY <1>1, <2>1, RepoRival
  <2> QED
    BY <2>1, <2>2, <2>3, RecordKept
<1>8. file'[NameFile] \in {Absent, Unreadable} \cup Rec
  BY <1>5, RepoFiles DEF RepoOK, Begun, Shape
<1> QED
  BY <1>2, <1>6, <1>7, <1>8 DEF RepoOK

\* The write of a file is over, or the access list of a new repository could not be written.
LEMMA RepoEnd ==
  ASSUME Shape, AloneOK, MixOK, RepoOK, family = "repo", NEW r \in Slots, Passed(r),
         (\E v : Ended(r, v)) \/ (file' = file /\ Target(r) = MembersFile)
  PROVE  RepoOK'
<1>1. Writing(r)
  BY DEF Passed, Writing
<1>2. kept = {}
  BY <1>1, RepoBusy
<1>3. PICK rec \in Rec : RecordOK(r, rec)
  BY <1>1 DEF RepoOK
<1> DEFINE todo == req[r].todo
<1>4. /\ todo \in Left(rec) /\ Head(todo) = todo[1] /\ todo[1] \in {NameW(rec), IdW(rec), ListW}
      /\ NameW(rec) # IdW(rec) /\ NameW(rec) # ListW /\ IdW(rec) # ListW
  BY <1>3, LeftIs DEF RecordOK
<1>5. Target(r) \in FileNames
  <2>1. IdFile(rec.id) \in FileNames
    BY RepoFiles DEF Rec
  <2> QED
    BY <1>4, <2>1, RepoFiles DEF Target, NameW, IdW, ListW
<1>6. \A f \in FileNames : f # Target(r) => file'[f] = file[f]
  BY <1>4 DEF Ended, Target, Shape
<1>7. /\ Target(r) # MembersFile => file'[Target(r)] \in {todo[1][2], Unreadable}
      /\ Target(r) # MembersFile /\ req[r].alone => file'[Target(r)] = todo[1][2]
  BY <1>4, <1>5 DEF Ended, Target, Shape, MixOK, Passed
<1>8. file'[NameFile] \in {Absent, Unreadable} \cup Rec
  <2>1. CASE Target(r) = NameFile
    <3>1. todo[1] = NameW(rec)
      BY <1>4, <2>1, RepoFiles DEF Target, NameW, IdW, ListW
    <3> QED
      BY <1>7, <2>1, <3>1, RepoFiles DEF NameW
  <2>2. CASE Target(r) # NameFile
    BY <1>6, <2>2, RepoFiles DEF RepoOK
  <2> QED
    BY <2>1, <2>2
<1>9. ASSUME NEW s \in Slots \ {r}, Writing(s)'  PROVE Writing(s) /\ \E x \in Rec : RecordOK(s, x)'
  <2>1. Writing(s) /\ req'[s] = req[s]
    BY <1>9 DEF Passed, Writing
  <2>2. PICK x \in Rec : RecordOK(s, x)
    BY <2>1 DEF RepoOK
  <2>3. ~req[s].alone
    BY <1>1, <2>1, RepoRival
  <2> QED
    BY <2>1, <2>2, <2>3, RecordKept
<1>10. req[r].alone => /\ todo[1] = NameW(rec) => file'[NameFile] = rec
                       /\ todo[1] # NameW(rec) => file[NameFile] = rec /\ file'[NameFile] = rec
                       /\ todo[1] \in {IdW(rec), ListW} => file'[IdFile(rec.id)] = rec
  <2>0. rec.id \in RepoIds
    BY DEF Rec
  <2>1. CASE todo[1] = NameW(rec)
    BY <1>4, <1>7, <2>1, RepoFiles DEF Target, NameW
  <2>2. CASE todo[1] = IdW(rec)
    BY <1>3, <1>4, <1>6, <1>7, <2>0, <2>2, RepoFiles DEF Target, IdW, RecordOK
  <2>3. CASE todo[1] = ListW
    <3>1. Target(r) = MembersFile
      BY <2>3 DEF Target, ListW
    <3>2. file'[NameFile] = file[NameFile] /\ file'[IdFile(rec.id)] = file[IdFile(rec.id)]
      BY <1>6, <2>0, <3>1, RepoFiles
    <3> QED
      BY <1>3, <1>4, <2>3, <3>2 DEF RecordOK
  <2> QED
    BY <1>4, <2>1, <2>2, <2>3
<1>11. CASE Len(todo) > 1
  <2>1. kept' = {} /\ req'[r].todo = Tail(todo) /\ req'[r].alone = req[r].alone
    BY <1>2, <1>11 DEF Passed
  <2>2. /\ Tail(todo) \in Left(rec)
        /\ \/ todo[1] = NameW(rec) /\ Tail(todo)[1] = IdW(rec)
           \/ todo[1] = IdW(rec) /\ Tail(todo)[1] = ListW
    BY <1>4, <1>11, LeftIs
  <2>3. RecordOK(r, rec)'
    BY <1>4, <1>10, <2>1, <2>2 DEF RecordOK
  <2> QED
    BY <1>8, <1>9, <2>1, <2>3 DEF RepoOK
<1>12. CASE ~(Len(todo) > 1)
  <2>1. kept' = Sure(req[r], Head(todo)) /\ ~Writing(r)'
    BY <1>2, <1>12, IdleIs DEF Passed, Writing
  <2>2. req[r].op \in {"create", "patch", "delete"}
    BY <1>1, RepoOps DEF Writing
  <2>3. \A k \in kept' : req[r].alone /\ k = [item |-> <<"repo", 0>>, val |-> file[NameFile]]
    BY <2>1, <2>2 DEF Sure
  <2>4. todo[1] \in {IdW(rec), ListW}
    BY <1>4, <1>12, LeftIs
  <2>5. \A k \in kept' : k.item = <<"repo", 0>> /\ k.val = rec /\ file'[NameFile] = rec /\ file'[IdFile(rec.id)] = rec
    BY <1>4, <1>10, <2>3, <2>4
  <2>6. ASSUME NEW k \in kept', NEW s \in Slots  PROVE ~Writing(s)'
    BY <1>1, <1>9, <2>1, <2>3, RepoRival
  <2> QED
    BY <1>8, <1>9, <2>1, <2>5, <2>6 DEF RepoOK
<1> QED
  BY <1>11, <1>12

\* A record that was answered for is in both its files, and nobody is writing one.
LEMMA RepoStep ==
  ASSUME Shape, ReqsOK, AloneOK, MixOK, RepoOK, family = "repo", [Next]_vars
  PROVE  RepoOK'
<1>1. ASSUME NEW r \in Slots, Quiet \/ Start(r), UNCHANGED <<file, kept>>
      PROVE  RepoOK'
  <2>1. \A s \in Slots : Writing(s)' => req'[s] = req[s] /\ Writing(s)
    BY <1>1, Unwritten DEF Writing
  <2>2. ASSUME NEW s \in Slots, Writing(s)'  PROVE \E x \in Rec : RecordOK(s, x)'
    BY <1>1, <2>1, <2>2, RecordKept DEF RepoOK
  <2> QED
    BY <1>1, <2>1, <2>2 DEF RepoOK
<1>2. CASE Slots = {}
  <2>1. UNCHANGED <<file, kept>>
    BY <1>2, StepIs
  <2> QED
    BY <1>2, <2>1 DEF RepoOK
<1>3. ASSUME NEW r \in Slots, Start(r)  PROVE UNCHANGED <<file, kept>>
  BY <1>3 DEF Start
<1> QED
  BY <1>1, <1>2, <1>3, StepIs, RepoLoad, RepoBegin, RepoEnd DEF Target

-----------------------------------------------------------------------------
(* The delivery queue *)

\* Only an enqueue writes to the queue.
LEMMA QueueOps ==
  ASSUME Shape, family = "queue", NEW r \in Slots, Writing(r)
  PROVE  req[r].op = "enqueue" /\ ResourceOf(r) = <<"enqueue", 0>>
<1>1. req[r].op = "enqueue"
  BY FamilyOps DEF Shape, Writing
<1> QED
  BY <1>1 DEF ResourceOf, Resource, IndexOps

\* The number that enqueue takes is not in use.
LEMMA NextFresh ==
  ASSUME NEW n \in Listed
  PROVE  NextNumber # n
<1> DEFINE S == {0} \cup Listed
<1>1. S \in SUBSET (0..MaxRequests) /\ S # {} /\ n \in S /\ MaxRequests \in Nat
  BY DEF Listed, Numbers
<1>2. PICK m : m = Max(S)
  OBVIOUS
<1>3. m \in S /\ n <= m
  <2> HIDE DEF S
  <2> QED
    BY <1>1, <1>2, MaxIn
<1>4. NextNumber = 1 + m
  BY <1>2 DEF NextNumber, Listed
<1>5. n \in Nat /\ m \in Nat
  BY <1>1, <1>3
<1> QED
  BY <1>3, <1>4, <1>5

\* An enqueue has taken a number: no message that was answered for has it.
LEMMA MailLoad ==
  ASSUME Shape, Shape', KindsOK, MailOK, family = "queue", family' = family, NEW r \in Slots, Loaded(r), file' = file,
         NEW k \in kept'
  PROVE  /\ k \in kept
         /\ \A s \in Slots : Writing(s)' => Target(s)' # QueueFile(k.item[2])
<1>1. k \in kept
  BY DEF Loaded
<1>2. req[r].op = "enqueue"
  <2>1. Writing(r)' /\ req'[r].op = req[r].op
    BY DEF Loaded, Writing, Asked
  <2> QED
    BY <2>1, FamilyOps DEF Shape, Writing
<1>3. req'[r].todo = <<<<QueueFile(NextNumber), req[r].no>>>>
  BY <1>2 DEF Loaded, Writes, MlsEnqueue, IndexOps
<1>4. Target(r)' = QueueFile(NextNumber)
  BY <1>3 DEF Target
<1>5. k.item[2] \in Listed
  BY <1>1 DEF MailOK, QueueOK, KindsOK, Kinds
<1>6. Target(r)' # QueueFile(k.item[2])
  BY <1>4, <1>5, NextFresh, QueueFiles
<1>7. ASSUME NEW s \in Slots \ {r}, Writing(s)'  PROVE Target(s)' # QueueFile(k.item[2])
  <2>1. Writing(s) /\ req'[s].todo = req[s].todo
    BY <1>7 DEF Loaded, Writing
  <2> QED
    BY <1>1, <2>1 DEF MailOK, Target
<1> QED
  BY <1>1, <1>6, <1>7

\* A message is written; the requests that write meanwhile write to other files.
LEMMA MailEnd ==
  ASSUME Shape, AloneOK, MixOK, MailOK, family = "queue", NEW r \in Slots, Passed(r), NEW v, Ended(r, v),
         NEW k \in kept'
  PROVE  /\ k.item[2] \in Numbers /\ file'[QueueFile(k.item[2])] = k.val
         /\ \A s \in Slots : Writing(s)' => Target(s)' # QueueFile(k.item[2])
<1>1. Writing(r) /\ req[r].pc = "fill"
  BY DEF Passed, Writing
<1>2. req[r].op = "enqueue"
  BY <1>1, QueueOps
<1>3. PICK n \in Numbers : req[r].todo = <<<<QueueFile(n), req[r].no>>>>
  BY <1>1 DEF MailOK, QueueOK, ReqOK
<1>4. PICK W : W = <<QueueFile(n), req[r].no>>
  OBVIOUS
<1>5. W[1] = QueueFile(n) /\ W[2] = req[r].no /\ W[1][2] = n
  BY <1>4 DEF QueueFile
<1>6. Head(req[r].todo) = W /\ ~(Len(req[r].todo) > 1) /\ Target(r) = QueueFile(n)
  BY <1>3, <1>4, <1>5 DEF Target
<1>7. req'[r] = IdleReq /\ kept' = kept \cup Sure(req[r], W) /\ \A s \in Slots \ {r} : req'[s] = req[s]
  BY <1>6 DEF Passed
<1>8. /\ file' = [file EXCEPT ![QueueFile(n)] = v] /\ (~req[r].mixed => v = req[r].no)
      /\ QueueFile(n) \in FileNames
  BY <1>5, <1>6, QueueFiles DEF Ended
<1>9. \A s \in Slots : Writing(s)' => s # r /\ Writing(s) /\ Target(s)' = Target(s)
  BY <1>7, IdleIs DEF Writing, Target
<1>10. CASE k \in kept
  <2>1. QueueFile(k.item[2]) # QueueFile(n) /\ QueueFile(k.item[2]) \in FileNames
    BY <1>1, <1>6, <1>10, QueueFiles DEF MailOK
  <2>2. file'[QueueFile(k.item[2])] = file[QueueFile(k.item[2])]
    BY <1>8, <2>1 DEF Shape
  <2> QED
    BY <1>9, <1>10, <2>2 DEF MailOK
<1>11. CASE k \in Sure(req[r], W)
  <2>1. req[r].alone
    BY <1>11 DEF Sure
  <2>2. Sure(req[r], W) = {[item |-> <<"mls", n>>, val |-> req[r].no]}
    BY <1>2, <1>5, <2>1 DEF Sure
  <2>3. k.item[2] = n /\ k.val = req[r].no
    BY <1>11, <2>2
  <2>4. file'[QueueFile(n)] = req[r].no
    BY <1>1, <1>8, <2>1 DEF MixOK, Shape
  <2>5. ASSUME NEW s \in Slots, Writing(s)'  PROVE Target(s)' # QueueFile(n)
    BY <1>1, <1>9, <2>1, <2>5, QueueOps DEF AloneOK
  <2> QED
    BY <2>3, <2>4, <2>5
<1> QED
  BY <1>7, <1>10, <1>11

\* A message that was answered for is not written again.
LEMMA MailStep ==
  ASSUME Shape, Shape', KindsOK, AloneOK, MixOK, MailOK, family = "queue", family' = family, [Next]_vars
  PROVE  MailOK'
<1> DEFINE Safe(k) == /\ k.item[2] \in Numbers /\ file[QueueFile(k.item[2])] = k.val
                      /\ \A s \in Slots : Writing(s) => Target(s) # QueueFile(k.item[2])
<1>0. QueueOK' /\ \A k \in kept : Safe(k)
  BY QueueStep DEF MailOK
<1> SUFFICES ASSUME NEW k \in kept'  PROVE Safe(k)'
  BY <1>0 DEF MailOK
<1>1. ASSUME NEW r \in Slots, Quiet \/ Start(r), UNCHANGED <<file, kept>>
      PROVE  Safe(k)'
  <2>1. \A s \in Slots : Writing(s)' => req'[s] = req[s] /\ Writing(s)
    BY <1>1, Unwritten DEF Writing
  <2> QED
    BY <1>0, <1>1, <2>1 DEF Target
<1>2. CASE Slots = {}
  <2>1. UNCHANGED <<file, kept>>
    BY <1>2, StepIs
  <2> QED
    BY <1>0, <1>2, <2>1
<1>3. ASSUME NEW r \in Slots, Start(r)  PROVE UNCHANGED <<file, kept>>
  BY <1>3 DEF Start
<1>4. ASSUME NEW r \in Slots, Loaded(r), file' = file  PROVE Safe(k)'
  BY <1>0, <1>4, MailLoad
<1>5. ASSUME NEW r \in Slots, Begun(r)  PROVE Safe(k)'
  <2>1. k \in kept /\ \A s \in Slots : Writing(s)' => Writing(s) /\ Target(s)' = Target(s)
    BY <1>5 DEF Begun, Writing, Target
  <2>2. Target(r) # QueueFile(k.item[2]) /\ QueueFile(k.item[2]) \in FileNames
    BY <1>0, <1>5, <2>1, QueueFiles DEF Begun, Writing
  <2>3. file'[QueueFile(k.item[2])] = file[QueueFile(k.item[2])]
    BY <1>5, <2>2 DEF Begun, Shape
  <2> QED
    BY <1>0, <2>1, <2>3
<1>6. ASSUME NEW r \in Slots, Passed(r), \E v : Ended(r, v)  PROVE Safe(k)'
  BY <1>6, MailEnd
<1>7. ASSUME NEW r \in Slots, Passed(r), req[r].op = "create"  PROVE FALSE
  BY <1>7, QueueOps DEF Passed, Writing
<1> HIDE DEF Safe
<1> QED
  BY <1>1, <1>2, <1>3, <1>4, <1>5, <1>6, <1>7, StepIs

-----------------------------------------------------------------------------
(* The key log *)

\* The key log and the two files of a key package.
LEMMA KeyFiles ==
  /\ KeyLogFile(1) \in FileNames /\ PackageFile("bin") \in FileNames /\ PackageFile("json") \in FileNames
  /\ \A x : PackageFile(x) # KeyLogFile(1)
BY DEF FileNames, KeyLogFile, PackageFile

\* The key log and the key packages are a resource each.
LEMMA KeyOps ==
  ASSUME Shape, family = "keys", NEW r \in Slots, req[r].pc # "idle"
  PROVE  req[r].op \in {"keylog", "keypackage"} /\ ResourceOf(r) = <<req[r].op, 0>>
<1>1. req[r].op \in {"keylog", "keypackage"}
  BY DEF Shape, Ops
<1> QED
  BY <1>1 DEF ResourceOf, Resource, IndexOps

\* Only an append to the key log writes its file, and that in one write.
LEMMA KeyTarget ==
  ASSUME NEW r \in Slots, KeyWritesOK(r)
  PROVE  /\ Target(r) \in FileNames /\ (Target(r) = KeyLogFile(1) <=> req[r].op = "keylog")
         /\ Head(req[r].todo)[1] = Target(r)
         /\ req[r].op = "keylog" => Head(req[r].todo)[2] = req[r].no /\ ~(Len(req[r].todo) > 1)
         /\ Len(req[r].todo) > 1 => Tail(req[r].todo) \in KeyWrites(req[r].no)
<1>1. CASE req[r].op = "keylog"
  <2>1. req[r].todo = <<<<KeyLogFile(1), req[r].no>>>>
    BY <1>1 DEF KeyWritesOK
  <2>2. Len(req[r].todo) = 1 /\ Head(req[r].todo) = <<KeyLogFile(1), req[r].no>>
    BY <2>1
  <2>3. Target(r) = KeyLogFile(1)
    BY <2>1 DEF Target
  <2> QED
    BY <1>1, <2>2, <2>3, KeyFiles
<1>2. CASE req[r].op # "keylog" /\ req[r].todo = <<<<PackageFile("json"), req[r].no>>>>
  BY <1>2, KeyFiles DEF Target
<1>3. CASE req[r].op # "keylog" /\ req[r].todo = <<<<PackageFile("bin"), req[r].no>>, <<PackageFile("json"), req[r].no>>>>
  BY <1>3, KeyFiles DEF Target, KeyWrites
<1> QED
  BY <1>1, <1>2, <1>3 DEF KeyWritesOK, KeyWrites

\* An append to the key log has loaded: the entry before it is no longer answered for.
LEMMA KeysLoad ==
  ASSUME Shape, KeysOK, family = "keys", NEW r \in Slots, Loaded(r), file' = file
  PROVE  KeysOK'
<1>1. req[r].op \in {"keylog", "keypackage"} /\ req'[r].op = req[r].op /\ req'[r].no = req[r].no
  BY KeyOps DEF Loaded, Asked
<1>2. KeyWritesOK(r)'
  <2>1. req'[r].todo = IF req[r].op = "keylog" THEN KeyLogWrites(req[r].no) ELSE PackageWrites(req[r].no)
    BY <1>1 DEF Loaded, Writes, KeyRoutes, IndexOps
  <2> QED
    BY <1>1, <2>1 DEF KeyWritesOK, KeyLogWrites, PackageWrites, KeyWrites
<1>3. ASSUME NEW s \in Slots \ {r}, Writing(s)'
      PROVE  Writing(s) /\ req'[s].op = req[s].op /\ KeyWritesOK(s)'
  <2>1. /\ Writing(s) /\ req'[s].op = req[s].op /\ req'[s].no = req[s].no
        /\ req'[s].todo = req[s].todo
    BY <1>3 DEF Loaded, Writing, Asked
  <2> QED
    BY <2>1 DEF KeysOK, KeyWritesOK
<1>4. kept' \subseteq kept /\ (req[r].op = "keylog" => kept' = {})
  <2>1. req[r].op = "keylog" => Decides(req[r].op, req[r].arg) = {<<"keylog", 1>>}
    BY DEF Decides
  <2> QED
    BY <2>1 DEF Loaded, KeysOK
<1>5. ASSUME NEW k \in kept', NEW s \in Slots, Writing(s)'  PROVE req'[s].op # "keylog"
  <2>1. CASE s = r
    BY <1>1, <1>4, <1>5, <2>1
  <2>2. CASE s # r
    BY <1>3, <1>4, <1>5, <2>2 DEF KeysOK
  <2> QED
    BY <2>1, <2>2
<1>6. \A k \in kept' : k.item = <<"keylog", 1>> /\ file'[KeyLogFile(1)] = k.val
  BY <1>4 DEF KeysOK
<1>7. \A s \in Slots : Writing(s)' => KeyWritesOK(s)'
  BY <1>2, <1>3
<1> QED
  BY <1>5, <1>6, <1>7 DEF KeysOK, KeyWritesOK

\* A file is truncated, and it is not the log when an entry is answered for.
LEMMA KeysBegin ==
  ASSUME Shape, KeysOK, family = "keys", NEW r \in Slots, Begun(r)
  PROVE  KeysOK'
<1>1. ASSUME NEW s \in Slots, Writing(s)'
      PROVE  Writing(s) /\ req'[s].op = req[s].op /\ KeyWritesOK(s)'
  <2>1. /\ Writing(s) /\ req'[s].op = req[s].op /\ req'[s].no = req[s].no
        /\ req'[s].todo = req[s].todo
    BY <1>1 DEF Begun, Writing, Asked
  <2> QED
    BY <2>1 DEF KeysOK, KeyWritesOK
<1>2. Writing(r) /\ KeyWritesOK(r)
  BY DEF Begun, Writing, KeysOK, KeyWritesOK
<1>3. ASSUME NEW k \in kept  PROVE file'[KeyLogFile(1)] = file[KeyLogFile(1)]
  <2>1. Target(r) # KeyLogFile(1)
    BY <1>2, <1>3, KeyTarget DEF KeysOK
  <2> QED
    BY <2>1, KeyFiles DEF Begun, Shape
<1>4. kept' = kept
  BY DEF Begun
<1> QED
  BY <1>1, <1>3, <1>4 DEF KeysOK, KeyWritesOK

\* A file is written; the last one is followed by the answer.
LEMMA KeysEnd ==
  ASSUME Shape, AloneOK, MixOK, KeysOK, family = "keys", NEW r \in Slots, Passed(r), NEW v, Ended(r, v)
  PROVE  KeysOK'
<1>1. Writing(r) /\ req[r].pc = "fill" /\ KeyWritesOK(r) /\ req[r].op \in {"keylog", "keypackage"}
  BY KeyOps DEF Passed, Writing, KeysOK, KeyWritesOK
<1>2. /\ Target(r) \in FileNames /\ (Target(r) = KeyLogFile(1) <=> req[r].op = "keylog")
      /\ Head(req[r].todo)[1] = Target(r)
      /\ req[r].op = "keylog" => Head(req[r].todo)[2] = req[r].no /\ ~(Len(req[r].todo) > 1)
      /\ Len(req[r].todo) > 1 => Tail(req[r].todo) \in KeyWrites(req[r].no)
  BY <1>1, KeyTarget
<1>3. ASSUME NEW s \in Slots, Writing(s)'
      PROVE  /\ Writing(s) /\ req'[s].op = req[s].op /\ KeyWritesOK(s)'
             /\ req[s].op = "keylog" => s # r
  <2>1. CASE s = r
    <3>1. Len(req[r].todo) > 1
      BY <1>3, <2>1, IdleIs DEF Passed, Writing
    <3>2. Asked(r) /\ req'[r].todo = Tail(req[r].todo)
      BY <3>1 DEF Passed
    <3> QED
      BY <1>1, <1>2, <2>1, <3>1, <3>2 DEF Asked, KeyWritesOK
  <2>2. CASE s # r
    <3>1. req'[s] = req[s]
      BY <2>2 DEF Passed
    <3> QED
      BY <1>3, <2>2, <3>1 DEF Writing, KeysOK, KeyWritesOK
  <2> QED
    BY <2>1, <2>2
<1>4. CASE req[r].op = "keylog"
  <2>1. kept = {} /\ kept' = Sure(req[r], Head(req[r].todo))
    BY <1>1, <1>2, <1>4 DEF KeysOK, Passed
  <2>2. \A k \in kept' : req[r].alone /\ k = [item |-> <<"keylog", 1>>, val |-> req[r].no]
    BY <1>4, <2>1 DEF Sure
  <2>3. req[r].alone => file'[KeyLogFile(1)] = req[r].no
    BY <1>1, <1>2, <1>4 DEF Ended, MixOK, Shape
  <2>4. ASSUME NEW s \in Slots, Writing(s)', req[r].alone  PROVE req'[s].op # "keylog"
    BY <1>1, <1>3, <1>4, <2>4, KeyOps DEF AloneOK, Writing
  <2> QED
    BY <1>3, <2>2, <2>3, <2>4 DEF KeysOK, KeyWritesOK
<1>5. CASE req[r].op = "keypackage"
  <2>1. Sure(req[r], Head(req[r].todo)) = {}
    BY <1>5 DEF Sure
  <2>2. kept' = kept
    BY <2>1 DEF Passed
  <2>3. file'[KeyLogFile(1)] = file[KeyLogFile(1)]
    BY <1>2, <1>5, KeyFiles DEF Ended, Shape
  <2> QED
    BY <1>3, <2>2, <2>3 DEF KeysOK, KeyWritesOK
<1> QED
  BY <1>1, <1>4, <1>5

\* An entry that was answered for is in the log, and nobody is writing one.
LEMMA KeysStep ==
  ASSUME Shape, AloneOK, MixOK, KeysOK, family = "keys", [Next]_vars
  PROVE  KeysOK'
<1>1. ASSUME NEW r \in Slots, Quiet \/ Start(r), UNCHANGED <<file, kept>>
      PROVE  KeysOK'
  <2>1. \A s \in Slots : Writing(s)' => req'[s] = req[s] /\ Writing(s)
    BY <1>1, Unwritten DEF Writing
  <2> QED
    BY <1>1, <2>1 DEF KeysOK, KeyWritesOK
<1>2. CASE Slots = {}
  <2>1. UNCHANGED <<file, kept>>
    BY <1>2, StepIs
  <2> QED
    BY <1>2, <2>1 DEF KeysOK
<1>3. ASSUME NEW r \in Slots, Start(r)  PROVE UNCHANGED <<file, kept>>
  BY <1>3 DEF Start
<1>4. ASSUME NEW r \in Slots, Passed(r), req[r].op = "create"  PROVE FALSE
  BY <1>4, KeyOps DEF Passed
<1> QED
  BY <1>1, <1>2, <1>3, <1>4, StepIs, KeysLoad, KeysBegin, KeysEnd

-----------------------------------------------------------------------------
(* The access list and the index *)

\* What is added to a sequence, and what is put in place of one of its elements.
LEMMA AppendRange ==
  ASSUME NEW S, NEW s \in Seq(S), NEW x \in S
  PROVE  /\ Append(s, x) \in Seq(S) /\ Range(Append(s, x)) = Range(s) \cup {x}
         /\ Append(s, x)[Len(Append(s, x))] = x
<1>1. PICK t : t = Append(s, x)
  OBVIOUS
<1>2. /\ t \in Seq(S) /\ Len(t) = Len(s) + 1 /\ t[Len(s) + 1] = x
      /\ \A j \in 1..Len(s) : t[j] = s[j]
  BY <1>1
<1>3. DOMAIN s = 1..Len(s) /\ DOMAIN t = 1..(Len(s) + 1) /\ Len(s) \in Nat
  BY <1>2
<1>4. Range(t) = Range(s) \cup {x}
  <2>1. ASSUME NEW y \in Range(t)  PROVE y \in Range(s) \cup {x}
    BY <1>2, <1>3 DEF Range
  <2>2. ASSUME NEW y \in Range(s)  PROVE y \in Range(t)
    BY <1>2, <1>3 DEF Range
  <2>3. x \in Range(t)
    BY <1>2, <1>3 DEF Range
  <2> QED
    BY <2>1, <2>2, <2>3
<1> QED
  BY <1>1, <1>2, <1>4

\* The same, with one element replaced.
LEMMA ReplaceRange ==
  ASSUME NEW s, NEW j \in DOMAIN s, NEW t, DOMAIN t = DOMAIN s,
         \A i \in DOMAIN s : i # j => t[i] = s[i]
  PROVE  /\ t[j] \in Range(t) /\ Range(t) \subseteq Range(s) \cup {t[j]}
         /\ Range(s) \ {s[j]} \subseteq Range(t)
BY DEF Range

\* The access list and the index are files.
LEMMA SaveFiles ==
  MembersFile \in FileNames /\ IndexFile \in FileNames
BY DEF FileNames, MembersFile, IndexFile

\* Requests on the access list are for one resource, and so are those on the index.
LEMMA SaveOps ==
  ASSUME Shape, family \in {"members", "index"}, NEW r \in Slots, req[r].pc # "idle"
  PROVE  /\ family = "members" => req[r].op \in {"invite", "remove"} /\ ResourceOf(r) = <<"members", 0>>
         /\ family = "index" => req[r].op \in IndexOps /\ ResourceOf(r) = <<"index", 0>>
<1>1. req[r].op \in Ops[family]
  BY DEF Shape
<1>2. /\ family = "members" => req[r].op \in {"invite", "remove"}
      /\ family = "index" => req[r].op \in IndexOps
  BY <1>1 DEF Ops
<1> QED
  BY <1>2 DEF ResourceOf, Resource, IndexOps

\* What these requests are answered with does not depend on the files.
Answers(q, last) ==
    LET item(x, v) == {[item |-> x, val |-> v]} IN
    IF ~q.alone THEN {} ELSE
    CASE q.op \in {"invite", "remove"} -> item(<<"member", q.arg>>, q.op = "invite")
      [] q.op = "open" -> LET items == last[2][q.arg[1]].items IN
                          item(<<"made", q.no>>, <<q.arg[1], items[Len(items)].id>>)
      [] q.op \in {"close", "reopen"} -> item(<<"state", q.arg>>, q.op)
      [] q.op = "comment" -> item(<<"note", q.no>>, q.arg)

SaveOpSet == IndexOps \cup {"invite", "remove"}

\* What a request on the access list or the index is answered with.
LEMMA SureIs ==
  ASSUME NEW s \in Slots
  PROVE  /\ req[s].op \in SaveOpSet =>
              Sure(req[s], req[s].todo[1]) = Answers(req[s], req[s].todo[1])
         /\ req'[s].op \in SaveOpSet =>
              Sure(req[s], req[s].todo[1])' = Answers(req'[s], req'[s].todo[1])
<1>1. ASSUME req[s].op \in SaveOpSet
      PROVE  Sure(req[s], req[s].todo[1]) = Answers(req[s], req[s].todo[1])
  <2>1. CASE req[s].op \in {"invite", "remove"}
    BY <2>1 DEF Sure, Answers
  <2>2. CASE req[s].op = "open"
    BY <2>2 DEF Sure, Answers
  <2>3. CASE req[s].op \in {"close", "reopen"}
    BY <2>3 DEF Sure, Answers
  <2>4. CASE req[s].op = "comment"
    BY <2>4 DEF Sure, Answers
  <2> QED
    BY <1>1, <2>1, <2>2, <2>3, <2>4 DEF SaveOpSet, IndexOps
<1>2. ASSUME req'[s].op \in SaveOpSet
      PROVE  Sure(req[s], req[s].todo[1])' = Answers(req'[s], req'[s].todo[1])
  <2>1. CASE req'[s].op \in {"invite", "remove"}
    BY <2>1 DEF Sure, Answers
  <2>2. CASE req'[s].op = "open"
    BY <2>2 DEF Sure, Answers
  <2>3. CASE req'[s].op \in {"close", "reopen"}
    BY <2>3 DEF Sure, Answers
  <2>4. CASE req'[s].op = "comment"
    BY <2>4 DEF Sure, Answers
  <2> QED
    BY <1>2, <2>1, <2>2, <2>3, <2>4 DEF SaveOpSet, IndexOps
<1> QED
  BY <1>1, <1>2

\* A request that is about to save stays right while no more is answered.
LEMMA SaveKept ==
  ASSUME NEW s \in Slots, SaveOK(s), Asked(s), req'[s].todo = req[s].todo, req[s].op \in SaveOpSet,
         req'[s].alone => req[s].alone, kept' \subseteq kept, Used \subseteq Used', family' = family
  PROVE  SaveOK(s)'
<1>1. PICK L, c : L = req[s].todo[1] /\ c = Content(s)
  OBVIOUS
<1>2. req'[s].todo[1] = L /\ Content(s)' = c /\ Saved' = Saved /\ ContentType' = ContentType
  BY <1>1 DEF Content, Saved, ContentType
<1>3. \A k \in Answers(req[s], L) : Holds(k, c)
  BY <1>1, SureIs DEF SaveOK
<1>4. Answers(req'[s], L) \subseteq Answers(req[s], L)
  BY DEF Asked, Answers, SaveOpSet, IndexOps
<1>5. \A k \in Sure(req[s], req[s].todo[1])' : Holds(k, c)
  <2>1. Sure(req[s], req[s].todo[1])' = Answers(req'[s], L)
    BY <1>2, SureIs DEF Asked
  <2> QED
    BY <1>3, <1>4, <2>1
<1>6. MadeByUsed(c)'
  BY <1>1 DEF SaveOK, MadeByUsed
<1>7. req'[s].todo = <<<<Saved, c>>>> /\ c \in ContentType /\ \A k \in kept' : Holds(k, c)
  BY <1>1 DEF SaveOK
<1>8. MadeByUsed(Content(s))'
  BY <1>2, <1>6 DEF MadeByUsed
<1> QED
  BY <1>2, <1>5, <1>7, <1>8 DEF SaveOK

\* What is opened: an item more, the last one.  What is changed: one item, which keeps its
\* number and its maker.
Opened(list, no, v, c) ==
    LET new == NewItem(v[list].next, no)
        items == c[list].items IN
    /\ Range(items) = Range(v[list].items) \cup {new}
    /\ items[Len(items)] = new
Altered(op, no, old, new) ==
    /\ new.id = old.id /\ new.by = old.by
    /\ new.state = IF op = "comment" THEN old.state ELSE op
    /\ new.notes = IF op = "comment" THEN old.notes \cup {no} ELSE old.notes
Changed(list, op, id, no, v, c) ==
    \E old \in Range(v[list].items) : \E new \in Range(c[list].items) :
        /\ old.id = id /\ Altered(op, no, old, new)
        /\ Range(c[list].items) \subseteq Range(v[list].items) \cup {new}
        /\ Range(v[list].items) \ {old} \subseteq Range(c[list].items)

\* The index that a request saves: one list has an item more, or one of its items changed.
LEMMA IndexIs ==
  ASSUME Index \in IndexType, NEW list \in Lists, NEW op \in IndexOps, NEW id, NEW no \in Nat,
         IndexWrites(list, op, id, no) # Refuse
  PROVE  /\ IndexParses
         /\ \E c \in IndexType :
              /\ IndexWrites(list, op, id, no) = <<<<IndexFile, c>>>>
              /\ \A l \in Lists \ {list} : c[l] = Index[l]
              /\ op = "open" => Opened(list, no, Index, c)
              /\ op # "open" => Changed(list, op, id, no, Index, c)
<1> DEFINE items == Index[list].items
           at == {k \in DOMAIN items : items[k].id = id}
           put(next) == <<<<IndexFile, [Index EXCEPT ![list] = next]>>>>
           change(item) == put([Index[list] EXCEPT !.items[Min(at)] = item])
<1>0. PICK W : W = IndexWrites(list, op, id, no)
  OBVIOUS
<1>1. IndexParses /\ ~(op # "open" /\ at = {})
  BY DEF IndexWrites
<1>2. PICK v : v = Index
  OBVIOUS
<1>3. v \in IndexType /\ v[list] \in [items : Seq(Item), next : Nat] /\ items \in Seq(Item)
  BY <1>2 DEF IndexType
<1>5. CASE op = "open"
  <2>1. PICK new, next, c : /\ new = NewItem(v[list].next, no)
                            /\ next = [items |-> Append(v[list].items, new), next |-> v[list].next + 1]
                            /\ c = [v EXCEPT ![list] = next]
    OBVIOUS
  <2>2. new \in Item
    BY <1>3, <2>1 DEF NewItem, Item
  <2>3. /\ Append(v[list].items, new) \in Seq(Item)
        /\ Range(Append(v[list].items, new)) = Range(v[list].items) \cup {new}
        /\ Append(v[list].items, new)[Len(Append(v[list].items, new))] = new
    BY <1>2, <1>3, <2>2, AppendRange
  <2>4. next \in [items : Seq(Item), next : Nat] /\ next.items = Append(v[list].items, new)
    BY <1>3, <2>1, <2>3
  <2>5. c \in IndexType /\ c[list] = next /\ \A l \in Lists \ {list} : c[l] = v[l]
    BY <1>3, <2>1, <2>4 DEF IndexType
  <2>6. IndexWrites(list, op, id, no) = <<<<IndexFile, c>>>>
    BY <1>1, <1>2, <1>5, <2>1 DEF IndexWrites
  <2>7. Opened(list, no, v, c)
    BY <2>1, <2>3, <2>4, <2>5 DEF Opened
  <2> QED
    BY <1>1, <1>2, <1>5, <2>5, <2>6, <2>7
<1>6. CASE op # "open"
  <2>0. op \in {"close", "reopen", "comment"}
    BY <1>6 DEF IndexOps
  <2>1. PICK j : j = Min(at)
    OBVIOUS
  <2>2. j \in DOMAIN v[list].items /\ v[list].items[j].id = id
    <3>1. at # {} /\ \A x \in at : x \in Nat
      BY <1>1, <1>3, <1>6
    <3>2. j \in at
      <4> HIDE DEF at
      <4> QED
        BY <2>1, <3>1, MinIn
    <3> QED
      BY <1>2, <3>2
  <2>3. PICK old : old = v[list].items[j]
    OBVIOUS
  <2>4. old \in Item /\ old.id = id /\ old \in Range(v[list].items)
    BY <1>2, <1>3, <2>2, <2>3 DEF Range
  <2>5. PICK new : new = IF op = "comment" THEN [old EXCEPT !.notes = @ \cup {no}]
                         ELSE [old EXCEPT !.state = op]
    OBVIOUS
  <2>6. new \in Item /\ Altered(op, no, old, new)
    BY <2>0, <2>4, <2>5 DEF Item, Altered
  <2>7. PICK t, next, c : /\ t = [v[list].items EXCEPT ![j] = new]
                          /\ next = [v[list] EXCEPT !.items[j] = new]
                          /\ c = [v EXCEPT ![list] = next]
    OBVIOUS
  <2>8. /\ t \in Seq(Item) /\ new \in Range(t) /\ Range(t) \subseteq Range(v[list].items) \cup {new}
        /\ Range(v[list].items) \ {old} \subseteq Range(t)
    <3>1. PICK s : s = v[list].items
      OBVIOUS
    <3>2. s \in Seq(Item) /\ j \in DOMAIN s /\ old = s[j] /\ t = [s EXCEPT ![j] = new] /\ new \in Item
      BY <1>2, <1>3, <2>2, <2>3, <2>6, <2>7, <3>1
    <3>3. /\ t \in Seq(Item) /\ DOMAIN t = DOMAIN s /\ t[j] = new
          /\ \A i \in DOMAIN s : i # j => t[i] = s[i]
      BY <3>2
    <3>4. /\ t[j] \in Range(t) /\ Range(t) \subseteq Range(s) \cup {t[j]}
          /\ Range(s) \ {s[j]} \subseteq Range(t)
      BY <3>2, <3>3, ReplaceRange
    <3> QED
      BY <3>1, <3>2, <3>3, <3>4
  <2>9. next \in [items : Seq(Item), next : Nat] /\ next.items = t
    BY <1>3, <2>7, <2>8
  <2>10. c \in IndexType /\ c[list] = next /\ \A l \in Lists \ {list} : c[l] = v[l]
    BY <1>3, <2>7, <2>9 DEF IndexType
  <2>11. IndexWrites(list, op, id, no) = change(new)
    <3>1. CASE op = "comment"
      BY <1>1, <1>2, <2>1, <2>3, <2>5, <3>1 DEF IndexWrites
    <3>2. CASE op \in {"close", "reopen"}
      BY <1>1, <1>2, <2>1, <2>3, <2>5, <3>2 DEF IndexWrites
    <3> QED
      BY <2>0, <3>1, <3>2
  <2>12. change(new) = <<<<IndexFile, c>>>>
    BY <1>2, <2>1, <2>7
  <2>13. Changed(list, op, id, no, v, c)
    BY <2>4, <2>6, <2>8, <2>9, <2>10 DEF Changed
  <2> QED
    BY <1>1, <1>2, <1>6, <2>10, <2>11, <2>12, <2>13
<1> QED
  BY <1>5, <1>6

\* What was answered is still shown by an index that has an item more,
LEMMA HoldsOpened ==
  ASSUME NEW list \in Lists, NEW no, NEW v, NEW c, Opened(list, no, v, c),
         \A l \in Lists \ {list} : c[l] = v[l],
         NEW k, k.item[1] \in Kinds["index"], Holds(k, v),
         k.item[1] = "made" => k.item[2] # no,
         k.item[1] = "state" => k.item[2][1] \in Lists,
         k.item[1] = "note" => k.val[1] \in Lists
  PROVE  Holds(k, c)
<1>1. PICK new : new = NewItem(v[list].next, no)
  OBVIOUS
<1>2. new.by = no /\ Range(c[list].items) = Range(v[list].items) \cup {new}
  BY <1>1 DEF Opened, NewItem
<1>3. \A l \in Lists : Range(v[l].items) \subseteq Range(c[l].items)
  BY <1>2
<1>4. \A l \in Lists : \A i \in Range(c[l].items) : i \in Range(v[l].items) \/ i.by = no
  BY <1>2
<1>5. k.item[1] # "member"
  BY DEF Kinds
<1>6. CASE k.item[1] = "made"
  BY <1>3, <1>4, <1>6 DEF Holds
<1>7. CASE k.item[1] = "state"
  BY <1>3, <1>7 DEF Holds
<1>8. CASE k.item[1] = "note"
  BY <1>3, <1>8 DEF Holds
<1> QED
  BY <1>6, <1>7, <1>8 DEF Kinds

\* and by one in which an item has changed, unless it was its state that was answered.
LEMMA HoldsChanged ==
  ASSUME NEW list \in Lists, NEW op \in IndexOps, NEW id, NEW no, NEW v, NEW c,
         Changed(list, op, id, no, v, c), \A l \in Lists \ {list} : c[l] = v[l],
         NEW k, k.item[1] \in Kinds["index"], Holds(k, v),
         k.item[1] = "state" => /\ k.item[2][1] \in Lists
                                /\ k.item[2][1] = list /\ k.item[2][2] = id => op = "comment",
         k.item[1] = "note" => k.val[1] \in Lists
  PROVE  Holds(k, c)
<1>1. PICK old \in Range(v[list].items), new \in Range(c[list].items) :
        /\ old.id = id /\ Altered(op, no, old, new)
        /\ Range(c[list].items) \subseteq Range(v[list].items) \cup {new}
        /\ Range(v[list].items) \ {old} \subseteq Range(c[list].items)
  BY DEF Changed
<1>2. new.id = id /\ new.by = old.by /\ old.notes \subseteq new.notes
  BY <1>1 DEF Altered
<1>3. ASSUME NEW l \in Lists, NEW i \in Range(c[l].items)
      PROVE  \E j \in Range(v[l].items) : j.id = i.id /\ j.by = i.by
  BY <1>1, <1>2, <1>3
<1>4. ASSUME NEW l \in Lists, NEW i \in Range(v[l].items)
      PROVE  \E j \in Range(c[l].items) :
                /\ j.id = i.id /\ j.by = i.by /\ i.notes \subseteq j.notes
                /\ j.state = i.state \/ (l = list /\ i.id = id /\ op # "comment")
  <2>1. CASE l = list /\ i = old
    BY <1>1, <1>2, <2>1 DEF Altered
  <2>2. CASE ~(l = list /\ i = old)
    BY <1>1, <1>4, <2>2
  <2> QED
    BY <2>1, <2>2
<1>6. CASE k.item[1] = "made"
  BY <1>3, <1>4, <1>6 DEF Holds
<1>7. CASE k.item[1] = "state"
  <2>1. PICK i \in Range(v[k.item[2][1]].items) : i.id = k.item[2][2] /\ i.state = k.val
    BY <1>7 DEF Holds
  <2>2. PICK j \in Range(c[k.item[2][1]].items) :
            j.id = i.id /\ (j.state = i.state \/ (k.item[2][1] = list /\ i.id = id /\ op # "comment"))
    BY <1>4, <1>7, <2>1
  <2> QED
    BY <1>7, <2>1, <2>2 DEF Holds
<1>8. CASE k.item[1] = "note"
  <2>1. PICK i \in Range(v[k.val[1]].items) : i.id = k.val[2] /\ k.item[2] \in i.notes
    BY <1>8 DEF Holds
  <2>2. PICK j \in Range(c[k.val[1]].items) : j.id = i.id /\ i.notes \subseteq j.notes
    BY <1>4, <1>8, <2>1
  <2> QED
    BY <1>8, <2>1, <2>2 DEF Holds
<1> QED
  BY <1>6, <1>7, <1>8 DEF Kinds

\* What a request that is about to save the index is answered with.
LEMMA OwnHolds ==
  ASSUME NEW q, NEW last, NEW list \in Lists, NEW id, q.op \in IndexOps, q.arg = <<list, id>>,
         NEW v, NEW c, last[2] = c, \A l \in Lists \ {list} : c[l] = v[l],
         \A l \in Lists : \A i \in Range(v[l].items) : i.by # q.no,
         q.op = "open" => Opened(list, q.no, v, c),
         q.op # "open" => Changed(list, q.op, id, q.no, v, c),
         NEW k \in Answers(q, last)
  PROVE  Holds(k, c)
<1>0. q.alone
  BY DEF Answers
<1>1. CASE q.op = "open"
  <2>1. PICK new : new = NewItem(v[list].next, q.no)
    OBVIOUS
  <2>2. /\ new.by = q.no /\ new.id = v[list].next /\ Range(c[list].items) = Range(v[list].items) \cup {new}
        /\ c[list].items[Len(c[list].items)] = new
    BY <1>1, <2>1 DEF Opened, NewItem
  <2>3. k = [item |-> <<"made", q.no>>, val |-> <<list, new.id>>]
    BY <1>0, <1>1, <2>2 DEF Answers
  <2>4. k.item[1] = "made" /\ k.item[2] = q.no /\ k.val = <<list, new.id>>
    BY <2>3
  <2>5. ASSUME NEW l \in Lists, NEW i \in Range(c[l].items), i.by = q.no  PROVE <<l, i.id>> = k.val
    BY <2>2, <2>4, <2>5
  <2>6. \E l \in Lists : \E i \in Range(c[l].items) : i.by = q.no
    BY <2>2
  <2> QED
    BY <2>4, <2>5, <2>6 DEF Holds
<1>2. CASE q.op # "open"
  <2>1. PICK old \in Range(v[list].items), new \in Range(c[list].items) :
          old.id = id /\ Altered(q.op, q.no, old, new)
    BY <1>2 DEF Changed
  <2>2. CASE q.op \in {"close", "reopen"}
    <3>1. k = [item |-> <<"state", q.arg>>, val |-> q.op]
      BY <1>0, <2>2 DEF Answers
    <3>2. k.item[1] = "state" /\ k.item[2] = <<list, id>> /\ k.val = q.op
      BY <3>1
    <3>3. new.id = id /\ new.state = q.op
      BY <2>1, <2>2 DEF Altered
    <3> QED
      BY <2>1, <3>2, <3>3 DEF Holds
  <2>3. CASE q.op = "comment"
    <3>1. k = [item |-> <<"note", q.no>>, val |-> q.arg]
      BY <1>0, <2>3 DEF Answers
    <3>2. k.item[1] = "note" /\ k.item[2] = q.no /\ k.val = <<list, id>>
      BY <3>1
    <3>3. new.id = id /\ q.no \in new.notes
      BY <2>1, <2>3 DEF Altered
    <3> QED
      BY <2>1, <3>2, <3>3 DEF Holds
  <2> QED
    BY <1>2, <2>2, <2>3 DEF IndexOps
<1> QED
  BY <1>1, <1>2

\* What a request that has loaded will save.
WillSave(r) ==
    \E c \in ContentType :
        /\ req'[r].todo = <<<<Saved, c>>>> /\ MadeByUsed(c)'
        /\ \A k \in Answers(req'[r], <<Saved, c>>) : Holds(k, c)
        /\ \A k \in kept' : Holds(k, c)

\* An invitation or a removal has loaded the access list.
LEMMA MembersLoad ==
  ASSUME Shape, ReqsOK, KindsOK, SavesOK, family = "members", family' = family, NEW r \in Slots, Loaded(r)
  PROVE  WillSave(r)
<1>1. /\ req[r].op \in {"invite", "remove"} /\ req'[r].op = req[r].op /\ req'[r].arg = req[r].arg
      /\ req[r].arg \in Users
  BY SaveOps DEF Loaded, Asked, ReqsOK, ArgOK
<1>2. PICK a, v, c : /\ a = req[r].arg /\ v = Members
                     /\ c = IF req[r].op = "invite" THEN v \cup {a} ELSE v \ {a}
  OBVIOUS
<1>3. file[MembersFile] # Unreadable /\ req'[r].todo = <<<<MembersFile, c>>>>
  <2>1. req'[r].todo = AccessWrites(req[r].op, req[r].arg) /\ req'[r].todo # Refuse
    BY <1>1 DEF Loaded, Writes, IndexOps
  <2> QED
    BY <1>2, <2>1 DEF AccessWrites
<1>4. v \in SUBSET Users /\ \A k \in kept : Holds(k, v)
  BY <1>2, <1>3 DEF SavesOK, Saved, Current, ContentType
<1>5. c \in SUBSET Users
  BY <1>1, <1>2, <1>4
<1>6. ASSUME NEW k \in kept'  PROVE Holds(k, c)
  <2>1. k \in kept /\ k.item # <<"member", a>>
    BY <1>1, <1>2, <1>6 DEF Loaded, Decides
  <2>2. k.item[1] = "member" /\ k.item[2] # a /\ Holds(k, v)
    BY <1>4, <2>1 DEF KindsOK, Kinds, SavesOK, KeptOK
  <2>3. k.item[2] \in c <=> k.item[2] \in v
    BY <1>2, <2>2
  <2> QED
    BY <2>2, <2>3 DEF Holds
<1>7. ASSUME NEW k \in Answers(req'[r], <<Saved, c>>)  PROVE Holds(k, c)
  <2>1. k = [item |-> <<"member", a>>, val |-> req[r].op = "invite"]
    BY <1>1, <1>2, <1>7 DEF Answers
  <2>2. k.item[1] = "member" /\ k.item[2] = a /\ k.val = (req[r].op = "invite")
    BY <2>1
  <2>3. a \in c <=> req[r].op = "invite"
    BY <1>2
  <2>4. k.item[2] \in c <=> k.val
    BY <2>2, <2>3
  <2> QED
    BY <2>2, <2>4 DEF Holds
<1>8. MadeByUsed(c)'
  BY DEF MadeByUsed
<1> QED
  BY <1>3, <1>5, <1>6, <1>7, <1>8 DEF WillSave, Saved, ContentType

\* A request takes its number into use when it loads.
LEMMA NumberUsed ==
  ASSUME Shape, ReqsOK, NEW r \in Slots, Loaded(r), made' = made
  PROVE  req[r].no \in Nat /\ req[r].no \notin Used /\ req[r].no \in Used'
<1>1. req[r].no \in 1..made /\ req[r].pc # "idle" /\ made \in Nat /\ r \in Pending
  BY DEF ReqsOK, ArgOK, Loaded, Shape, Pending
<1>2. \A s \in Pending' : s \in Pending /\ s # r /\ req'[s].no = req[s].no
  BY DEF Loaded, Pending, Asked
<1>3. \A s \in Pending : req[s].pc # "idle" /\ s \in Slots
  BY DEF Pending
<1>4. \A s \in Pending' : req'[s].no # req[r].no
  BY <1>1, <1>2, <1>3 DEF ReqsOK
<1> QED
  BY <1>1, <1>4 DEF Used

\* A request on the index has loaded it: what was answered before is in what it will save.
LEMMA IndexLoad ==
  ASSUME Shape, ReqsOK, KindsOK, SavesOK, family = "index", family' = family, NEW r \in Slots, Loaded(r),
         made' = made, Used \subseteq Used'
  PROVE  WillSave(r)
<1>1. /\ req[r].op \in IndexOps /\ req'[r].op = req[r].op /\ req'[r].arg = req[r].arg
      /\ req'[r].no = req[r].no /\ req[r].arg = <<req[r].arg[1], req[r].arg[2]>>
      /\ req[r].arg[1] \in Lists
  BY SaveOps DEF Loaded, Asked, ReqsOK, ArgOK
<1>2. PICK list, id, op, no, v : /\ list = req[r].arg[1] /\ id = req[r].arg[2]
                                 /\ op = req[r].op /\ no = req[r].no /\ v = Index
  OBVIOUS
<1>3. no \in Nat /\ no \notin Used /\ no \in Used'
  BY <1>2, NumberUsed
<1>4. req'[r].todo = IndexWrites(list, op, id, no) /\ req'[r].todo # Refuse
  BY <1>1, <1>2 DEF Loaded, Writes, IssueRoutes, PullRoutes, Lists, IndexOps
<1>5. IndexParses
  BY <1>4 DEF IndexWrites
<1>6. v \in IndexType /\ MadeByUsed(v) /\ \A k \in kept : Holds(k, v)
  BY <1>2, <1>5 DEF SavesOK, Saved, Current, ContentType, IndexParses
<1>7. PICK c \in IndexType :
        /\ req'[r].todo = <<<<IndexFile, c>>>>
        /\ \A l \in Lists \ {list} : c[l] = v[l]
        /\ op = "open" => Opened(list, no, v, c)
        /\ op # "open" => Changed(list, op, id, no, v, c)
  BY <1>1, <1>2, <1>3, <1>4, <1>6, IndexIs
<1>8. \A l \in Lists : \A i \in Range(v[l].items) : i.by \in Used /\ i.by # no
  BY <1>3, <1>6 DEF MadeByUsed
<1>9. ASSUME NEW l \in Lists, NEW i \in Range(c[l].items)
      PROVE  i.by = no \/ \E j \in Range(v[l].items) : j.by = i.by
  <2>1. CASE l # list
    BY <1>7, <1>9, <2>1
  <2>2. CASE l = list /\ op = "open"
    BY <1>7, <1>9, <2>2 DEF Opened, NewItem
  <2>3. CASE l = list /\ op # "open"
    <3>1. PICK old \in Range(v[list].items), new \in Range(c[list].items) :
            /\ new.by = old.by /\ Range(c[list].items) \subseteq Range(v[list].items) \cup {new}
      BY <1>7, <2>3 DEF Changed, Altered
    <3> QED
      BY <1>9, <2>3, <3>1
  <2> QED
    BY <2>1, <2>2, <2>3
<1>10. MadeByUsed(c)'
  BY <1>3, <1>8, <1>9 DEF MadeByUsed
<1>11. ASSUME NEW k \in kept'  PROVE Holds(k, c)
  <2>1. k \in kept /\ k.item \notin Decides(req[r].op, req[r].arg)
    BY <1>11 DEF Loaded
  <2>2. k.item[1] \in Kinds["index"] /\ KeptOK(k) /\ Holds(k, v)
    BY <1>6, <2>1 DEF KindsOK, SavesOK
  <2>3. CASE op = "open"
    <3>1. k.item[1] = "made" => k.item[2] # no
      BY <1>3, <2>2 DEF KeptOK
    <3> QED
      BY <1>1, <1>2, <1>7, <2>2, <2>3, <3>1, HoldsOpened DEF KeptOK
  <2>4. CASE op # "open"
    <3>1. op \in {"close", "reopen"} => k.item # <<"state", <<list, id>>>>
      BY <1>1, <1>2, <2>1 DEF Decides
    <3>2. k.item[1] = "state" /\ k.item[2][1] = list /\ k.item[2][2] = id => op = "comment"
      <4> SUFFICES ASSUME k.item[1] = "state", k.item[2][1] = list, k.item[2][2] = id
                   PROVE  op = "comment"
        OBVIOUS
      <4>1. k.item = <<"state", k.item[2]>> /\ k.item[2] = <<list, id>>
        BY <2>2 DEF KeptOK
      <4> QED
        BY <1>1, <1>2, <2>4, <3>1, <4>1 DEF IndexOps
    <3> QED
      BY <1>1, <1>2, <1>7, <2>2, <2>4, <3>2, HoldsChanged DEF KeptOK
  <2> QED
    BY <2>3, <2>4
<1>12. ASSUME NEW k \in Answers(req'[r], <<Saved, c>>)  PROVE Holds(k, c)
  <2>1. PICK q, last : q = req'[r] /\ last = <<Saved, c>>
    OBVIOUS
  <2>2. q.op \in IndexOps /\ q.op = op /\ q.arg = <<list, id>> /\ q.no = no /\ last[2] = c
    BY <1>1, <1>2, <2>1
  <2>3. list \in Lists /\ k \in Answers(q, last)
    BY <1>1, <1>2, <1>12, <2>1
  <2> QED
    BY <1>7, <1>8, <2>2, <2>3, OwnHolds
<1> QED
  BY <1>7, <1>10, <1>11, <1>12 DEF WillSave, Saved, ContentType

\* What the file holds stays right while it is not written and no more is answered.
LEMMA CurrentKept ==
  ASSUME family \in {"members", "index"}, family' = family, SavesOK, file' = file, kept' \subseteq kept,
         Used \subseteq Used'
  PROVE  /\ \A k \in kept' : KeptOK(k)'
         /\ file'[Saved'] # Unreadable =>
              Current' \in ContentType' /\ MadeByUsed(Current)' /\ \A k \in kept' : Holds(k, Current')
<1>1. Saved' = Saved /\ ContentType' = ContentType
  BY DEF Saved, ContentType
<1>2. Current' = Current
  BY DEF Current, Members, Index, Exists
<1>3. \A k \in kept' : KeptOK(k)'
  BY DEF SavesOK, KeptOK
<1>4. file[Saved] # Unreadable =>
        Current \in ContentType /\ MadeByUsed(Current) /\ \A k \in kept : Holds(k, Current)
  BY DEF SavesOK
<1>5. MadeByUsed(Current) => MadeByUsed(Current)'
  BY <1>2 DEF MadeByUsed
<1> QED
  BY <1>1, <1>2, <1>3, <1>4, <1>5

\* A request has loaded the file and works on a copy.
LEMMA SavesLoad ==
  ASSUME Shape, ReqsOK, KindsOK, SavesOK, family \in {"members", "index"}, family' = family,
         NEW r \in Slots, Loaded(r), UNCHANGED <<file, made>>, Used \subseteq Used'
  PROVE  SavesOK'
<1>1. WillSave(r)
  BY MembersLoad, IndexLoad
<1>2. kept' \subseteq kept
  BY DEF Loaded
<1>3. SaveOK(r)'
  <2>1. PICK c \in ContentType :
          /\ req'[r].todo = <<<<Saved, c>>>> /\ MadeByUsed(c)'
          /\ \A k \in Answers(req'[r], <<Saved, c>>) : Holds(k, c)
          /\ \A k \in kept' : Holds(k, c)
    BY <1>1 DEF WillSave
  <2>2. req'[r].todo[1] = <<Saved, c>> /\ Content(r)' = c /\ Saved' = Saved /\ ContentType' = ContentType
    BY <2>1 DEF Content, Saved, ContentType
  <2>3. req'[r].op \in SaveOpSet
    BY SaveOps DEF Loaded, Asked, SaveOpSet
  <2>4. \A k \in Sure(req[r], req[r].todo[1])' : Holds(k, c)
    BY <2>1, <2>2, <2>3, SureIs
  <2>5. MadeByUsed(Content(r))'
    BY <2>1, <2>2 DEF MadeByUsed
  <2> QED
    BY <2>1, <2>2, <2>4, <2>5 DEF SaveOK
<1>4. ASSUME NEW s \in Slots \ {r}, Writing(s)'  PROVE SaveOK(s)'
  <2>1. /\ Writing(s) /\ req'[s].todo = req[s].todo /\ (req'[s].alone => req[s].alone) /\ Asked(s)
    BY <1>4 DEF Loaded, Writing
  <2>2. SaveOK(s) /\ req[s].op \in SaveOpSet
    BY <2>1, SaveOps DEF SavesOK, SaveOpSet, Writing
  <2> QED
    BY <1>2, <2>1, <2>2, SaveKept
<1>5. \A s \in Slots : Writing(s)' => SaveOK(s)'
  BY <1>3, <1>4
<1>6. /\ \A k \in kept' : KeptOK(k)'
      /\ file'[Saved'] # Unreadable =>
           Current' \in ContentType' /\ MadeByUsed(Current)' /\ \A k \in kept' : Holds(k, Current')
  BY <1>2, CurrentKept
<1> QED
  BY <1>5, <1>6 DEF SavesOK

\* The file is truncated before it is written.
LEMMA SavesBegin ==
  ASSUME Shape, SavesOK, family \in {"members", "index"}, family' = family,
         NEW r \in Slots, Begun(r), Used \subseteq Used'
  PROVE  SavesOK'
<1>1. ASSUME NEW s \in Slots, Writing(s)'  PROVE SaveOK(s)'
  <2>1. /\ Writing(s) /\ req'[s].todo = req[s].todo /\ req'[s].alone = req[s].alone /\ Asked(s)
    BY <1>1 DEF Begun, Writing
  <2>2. SaveOK(s) /\ req[s].op \in SaveOpSet /\ kept' = kept
    BY <2>1, SaveOps DEF SavesOK, SaveOpSet, Writing, Begun
  <2> QED
    BY <2>1, <2>2, SaveKept
<1>2. file'[Saved'] = Unreadable
  <2>1. Target(r) = Saved /\ Saved \in FileNames /\ Saved' = Saved
    BY SaveFiles DEF SavesOK, SaveOK, Begun, Writing, Target, Saved
  <2> QED
    BY <2>1 DEF Begun, Shape
<1>3. \A k \in kept' : KeptOK(k)'
  BY DEF SavesOK, KeptOK, Begun
<1> QED
  BY <1>1, <1>2, <1>3 DEF SavesOK

\* What a request that saves is answered with is of the right form.
LEMMA AnswersOK ==
  ASSUME Shape, Shape', ReqsOK, family \in {"members", "index"}, NEW r \in Slots, Writing(r), NEW last,
         NEW k \in Answers(req[r], last), Used \subseteq Used'
  PROVE  KeptOK(k)'
<1>1. ArgOK(r) /\ req[r].pc # "idle" /\ req[r].alone
  BY DEF ReqsOK, Writing, Answers
<1>2. CASE req[r].op \in {"invite", "remove"}
  <2>1. k = [item |-> <<"member", req[r].arg>>, val |-> req[r].op = "invite"]
    BY <1>1, <1>2 DEF Answers
  <2>2. k.item = <<"member", req[r].arg>> /\ k.val = (req[r].op = "invite")
    BY <2>1
  <2> QED
    BY <2>2 DEF KeptOK
<1>3. CASE req[r].op = "open"
  <2>1. PICK w : k = [item |-> <<"made", req[r].no>>, val |-> w]
    BY <1>1, <1>3 DEF Answers
  <2>2. k.item = <<"made", req[r].no>>
    BY <2>1
  <2>3. req[r].no \in Used
    BY <1>1 DEF ReqsOK, ArgOK, Used, Pending, Writing
  <2> QED
    BY <2>2, <2>3 DEF KeptOK
<1>4. CASE req[r].op \in {"close", "reopen"}
  <2>1. k = [item |-> <<"state", req[r].arg>>, val |-> req[r].op]
    BY <1>1, <1>4 DEF Answers
  <2>2. k.item = <<"state", req[r].arg>>
    BY <2>1
  <2>3. req[r].arg[1] \in Lists /\ req[r].arg = <<req[r].arg[1], req[r].arg[2]>>
    BY <1>1, <1>4 DEF ArgOK, IndexOps
  <2> QED
    BY <2>2, <2>3 DEF KeptOK
<1>5. CASE req[r].op = "comment"
  <2>1. k = [item |-> <<"note", req[r].no>>, val |-> req[r].arg]
    BY <1>1, <1>5 DEF Answers
  <2>2. k.item = <<"note", req[r].no>> /\ k.val = req[r].arg
    BY <2>1
  <2>3. req[r].arg[1] \in Lists
    BY <1>1, <1>5 DEF ArgOK, IndexOps
  <2> QED
    BY <2>2, <2>3 DEF KeptOK
<1> QED
  BY <1>1, <1>2, <1>3, <1>4, <1>5, SaveOps DEF IndexOps

\* The file is saved, whole or in pieces, and the request is answered: a request that is
\* alone answers for it, and then no other has a copy of the old contents to save.
LEMMA SavesEnd ==
  ASSUME Shape, Shape', ReqsOK, AloneOK, SavesOK, family \in {"members", "index"}, family' = family,
         NEW r \in Slots, Passed(r), NEW v, Ended(r, v), Used \subseteq Used'
  PROVE  SavesOK'
<1>1. Writing(r) /\ SaveOK(r) /\ req[r].op \in SaveOpSet
  BY SaveOps DEF Passed, Writing, SavesOK, SaveOpSet
<1>2. PICK L, c : L = req[r].todo[1] /\ c = Content(r)
  OBVIOUS
<1>3. L[2] = c /\ Head(req[r].todo) = L /\ L[1] = Saved /\ ~(Len(req[r].todo) > 1)
  BY <1>1, <1>2 DEF SaveOK, Content
<1>4. kept' = kept \cup Answers(req[r], L) /\ req'[r] = IdleReq /\ \A s \in Slots \ {r} : req'[s] = req[s]
  BY <1>1, <1>2, <1>3, SureIs DEF Passed
<1>5. \A k \in kept' : Holds(k, c)
  BY <1>1, <1>2, <1>4, SureIs DEF SaveOK
<1>6. Saved' = Saved /\ ContentType' = ContentType /\ Saved \in FileNames
  BY SaveFiles DEF Saved, ContentType
<1>7. file'[Saved] = v /\ v \in {c, Unreadable}
  BY <1>3, <1>6 DEF Ended, Shape
<1>8. c \in ContentType /\ MadeByUsed(c) /\ c # Absent
  BY <1>1, <1>2, ContentsAssumption DEF SaveOK, ContentType
<1>9. v = c => Current' = c
  BY <1>6, <1>7, <1>8 DEF Current, Saved, Members, Index, Exists
<1>10. v = c => MadeByUsed(Current)'
  BY <1>8, <1>9 DEF MadeByUsed
<1>11. ASSUME NEW k \in kept'  PROVE KeptOK(k)'
  <2>1. CASE k \in kept
    BY <2>1 DEF SavesOK, KeptOK
  <2>2. CASE k \in Answers(req[r], L)
    BY <1>1, <2>2, AnswersOK
  <2> QED
    BY <1>4, <2>1, <2>2
<1>12. ASSUME NEW s \in Slots, Writing(s)'  PROVE SaveOK(s)'
  <2>1. s # r /\ req'[s] = req[s] /\ Writing(s)
    BY <1>4, <1>12, IdleIs DEF Writing
  <2>2. ResourceOf(s) = ResourceOf(r)
    BY <1>1, <2>1, SaveOps DEF Writing
  <2>3. ~req[r].alone
    BY <1>1, <2>1, <2>2 DEF AloneOK
  <2>4. kept' = kept
    BY <1>4, <2>3 DEF Answers
  <2>5. SaveOK(s) /\ req[s].op \in SaveOpSet /\ Asked(s)
    BY <2>1, SaveOps DEF SavesOK, SaveOpSet, Writing, Asked
  <2> QED
    BY <2>1, <2>4, <2>5, SaveKept
<1> QED
  BY <1>5, <1>6, <1>7, <1>8, <1>9, <1>10, <1>11, <1>12 DEF SavesOK

\* The file, when it parses, and every copy about to be saved hold what was answered.
LEMMA SavesStep ==
  ASSUME Shape, Shape', ReqsOK, KindsOK, AloneOK, SavesOK, family \in {"members", "index"}, family' = family,
         Used \subseteq Used', [Next]_vars
  PROVE  SavesOK'
<1>1. ASSUME UNCHANGED <<file, kept>>, \A s \in Slots : Writing(s)' => req'[s] = req[s] /\ Writing(s)
      PROVE  SavesOK'
  <2>1. ASSUME NEW s \in Slots, Writing(s)'  PROVE SaveOK(s)'
    <3>1. req'[s] = req[s] /\ Writing(s)
      BY <1>1, <2>1
    <3>2. SaveOK(s) /\ req[s].op \in SaveOpSet /\ Asked(s)
      BY <3>1, SaveOps DEF SavesOK, SaveOpSet, Writing, Asked
    <3> QED
      BY <1>1, <3>1, <3>2, SaveKept
  <2>2. /\ \A k \in kept' : KeptOK(k)'
        /\ file'[Saved'] # Unreadable =>
             Current' \in ContentType' /\ MadeByUsed(Current)' /\ \A k \in kept' : Holds(k, Current')
    BY <1>1, CurrentKept
  <2> QED
    BY <2>1, <2>2 DEF SavesOK
<1>2. ASSUME NEW r \in Slots, Quiet \/ Start(r), UNCHANGED <<file, kept>>
      PROVE  SavesOK'
  <2>1. \A s \in Slots : Writing(s)' => req'[s] = req[s] /\ Writing(s)
    BY <1>2, Unwritten DEF Writing
  <2> QED
    BY <1>1, <1>2, <2>1
<1>3. CASE Slots = {}
  BY <1>1, <1>3, StepIs
<1>4. ASSUME NEW r \in Slots, Start(r)  PROVE UNCHANGED <<file, kept>>
  BY <1>4 DEF Start
<1>5. ASSUME NEW r \in Slots, Passed(r), req[r].op = "create"  PROVE FALSE
  BY <1>5, SaveOps DEF Passed, IndexOps
<1> QED
  BY <1>2, <1>3, <1>4, <1>5, StepIs, SavesLoad, SavesBegin, SavesEnd

-----------------------------------------------------------------------------
(* The invariant holds at first, *)

\* Nothing is under way and nothing is answered.
LEMMA InitStay == Init => StayInv
<1> SUFFICES ASSUME Init PROVE StayInv
  OBVIOUS
<1>1. kept = {} /\ made = 0 /\ \A r \in Slots : req[r] = IdleReq /\ req[r].pc = "idle" /\ ~Writing(r)
  BY IdleIs DEF Init, Writing
<1>2. Shape /\ KindsOK /\ AloneOK /\ MixOK
  BY <1>1, InitShape DEF KindsOK, AloneOK, MixOK
<1>3. ReqsOK
  BY <1>1, IdleIs DEF ReqsOK, ArgOK, IndexOps
<1>4. family = "repo" => RepoOK
  BY <1>1, RepoFiles DEF Init, RepoOK
<1>5. family = "queue" => MailOK
  BY <1>1, InitQueue DEF MailOK
<1>6. family = "keys" => KeysOK
  BY <1>1 DEF KeysOK
<1>7. family = "members" => SavesOK
  <2> SUFFICES ASSUME family = "members" PROVE SavesOK
    OBVIOUS
  <2>1. file[MembersFile] = {Owner}
    BY SaveFiles, RepoFiles DEF Init, MembersFile, IdFile, NameFile
  <2>2. Members \in SUBSET Users
    BY <2>1 DEF Members
  <2> QED
    BY <1>1, <2>2 DEF SavesOK, Current, ContentType, MadeByUsed
<1>8. family = "index" => SavesOK
  <2> SUFFICES ASSUME family = "index" PROVE SavesOK
    OBVIOUS
  <2>1. file[IndexFile] = Absent
    BY SaveFiles DEF Init, MembersFile, IdFile, NameFile, IndexFile
  <2>2. Index = EmptyIndex
    BY <2>1 DEF Index, Exists
  <2>3. \A l \in Lists : EmptyIndex[l] = [items |-> <<>>, next |-> 1]
    BY DEF EmptyIndex
  <2>4. \A l \in Lists : EmptyIndex[l].items = <<>> /\ Range(EmptyIndex[l].items) = {}
    BY <2>3 DEF Range
  <2>5. EmptyIndex \in IndexType
    BY <2>3 DEF EmptyIndex, IndexType
  <2> QED
    BY <1>1, <2>2, <2>4, <2>5 DEF SavesOK, Current, ContentType, MadeByUsed
<1> QED
  BY <1>2, <1>3, <1>4, <1>5, <1>6, <1>7, <1>8 DEF StayInv

\* every step keeps it,
LEMMA NextStay == StayInv /\ [Next]_vars => StayInv'
<1> SUFFICES ASSUME StayInv, [Next]_vars PROVE StayInv'
  OBVIOUS
<1>1. Shape' /\ ReqsOK' /\ Used \subseteq Used' /\ KindsOK' /\ AloneOK'
  BY ShapeStep, ReqsStep, KindsStep, AloneStep DEF StayInv
<1>2. family' = family
  BY DEF Next, Kill, vars, fileVars
<1>3. ASSUME MixOK, \A r, s \in Slots : Writing(r) /\ Writing(s) /\ Target(r) = Target(s) =>
                        ResourceOf(r) = ResourceOf(s)
      PROVE  MixOK'
  BY <1>3, MixStep DEF StayInv
<1>4. CASE family = "repo"
  <2>1. MixOK'
    BY <1>3, <1>4, RepoOps DEF StayInv, Writing
  <2> QED
    BY <1>1, <1>2, <1>4, <2>1, RepoStep DEF StayInv
<1>5. CASE family = "queue"
  <2>1. MixOK'
    BY <1>3, <1>5, QueueOps DEF StayInv
  <2> QED
    BY <1>1, <1>2, <1>5, <2>1, MailStep DEF StayInv
<1>6. CASE family = "keys"
  <2>1. ASSUME NEW r \in Slots, NEW s \in Slots, Writing(r), Writing(s), Target(r) = Target(s)
        PROVE  ResourceOf(r) = ResourceOf(s)
    <3>1. KeyWritesOK(r) /\ KeyWritesOK(s)
      BY <1>6, <2>1 DEF StayInv, KeysOK
    <3>2. req[r].op = req[s].op
      BY <1>6, <2>1, <3>1, KeyTarget, KeyOps DEF StayInv, Writing
    <3> QED
      BY <1>6, <2>1, <3>2, KeyOps DEF StayInv, Writing
  <2>2. MixOK'
    BY <1>3, <1>6, <2>1 DEF StayInv
  <2> QED
    BY <1>1, <1>2, <1>6, <2>2, KeysStep DEF StayInv
<1>7. CASE family \in {"members", "index"}
  BY <1>1, <1>2, <1>7, SavesStep DEF StayInv
<1>8. CASE family \in {"blob", "accounts"}
  BY <1>1, <1>2, <1>8 DEF StayInv
<1>9. family \in {"repo", "members", "queue", "blob", "index", "keys", "accounts"}
  BY DEF StayInv, Shape, Ops
<1> QED
  BY <1>4, <1>5, <1>6, <1>7, <1>8, <1>9

\* and what was answered is shown by contents that hold it.
LEMMA HoldsShows ==
  ASSUME family \in {"members", "index"}, SavesOK, NEW k \in kept, k.item[1] \in Kinds[family]
  PROVE  Shows(k)
<1>1. KeptOK(k) /\ (file[Saved] # Unreadable => Holds(k, Current))
  BY DEF SavesOK
<1>2. CASE family = "members"
  <2>1. k.item[1] = "member" /\ k.val \in BOOLEAN
    BY <1>1, <1>2 DEF Kinds, KeptOK
  <2>2. file[MembersFile] # Unreadable => (k.item[2] \in Members <=> k.val)
    BY <1>1, <1>2, <2>1 DEF Holds, Saved, Current
  <2>3. file[MembersFile] # Unreadable => (k.item[2] \in Members) = k.val
    BY <2>1, <2>2
  <2> QED
    BY <2>1, <2>3 DEF Shows
<1>3. CASE family = "index"
  <2>1. IndexParses => Holds(k, Index)
    BY <1>1, <1>3 DEF IndexParses, Saved, Current
  <2>2. CASE k.item[1] = "made"
    <3> SUFFICES ASSUME IndexParses PROVE MadeBy(k.item[2]) = {k.val}
      BY <2>2 DEF Shows
    <3>1. /\ \A l \in Lists : \A i \in Range(Index[l].items) : i.by = k.item[2] => <<l, i.id>> = k.val
          /\ \E l \in Lists : \E i \in Range(Index[l].items) : i.by = k.item[2]
      BY <2>1, <2>2 DEF Holds
    <3>2. \A p : p \in MadeBy(k.item[2]) <=>
            \E l \in Lists : \E i \in Range(Index[l].items) : i.by = k.item[2] /\ p = <<l, i.id>>
      BY DEF MadeBy
    <3> QED
      BY <3>1, <3>2
  <2>3. CASE k.item[1] = "state"
    BY <2>1, <2>3 DEF Shows, Holds, Numbered
  <2>4. CASE k.item[1] = "note"
    BY <2>1, <2>4 DEF Shows, Holds, Numbered
  <2> QED
    BY <1>3, <2>2, <2>3, <2>4 DEF Kinds
<1> QED
  BY <1>2, <1>3

\* The invariant is enough.
LEMMA StayShows == StayInv => AckedStay
<1> SUFFICES ASSUME StayInv, NEW k \in kept PROVE Shows(k)
  BY DEF AckedStay
<1>1. k.item[1] \in Kinds[family]
  BY DEF StayInv, KindsOK
<1>2. CASE family = "repo"
  <2>1. k.item[1] = "repo"
    BY <1>1, <1>2 DEF Kinds
  <2> QED
    BY <1>2, <2>1 DEF StayInv, RepoOK, Shows
<1>3. CASE family = "queue"
  <2>1. k.item[1] = "mls"
    BY <1>1, <1>3 DEF Kinds
  <2> QED
    BY <1>3, <2>1 DEF StayInv, MailOK, Shows
<1>4. CASE family = "keys"
  <2>1. k.item[1] = "keylog"
    BY <1>1, <1>4 DEF Kinds
  <2> QED
    BY <1>4, <2>1 DEF StayInv, KeysOK, Shows
<1>5. CASE family \in {"members", "index"}
  BY <1>1, <1>5, HoldsShows DEF StayInv
<1>6. CASE family = "blob"
  <2>1. k.item[1] = "blob"
    BY <1>1, <1>6 DEF Kinds
  <2> QED
    BY <2>1 DEF Shows
<1>7. CASE family = "accounts"
  BY <1>1, <1>7 DEF Kinds
<1>8. family \in {"repo", "members", "queue", "blob", "index", "keys", "accounts"}
  BY DEF StayInv, Shape, Ops
<1> QED
  BY <1>2, <1>3, <1>4, <1>5, <1>6, <1>7, <1>8

\* A change that was answered with success, and that no other request overlapped, stays until
\* the next change of the same thing, whatever overlaps it later, fails or is killed: none of
\* these files has a lock (routes.rs, browse.rs and collab.rs, over LocalStore of local.rs).
THEOREM StaySafe == Spec => []AckedStay
<1> QED
  BY InitStay, NextStay, StayShows, PTL DEF Spec
=============================================================================
