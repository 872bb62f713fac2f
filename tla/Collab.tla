------------------------------- MODULE Collab -------------------------------
(***************************************************************************)
(* Issues, pull requests, milestones, labels and the other collaboration   *)
(* messages: the inbox that every device folds them from                   *)
(* (safehub-cli/src/cmds/common.rs, safehub-browse/src/collab.rs) and the  *)
(* commands and pages that send them (cmds/issue.rs, pr.rs, milestone.rs,  *)
(* label.rs ..., safehub-browse/src/routes.rs).                            *)
(*                                                                         *)
(*   home[p]    the device of process p                                    *)
(*   queue      the delivery queue of the repository                       *)
(*   key[d]     the epoch whose key device d holds (CurrentKey in the end) *)
(*   cursor[d]  mls_cursor.json                                            *)
(*   cache[d]   the inbox directory: one file per message                  *)
(*   cmd[p]     the command or page request that process p is running      *)
(*                                                                         *)
(* The processes of a device (`sh` and the browsing server) share its      *)
(* cursor and its cache.  A command reads the cursor, fetches one page,    *)
(* writes the messages it can open to the cache one by one, saves the      *)
(* cursor, folds the whole cache and sends one message; others run in      *)
(* between, and it may be killed anywhere, in the middle of a file too.    *)
(*                                                                         *)
(* A run is about one `topic`: a kind of item (issue, pr, milestone) or a  *)
(* kind of named thing (label, ...).  Of a message the fields that the     *)
(* folds tell apart are kept; base and head of a pull request fare like    *)
(* its title.  The queue itself is Host's.                                 *)
(***************************************************************************)
EXTENDS Naturals, Sequences, FiniteSetsExt, SequencesExt

CONSTANTS Devices, Procs,
          Homes,       \* the ways the processes may sit on the devices
          Topics,      \* the topics of the run
          Ids,         \* the items that commands are aimed at
          Texts,       \* titles and bodies
          NoText,      \* the empty string, or no due date
          Absent, Unreadable,
          FetchLimit,  \* messages in one page of mls_fetch
          MaxQueue,    \* bound: messages
          MaxKills,    \* bound: kills, topic by topic
          MaxRekeys    \* bound: devices that take up a new key, topic by topic

ASSUME CollabAssumption ==
    /\ Homes \subseteq [Procs -> Devices]
    /\ NoText \notin Texts /\ Ids \subseteq Nat
    /\ {FetchLimit, MaxQueue} \subseteq Nat
    /\ {MaxKills, MaxRekeys} \subseteq [Topics -> Nat]

VARIABLES topic, home, queue, key, cursor, cache, cmd, kills,
          missed  \* history: <<device, message>> that a sync could not open, or that a
                  \* kill tore after another process had cached it

vars == <<topic, home, queue, key, cursor, cache, cmd, kills, missed>>

Seqs == 1..MaxQueue
Items == {"issue", "pr", "milestone"}
Fields == {"title", "body", "state"}

-----------------------------------------------------------------------------
(* Named things.  Each command sends messages with an action; a listing keeps, name
   by name, what the last message left ("live"), or shows every message that is not
   a deletion ("every"). *)

LabelCmd == [kind |-> "label", sends |-> {"create", "delete"}, lists |-> "live"]
SecretCmd == [kind |-> "secret", sends |-> {"set", "delete"}, lists |-> "live"]
VariableCmd == [kind |-> "variable", sends |-> {"set", "delete"}, lists |-> "live"]
GistCmd == [kind |-> "gist", sends |-> {"create", "edit", "delete"}, lists |-> "live"]
ReleaseCmd == [kind |-> "release", sends |-> {"create", "tombstone"}, lists |-> "every"]
ProjectCmd == [kind |-> "project", sends |-> {"create"}, lists |-> "every"]
CodespaceCmd == [kind |-> "codespace", sends |-> {"create", "delete"}, lists |-> "every"]
WorkflowCmd == [kind |-> "run", sends |-> {"queued"}, lists |-> "every"]
RunCmd == [kind |-> "run", sends |-> {"completed", "verdict", "cancelled"}, lists |-> "every"]

NamedCmds == {LabelCmd, SecretCmd, VariableCmd, GistCmd, ReleaseCmd, ProjectCmd,
              CodespaceCmd, WorkflowCmd, RunCmd}
NamedOf(kind) == {c \in NamedCmds : c.kind = kind}
Sends(kind) == UNION {c.sends : c \in NamedOf(kind)}

-----------------------------------------------------------------------------
(* The inbox *)

\* sync_inbox asks for what is past the cursor, one page of it.
PageAfter(n) == {s \in 1..Len(queue) : s > n /\ s <= n + FetchLimit}

\* open_collab: only the key the message was sealed under opens it.
Openable(s, k) == queue[s].key = k

\* read_inbox_cache: the messages by number; one file that does not parse fails it.
CacheReads(d) == \A s \in Seqs : cache[d][s] # Unreadable
Cached(d) == {s \in Seqs : cache[d][s] \notin {Absent, Unreadable}}
Messages(d) ==
    [i \in 1..Cardinality(Cached(d)) |->
        cache[d][CHOOSE s \in Cached(d) : Cardinality({x \in Cached(d) : x <= s}) = i]]

\* Mutant of Newer: an empty field overwrites.
NewerAlways(old, new) == new

\* What a field is after a message that carries `new`.
Newer(old, new) == IF new = NoText THEN old ELSE new

NoItem == [exists |-> FALSE, title |-> NoText, body |-> NoText, state |-> NoText, comments |-> {}]

\* fold_collab_inbox and fold_milestones for one item; the command's view of it.
FoldItem(messages, id) ==
    LET step(e, m) ==
            IF m.id # id THEN e
            ELSE IF m.act = "comment"
            THEN IF e.exists THEN [e EXCEPT !.comments = @ \cup {m.no}] ELSE e
            ELSE [exists |-> TRUE, title |-> Newer(e.title, m.title),
                  body |-> Newer(e.body, m.body), state |-> Newer(e.state, m.state),
                  comments |-> e.comments]
    IN FoldLeft(step, NoItem, messages)

\* Mutant of FoldNames: a name once deleted stays away.
FoldNamesOnce(messages) ==
    LET acts(a) == {messages[i].id : i \in {k \in DOMAIN messages : messages[k].act \in a}}
    IN acts({"create", "set", "edit"}) \ acts({"delete"})

\* The names that a listing of labels, secrets, variables or gists shows.
FoldNames(messages) ==
    LET step(live, m) == IF m.act = "delete" THEN live \ {m.id} ELSE live \cup {m.id}
    IN FoldLeft(step, {}, messages)

Listing(kind, messages) ==
    IF \A c \in NamedOf(kind) : c.lists = "live" THEN FoldNames(messages)
    ELSE {messages[i].id : i \in {k \in DOMAIN messages : messages[k].act # "delete"}}

\* Mutant of NextNumber: one past the largest number of an open item.
NextNumberOpen(messages) ==
    1 + Max({0} \cup {n \in 1..Len(messages) : FoldItem(messages, n).state = "open"})

\* next_collab_number: one past the largest there is.
NextNumber(messages) ==
    1 + Max({0} \cup {messages[i].id : i \in {k \in DOMAIN messages : messages[k].act # "comment"}})

-----------------------------------------------------------------------------
(* The commands: what they send, given the messages the command has folded.  `asked`
   holds the fields the user named and `had` what the sender knew; they are for the
   properties.  Key, number and `had` are those of the sending. *)

Message(act, id, title, body, state, asked) ==
    [act |-> act, id |-> id, title |-> title, body |-> body, state |-> state, asked |-> asked,
     key |-> 0, no |-> 0, had |-> {}]
Comment(id) == Message("comment", id, NoText, NoText, NoText, {})

\* Changes to an item that is there: closing, reopening and merging send the title
\* along, editing all that the view shows.
ChangeItem(op, id, text, view) ==
    IF ~view.exists THEN {} ELSE
    CASE op \in {"closed", "open", "merged"} -> {Message("item", id, view.title, NoText, op, {"state"})}
      [] op = "title" -> {Message("item", id, text, view.body, view.state, {"title"})}
      [] op = "body" -> {Message("item", id, view.title, text, view.state, {"body"})}

\* pr.rs.  Comments and reviews are sent without a look at the inbox.
PrCmd(op, id, text, messages) ==
    CASE op = "create" -> {Message("item", NextNumber(messages), text, text, "open", Fields)}
      [] op = "comment" -> {Comment(id)}
      [] OTHER -> ChangeItem(op, id, text, FoldItem(messages, id))

\* issue.rs, where nothing is merged; `delete` closes and then comments.
IssueCmd(op, id, text, messages) ==
    IF op = "merged" THEN {} ELSE PrCmd(op, id, text, messages)

\* milestone.rs: the title names the milestone, the body is its due date, which a
\* change of state sends along, for a milestone nobody made too.
MilestoneCmd(op, id, text, messages) ==
    CASE op = "create" -> {Message("item", 1, NoText, text, "open", Fields)}
      [] op \in {"closed", "open"} ->
            {Message("item", 1, NoText, FoldItem(messages, 1).body, op, {"state"})}
      [] OTHER -> {}

\* The pages: apply_pr_action sends nothing, a comment neither, about a pull request that
\* is not there, and does not edit.
PrAction(op, id, text, messages) ==
    LET view == FoldItem(messages, id) IN
    CASE op = "comment" -> IF view.exists THEN {Comment(id)} ELSE {}
      [] op \in {"closed", "open"} -> ChangeItem(op, id, text, view)
      [] OTHER -> {}
BrowsePr(op, id, text, messages) ==
    IF op = "create" THEN PrCmd(op, id, text, messages) ELSE PrAction(op, id, text, messages)

\* create_issue and apply_issue_action are alike.
BrowseIssue(op, id, text, messages) == BrowsePr(op, id, text, messages)

ItemOps == {"create", "comment", "closed", "open", "merged", "title", "body"}

\* `sh` looks at the inbox except to comment, or to make a milestone.
Loads(op) == ~(op = "comment" \/ (topic = "milestone" /\ op = "create"))

ItemCmd(page, op, id, text, messages) ==
    CASE topic = "milestone" -> IF page THEN {} ELSE MilestoneCmd(op, id, text, messages)
      [] topic = "pr" -> IF page THEN BrowsePr(op, id, text, messages)
                         ELSE PrCmd(op, id, text, messages)
      [] OTHER -> IF page THEN BrowseIssue(op, id, text, messages)
                  ELSE IssueCmd(op, id, text, messages)

-----------------------------------------------------------------------------
IdleCmd == [pc |-> "idle"]

Init ==
    /\ topic \in Topics
    /\ home \in Homes
    /\ queue = <<>>
    /\ key = [d \in Devices |-> 1]
    /\ cursor = [d \in Devices |-> 0]
    /\ cache = [d \in Devices |-> [s \in Seqs |-> Absent]]
    /\ cmd = [p \in Procs |-> IdleCmd]
    /\ kills = 0
    /\ missed = {}

\* The device takes up the current epoch: it is welcomed, or it rotated.
Rekey(d) ==
    /\ d \in Range(home) /\ key[d] = 1
    /\ Cardinality({e \in Devices : key[e] = 2}) < MaxRekeys[topic]
    /\ key' = [key EXCEPT ![d] = 2]
    /\ UNCHANGED <<topic, home, queue, cursor, cache, cmd, kills, missed>>

\* The other processes on p's cache, and those of them that are writing the cursor.
Others(p) == {q \in Procs \ {p} : home[q] = home[p]}
SavesCursor(q) == cmd[q].pc = "cache" /\ cmd[q].todo = {}

\* A process begins to load: it takes the key and reads the cursor, as 0 if another
\* process is just writing the file.
LoadCursor(p) ==
    /\ cmd[p].pc = "idle"
    /\ \E after \in {cursor[home[p]]} \cup {0 : q \in {o \in Others(p) : SavesCursor(o)}} :
        cmd' = [cmd EXCEPT ![p] = [pc |-> "fetch", key |-> key[home[p]], after |-> after]]
    /\ UNCHANGED <<topic, home, queue, key, cursor, cache, kills, missed>>

FetchPage(p) ==
    LET page == PageAfter(cmd[p].after)
        opened == {s \in page : Openable(s, cmd[p].key)} IN
    /\ cmd[p].pc = "fetch"
    /\ cmd' = [cmd EXCEPT ![p] = IF page = {} THEN [pc |-> "fold", key |-> cmd[p].key]
                                  ELSE [pc |-> "cache", key |-> cmd[p].key,
                                        page |-> page, todo |-> opened]]
    /\ missed' = missed \cup {<<home[p], s>> : s \in page \ opened}
    /\ UNCHANGED <<topic, home, queue, key, cursor, cache, kills>>

\* Write the next message to the cache.
CacheOne(p) ==
    LET d == home[p]
        s == Min(cmd[p].todo) IN
    /\ cmd[p].pc = "cache" /\ cmd[p].todo # {}
    /\ cache' = [cache EXCEPT ![d][s] = queue[s]]
    /\ cmd' = [cmd EXCEPT ![p].todo = @ \ {s}]
    /\ missed' = missed \ {<<d, s>>}
    /\ UNCHANGED <<topic, home, queue, key, cursor, kills>>

\* Mutant of SaveCursor: saves it before the messages are cached.
SaveCursorFirst(p) ==
    /\ cmd[p].pc = "cache" /\ cursor[home[p]] < Max(cmd[p].page)
    /\ cursor' = [cursor EXCEPT ![home[p]] = Max(cmd[p].page)]
    /\ UNCHANGED <<topic, home, queue, key, cache, cmd, kills, missed>>

\* The cursor moves past the whole page.
SaveCursor(p) ==
    /\ SavesCursor(p)
    /\ cursor' = [cursor EXCEPT ![home[p]] = Max(cmd[p].page)]
    /\ cmd' = [cmd EXCEPT ![p] = [pc |-> "fold", key |-> cmd[p].key]]
    /\ UNCHANGED <<topic, home, queue, key, cache, kills, missed>>

\* Fold the cache and work out what to send, or stop: the item is not there, or the
\* command only shows what it folded.  `had` is what the process knew.
Fold(p, page) ==
    LET d == home[p] IN
    /\ cmd[p].pc = "fold" /\ topic \in Items /\ CacheReads(d)
    /\ \E op \in {o \in ItemOps : page \/ Loads(o)}, id \in Ids, text \in Texts :
        \E m \in ItemCmd(page, op, id, text, Messages(d)) :
            cmd' = [cmd EXCEPT ![p] = [pc |-> "send", key |-> cmd[p].key, had |-> Cached(d), msg |-> m]]
    /\ UNCHANGED <<topic, home, queue, key, cursor, cache, kills, missed>>

Stop(p) ==
    /\ cmd[p].pc = "fold"
    /\ cmd' = [cmd EXCEPT ![p] = IdleCmd]
    /\ UNCHANGED <<topic, home, queue, key, cursor, cache, kills, missed>>

\* enqueue_collab: sealed under the key the command loaded.
Enqueue(p, m, k, had) ==
    /\ Len(queue) < MaxQueue
    /\ queue' = Append(queue, [m EXCEPT !.key = k, !.no = Len(queue) + 1, !.had = had])
    /\ cmd' = [cmd EXCEPT ![p] = IdleCmd]
    /\ UNCHANGED <<topic, home, key, cursor, cache, kills, missed>>

Send(p) == cmd[p].pc = "send" /\ Enqueue(p, cmd[p].msg, cmd[p].key, cmd[p].had)

\* A command that sends without a look at the inbox.
SendDirect(p) ==
    /\ cmd[p].pc = "idle"
    /\ \/ /\ topic \in Items
          /\ \E op \in {o \in ItemOps : ~Loads(o)}, id \in Ids, text \in Texts :
                \E m \in ItemCmd(FALSE, op, id, text, <<>>) : Enqueue(p, m, key[home[p]], {})
       \/ /\ topic \notin Items
          /\ \E act \in Sends(topic) :
                Enqueue(p, Message(act, 1, NoText, NoText, NoText, {}), key[home[p]], {})

\* The process is killed.  A file it was writing stays as it is; a cursor that does
\* not parse counts as 0.
Kill(p) ==
    LET d == home[p] IN
    /\ cmd[p].pc # "idle" /\ kills < MaxKills[topic] /\ kills' = kills + 1
    /\ cmd' = [cmd EXCEPT ![p] = IdleCmd]
    /\ \/ UNCHANGED <<cache, cursor, missed>>
       \/ /\ cmd[p].pc = "cache" /\ cmd[p].todo # {}
          /\ LET s == Min(cmd[p].todo)
                 past == s <= cursor[d] \/ \E q \in Others(p) :
                            \/ cmd[q].pc = "fetch" /\ s <= cmd[q].after
                            \/ cmd[q].pc = "cache" /\ s <= Max(cmd[q].page) /\ s \notin cmd[q].todo
             IN /\ cache' = [cache EXCEPT ![d][s] = Unreadable]
                /\ missed' = IF past THEN missed \cup {<<d, s>>} ELSE missed
          /\ UNCHANGED cursor
       \/ /\ SavesCursor(p)
          /\ cursor' = [cursor EXCEPT ![d] = 0]
          /\ UNCHANGED <<cache, missed>>
    /\ UNCHANGED <<topic, home, queue, key>>

Next ==
    \/ \E d \in Devices : Rekey(d)
    \/ \E p \in Procs :
        \/ LoadCursor(p) \/ FetchPage(p) \/ CacheOne(p) \/ SaveCursor(p) \/ Stop(p)
        \/ Send(p) \/ SendDirect(p) \/ Kill(p)
        \/ \E page \in BOOLEAN : Fold(p, page)

Spec == Init /\ [][Next]_vars

-----------------------------------------------------------------------------
(* Properties *)

\* Every message up to the cursor is in the cache and readable, through kills and with
\* two processes on one cache, save one that a sync had no key for and one that a kill
\* tore while it was written a second time (sync_inbox saves the cursor last).
CacheWhole ==
    \A d \in Devices : \A s \in 1..cursor[d] :
        cache[d][s] = queue[s] \/ <<d, s>> \in missed

\* What a device lists of labels, secrets, variables or gists differs from what the
\* queue says only by a message that has not reached the device's cache (the folds of
\* the list commands).
ListingStaleOnly ==
    \A d \in Devices :
        /\ topic \notin Items /\ CacheReads(d)
        /\ \A c \in NamedOf(topic) : c.lists = "live"
        => LET about == 1..Len(queue) IN
           about # {} /\ Max(about) \in Cached(d)
           => (1 \in Listing(topic, Messages(d)) <=> queue[Max(about)].act # "delete")

\* Two items get one number only if the later sender had not received the earlier
\* (create; next_collab_number).
NumbersUnique ==
    topic \in {"issue", "pr"} =>
        \A i, j \in 1..Len(queue) :
            /\ i < j /\ queue[i].asked = Fields /\ queue[j].asked = Fields
            /\ queue[i].id = queue[j].id
            => i \notin queue[j].had

\* What the fold makes of a field of an item after the first n messages.
FieldAfter(n, id, f) ==
    LET upto == SubSeq(queue, 1, n) IN FoldItem(upto, id)[f]

\* The last message changes a field of an existing item that its sender did not name
\* only if something about the item had not reached the sender: closing and editing send
\* along what the sender's view shows.
UnaskedMeansStale ==
    LET n == Len(queue)
        m == queue[n] IN
    topic \in Items /\ n > 1 /\ m.act = "item" =>
        \A f \in Fields \ m.asked :
            /\ FieldAfter(n - 1, m.id, f) # NoText
            /\ FieldAfter(n, m.id, f) # FieldAfter(n - 1, m.id, f)
            => \E k \in 1..(n - 1) : queue[k].id = m.id /\ k \notin m.had
=============================================================================
