---------------------------- MODULE HostAccounts ----------------------------
(***************************************************************************)
(* Accounts and tokens of the server (safehub-server/src/users.rs, the     *)
(* account routes and the forms of ui.rs).                                 *)
(*                                                                         *)
(*   db        AuthStore in memory, behind one RwLock: who is registered   *)
(*             and which token belongs to whom                             *)
(*   authFile  auth/auth.json, tmpFile the file persist writes first       *)
(*   holder    the request that holds the write lock                       *)
(*   promised  history: what requests were answered with success           *)
(*                                                                         *)
(* A request changes db, persists it and answers, all under the lock; the  *)
(* process may be killed and persist may fail in between.  Passwords,      *)
(* scopes, notes and the two kinds of token are left out.                  *)
(***************************************************************************)
EXTENDS Naturals, FiniteSets

CONSTANTS Users, Tokens, NoUser, NoToken,
          Unreadable,  \* a file that does not parse
          MaxFaults    \* bound: kills and failed writes

ASSUME HostAccountsAssumption ==
    /\ MaxFaults \in Nat
    /\ NoUser \notin Users /\ NoToken \notin Tokens
    /\ Unreadable \notin [users : SUBSET Users, tokens : [Tokens -> Users \cup {NoUser}]]

VARIABLES db, authFile, tmpFile, holder, promised, faults

accountVars == <<db, authFile, tmpFile, holder, promised>>

EmptyDb == [users |-> {}, tokens |-> [t \in Tokens |-> NoUser]]
Free == [op |-> "none", user |-> NoUser, token |-> NoToken, pc |-> "free"]

\* AuthUser::from_request_parts: the user of a bearer token.
TokenUser(t) == db.tokens[t]

\* AuthStore::open: what does not parse is an empty store.
OpenStore(file) == IF file = Unreadable THEN EmptyDb ELSE file

\* A token that was never used: the code draws a random one.
Unused == {t \in Tokens \ promised.revoked :
              {TokenUser(t), OpenStore(authFile).tokens[t]} = {NoUser}}

AccountsInit(start) ==
    /\ db = start /\ authFile = start /\ tmpFile = start
    /\ holder = Free
    /\ promised = [users |-> start.users,
                   tokens |-> {t \in Tokens : start.tokens[t] # NoUser}, revoked |-> {}]

-----------------------------------------------------------------------------
(* What an operation does to the store before it persists it *)

AddUser(u) == [db EXCEPT !.users = @ \cup {u}]
AddToken(u, t) == [db EXCEPT !.tokens[t] = u]
DropToken(t) == [db EXCEPT !.tokens[t] = NoUser]

Change(op, u, t, next) ==
    /\ db' = next
    /\ holder' = [op |-> op, user |-> u, token |-> t, pc |-> "write"]
    /\ UNCHANGED <<authFile, tmpFile>>

\* register, then the session of register; login; create_pat; revoke_token.  An
\* operation that is refused (a name that is taken, a wrong password, a token of
\* another user) changes nothing and is left out.
StoreOp(op, u, t) ==
    CASE op = "register" -> u \notin db.users /\ Change(op, u, NoToken, AddUser(u))
      [] op \in {"session", "pat"} -> t \in Unused /\ Change(op, u, t, AddToken(u, t))
      [] op = "revoke" -> TokenUser(t) = u /\ Change(op, u, t, DropToken(t))

\* The routes: register, login, create_token, revoke_token.  A revocation that was
\* asked for ends the promise made with the token.
AccountRoute(op, u, t) ==
    /\ holder = Free
    /\ op = "session" => u \in db.users
    /\ op \in {"pat", "revoke"} => \E own \in Tokens : TokenUser(own) = u
    /\ StoreOp(op, u, t)
    /\ promised' = IF op = "revoke" THEN [promised EXCEPT !.tokens = @ \ {t}] ELSE promised

\* The web pages: login_form and register_form,
SignForm(op, u, t) ==
    /\ holder = Free
    /\ op = "register" \/ (op = "session" /\ u \in db.users)
    /\ StoreOp(op, u, t)
    /\ UNCHANGED promised

\* and tokens_create, for the user that the cookie names.
TokensCreate(u, t) ==
    /\ holder = Free
    /\ StoreOp("pat", u, t)
    /\ UNCHANGED promised

-----------------------------------------------------------------------------
(* persist *)

\* Mutant of WriteTmp: writes auth.json in place.
WriteTmpInPlace ==
    /\ holder.pc = "write"
    /\ tmpFile' = db
    /\ authFile' = Unreadable
    /\ holder' = [holder EXCEPT !.pc = "rename"]
    /\ UNCHANGED <<db, promised>>

WriteTmp ==
    /\ holder.pc = "write"
    /\ tmpFile' = db
    /\ holder' = [holder EXCEPT !.pc = "rename"]
    /\ UNCHANGED <<db, authFile, promised>>

\* The rename, and the answer; register goes on to issue a session first.
Rename ==
    /\ holder.pc = "rename"
    /\ authFile' = tmpFile
    /\ holder' = IF holder.op = "register" THEN [holder EXCEPT !.pc = "session"] ELSE Free
    /\ promised' = CASE holder.op = "register" -> promised
                     [] holder.op = "revoke" -> [promised EXCEPT !.revoked = @ \cup {holder.token}]
                     [] holder.op = "session" -> [promised EXCEPT !.users = @ \cup {holder.user},
                                                                  !.tokens = @ \cup {holder.token}]
                     [] holder.op = "pat" -> [promised EXCEPT !.tokens = @ \cup {holder.token}]
    /\ UNCHANGED <<db, tmpFile>>

IssueSession ==
    /\ holder.pc = "session"
    /\ \E t \in Unused : StoreOp("session", holder.user, t)
    /\ UNCHANGED promised

\* persist fails: the request is answered with an error, memory keeps the change.
PersistFails ==
    /\ holder.pc \in {"write", "rename"}
    /\ holder' = Free
    /\ UNCHANGED <<db, authFile, tmpFile, promised>>

\* The process is killed and started anew.
AccountsRestart ==
    /\ db' = OpenStore(authFile)
    /\ holder' = Free
    /\ UNCHANGED <<authFile, tmpFile, promised>>

AccountStep ==
    \/ \E op \in {"register", "session", "pat", "revoke"}, u \in Users, t \in Tokens :
            AccountRoute(op, u, t) \/ SignForm(op, u, t) \/ TokensCreate(u, t)
    \/ WriteTmp \/ Rename \/ IssueSession

-----------------------------------------------------------------------------
\* Whatever kills and failed writes come between: who was told it is registered is,
\* a token handed out and not asked back lets its user in, and a token whose
\* revocation was confirmed never lets anyone in again (users.rs persists under the
\* lock, by a rename, before it answers).
AnswersDurable ==
    holder = Free =>
        /\ promised.users \subseteq db.users
        /\ \A t \in promised.tokens : TokenUser(t) # NoUser
        /\ \A t \in promised.revoked : TokenUser(t) = NoUser
=============================================================================
