------------------------------- MODULE AuthApi -------------------------------
(***************************************************************************)
(* Accounts and sessions: /auth/register, /auth/login, /auth/logout,       *)
(* DELETE /auth/users/me and the check of the token that precedes every    *)
(* other handler (routers/auth.py, routers/deps.py,                        *)
(* services/auth_service.py, repositories/user_repository.py).             *)
(*                                                                         *)
(* An action is one SQL statement (or commit) with the code up to the next *)
(* await, as in module TaskApi; the check of a token touches only memory   *)
(* and is an action of its own, because the SELECT of the user follows it. *)
(* Tokens are signed and held by clients: the server stores only the ids   *)
(* it has revoked, in the memory of the process that revoked them.         *)
(***************************************************************************)
EXTENDS Naturals

CONSTANTS
  Client,    \* callers, each with at most one request outstanding
  User,      \* ids the users table can hand out
  Email,     \* addresses people register with
  Token,     \* ids (jti) of the tokens that can be issued
  Process,   \* API processes behind one address
  Lifetime,  \* access_token_expire_minutes, in ticks of the clock
  Horizon,   \* bound: the clock stops here
  Faults,    \* may statements fail and replies of commits be lost?
  None       \* an absent value

ASSUME TimeAssumption == Lifetime \in Nat /\ Horizon \in Nat
ASSUME FaultsAssumption == Faults \in BOOLEAN
ASSUME AbsentAssumption == None \notin User \cup Email \cup Token \cup Process

VARIABLES
  accounts,  \* accounts[u]: state and email of the row
  tokens,    \* tokens[t]: whom t was issued to and when it expires
  revoked,   \* revoked[p]: the ids revoked in process p
  now,       \* the clock
  req        \* req[c]: the request of c and how far its handler is

vars == <<accounts, tokens, revoked, now, req>>

Protected == {"use", "logout", "delete_account"}  \* "use": any other endpoint
Operation == {"register", "login"} \cup Protected

\* A row of users, as far as handlers look at it.
Account == [state : {"free", "active", "deleted"}, email : Email \cup {None}]

Stage == {"idle", "find", "insert", "refresh", "token", "user", "erase",
          "mark", "answered"}
Code == {0, 200, 201, 204, 401, 409, 500}

Request ==
  [op : Operation \cup {"none"},
   email : Email \cup {None},
   right : BOOLEAN,                 \* is the password that of the account?
   token : Token \cup {None},
   proc : Process \cup {None},      \* the process that serves it
   user : User \cup {None},         \* the account it acts for, once known
   stage : Stage,
   late : BOOLEAN,   \* history: its session or account was over on arrival
    code : Code]

Idle ==
  [op |-> "none", email |-> None, right |-> FALSE, token |-> None,
   proc |-> None, user |-> None, stage |-> "idle", late |-> FALSE,
   code |-> 0]

NotIssued == [user |-> None, exp |-> 0]
Issued == {t \in Token : tokens[t] # NotIssued}

Init ==
  /\ accounts = [u \in User |-> [state |-> "free", email |-> None]]
  /\ tokens = [t \in Token |-> NotIssued]
  /\ revoked = [p \in Process |-> {}]
  /\ now = 0
  /\ req = [c \in Client |-> Idle]

------------------------------------------------------------------------------
At(q, stage) == [q EXCEPT !.stage = stage]
Goto(c, stage) == req' = [req EXCEPT ![c] = At(@, stage)]

Answered(q, code) == [q EXCEPT !.stage = "answered", !.code = code]
Answer(c, code) == req' = [req EXCEPT ![c] = Answered(@, code)]

For(q, u) == [q EXCEPT !.user = u]

\* get_by_email and get_by_id see the rows that are not deleted.
HasEmail(u, e) == accounts[u].state = "active" /\ accounts[u].email = e
Active(u) == accounts[u].state = "active"

\* The token library refuses a token whose exp lies before the current second.
Expired(t) == tokens[t].exp < now

SessionOver(t, p) ==
  \/ Expired(t)
  \/ t \in revoked[p]
  \/ accounts[tokens[t].user].state = "deleted"

\* A token is in nobody's hands before the answer to its login.
Delivered(t) ==
  /\ t \in Issued
  /\ \A d \in Client : req[d].op = "login" => req[d].token # t

\* A request that names an account (by email) or a session (by token).
Credentials(op, e, right, p) ==
  [Idle EXCEPT !.op = op, !.email = e, !.right = right, !.proc = p,
               !.stage = "find",
               !.late = /\ op = "login"
                        /\ \E u \in User : accounts[u] =
                             [state |-> "deleted", email |-> e]]
Bearer(op, t, p) ==
  [Idle EXCEPT !.op = op, !.token = t, !.proc = p, !.stage = "token",
               !.late = SessionOver(t, p)]

Arrive(c) ==
  /\ req[c].stage = "idle"
  /\ \E p \in Process :
       \/ \E e \in Email :
            \/ req' = [req EXCEPT ![c] = Credentials("register", e, TRUE, p)]
            \/ \E right \in BOOLEAN :
                 req' = [req EXCEPT ![c] = Credentials("login", e, right, p)]
       \/ \E op \in Protected, t \in Token :
            /\ Delivered(t)
            /\ req' = [req EXCEPT ![c] = Bearer(op, t, p)]
  /\ UNCHANGED <<accounts, tokens, revoked, now>>

------------------------------------------------------------------------------
(* POST /auth/register.                                                    *)

FindExisting(c) ==
  /\ req[c].op = "register" /\ req[c].stage = "find"
  /\ IF \E u \in User : HasEmail(u, req[c].email)
       THEN Answer(c, 409)
       ELSE Goto(c, "insert")
  /\ UNCHANGED <<accounts, tokens, revoked, now>>

\* ix_users_email is a unique index over all rows, deleted ones included.
Taken(e) ==
  \E u \in User : accounts[u].state # "free" /\ accounts[u].email = e

Insert(c) ==
  /\ req[c].stage = "insert"
  /\ ~Taken(req[c].email)
  /\ \E u \in User :
       /\ accounts[u].state = "free"
       /\ accounts' = [accounts EXCEPT ![u] =
                         [state |-> "active", email |-> req[c].email]]
       /\ \/ req' = [req EXCEPT ![c] = At(For(@, u), "refresh")]
          \/ Faults /\ req' = [req EXCEPT ![c] = Answered(For(@, u), 500)]
  /\ UNCHANGED <<tokens, revoked, now>>

\* The commit raises IntegrityError, which nothing catches before the
\* catch-all handler.
ViolateUnique(c) ==
  /\ req[c].stage = "insert"
  /\ Taken(req[c].email)
  /\ Answer(c, 500)
  /\ UNCHANGED <<accounts, tokens, revoked, now>>

Refresh(c) ==
  /\ req[c].stage = "refresh"
  /\ Answer(c, 201)
  /\ UNCHANGED <<accounts, tokens, revoked, now>>

------------------------------------------------------------------------------
(* POST /auth/login.                                                       *)

RefuseLogin(c) ==
  /\ req[c].op = "login" /\ req[c].stage = "find"
  /\ \/ ~req[c].right
     \/ \A u \in User : ~HasEmail(u, req[c].email)
  /\ Answer(c, 401)
  /\ UNCHANGED <<accounts, tokens, revoked, now>>

\* Mutant: a token without an expiry.
Unlimited(u) == [user |-> u, exp |-> None]

create_access_token(u) == [user |-> u, exp |-> now + Lifetime]

Login(c) ==
  /\ req[c].op = "login" /\ req[c].stage = "find"
  /\ req[c].right
  /\ \E u \in User, t \in Token \ Issued :
       /\ HasEmail(u, req[c].email)
       /\ tokens' = [tokens EXCEPT ![t] = create_access_token(u)]
       /\ req' = [req EXCEPT ![c] =
                    Answered([For(@, u) EXCEPT !.token = t], 200)]
  /\ UNCHANGED <<accounts, revoked, now>>

------------------------------------------------------------------------------
(* current_user, and what the protected handlers do after it.              *)

\* Mutant: the token is decoded, and the revoked ids are not looked at.
CheckSignature(c) ==
  /\ req[c].stage = "token"
  /\ IF Expired(req[c].token) THEN Answer(c, 401) ELSE Goto(c, "user")
  /\ UNCHANGED <<accounts, tokens, revoked, now>>

CheckToken(c) ==
  /\ req[c].stage = "token"
  /\ IF Expired(req[c].token) \/ req[c].token \in revoked[req[c].proc]
       THEN Answer(c, 401)
       ELSE Goto(c, "user")
  /\ UNCHANGED <<accounts, tokens, revoked, now>>

RefuseUser(c) ==
  /\ req[c].stage = "user"
  /\ ~Active(tokens[req[c].token].user)
  /\ Answer(c, 401)
  /\ UNCHANGED <<accounts, tokens, revoked, now>>

ReadUser(c) ==
  /\ req[c].stage = "user"
  /\ LET u == tokens[req[c].token].user IN
       /\ Active(u)
       /\ \/ /\ req[c].op = "use"
             /\ req' = [req EXCEPT ![c] = Answered(For(@, u), 200)]
             /\ UNCHANGED revoked
          \/ /\ req[c].op = "logout"
             /\ req' = [req EXCEPT ![c] = Answered(For(@, u), 204)]
             /\ revoked' = [revoked EXCEPT ![req[c].proc] =
                              @ \cup {req[c].token}]
          \/ /\ req[c].op = "delete_account"
             /\ req' = [req EXCEPT ![c] = At(For(@, u), "erase")]
             /\ UNCHANGED revoked
  /\ UNCHANGED <<accounts, tokens, now>>

\* soft_delete reads the user once more; one already deleted is left alone.
FindSelf(c) ==
  /\ req[c].stage = "erase"
  /\ IF Active(req[c].user) THEN Goto(c, "mark") ELSE Answer(c, 204)
  /\ UNCHANGED <<accounts, tokens, revoked, now>>

\* Mutant: the mark is set and never committed.
MarkUncommitted(c) ==
  /\ req[c].stage = "mark"
  /\ Answer(c, 204)
  /\ UNCHANGED <<accounts, tokens, revoked, now>>

MarkDeleted(c) ==
  /\ req[c].stage = "mark"
  /\ accounts' = [accounts EXCEPT ![req[c].user].state = "deleted"]
  /\ \/ Answer(c, 204)
     \/ Faults /\ Answer(c, 500)
  /\ UNCHANGED <<tokens, revoked, now>>

------------------------------------------------------------------------------
(* The rest of the system.                                                 *)

DbError(c) ==
  /\ Faults
  /\ req[c].stage \notin {"idle", "token", "answered"}
  /\ Answer(c, 500)
  /\ UNCHANGED <<accounts, tokens, revoked, now>>

Return(c) ==
  /\ req[c].stage = "answered"
  /\ req' = [req EXCEPT ![c] = Idle]
  /\ UNCHANGED <<accounts, tokens, revoked, now>>

Tick ==
  /\ now < Horizon
  /\ now' = now + 1
  /\ UNCHANGED <<accounts, tokens, revoked, req>>

\* A process stops and starts again: what it had revoked is forgotten.
Restart(p) ==
  /\ revoked' = [revoked EXCEPT ![p] = {}]
  /\ req' = [c \in Client |->
               IF req[c].proc = p /\ req[c].stage # "answered"
                 THEN Idle ELSE req[c]]
  /\ UNCHANGED <<accounts, tokens, now>>

Serve(c) ==
  \/ FindExisting(c) \/ Insert(c) \/ ViolateUnique(c) \/ Refresh(c)
  \/ RefuseLogin(c) \/ Login(c)
  \/ CheckToken(c) \/ RefuseUser(c) \/ ReadUser(c)
  \/ FindSelf(c) \/ MarkDeleted(c)
  \/ DbError(c)

Next ==
  \/ \E c \in Client : Arrive(c) \/ Serve(c) \/ Return(c)
  \/ Tick
  \/ \E p \in Process : Restart(p)

Spec == Init /\ [][Next]_vars

------------------------------------------------------------------------------
(* Properties.                                                             *)

TypeOK ==
  /\ accounts \in [User -> Account]
  /\ tokens \in [Token -> [user : User \cup {None}, exp : Nat]]
  /\ \A t \in Issued : tokens[t].user \in User
  /\ revoked \in [Process -> SUBSET Token]
  /\ now \in Nat
  /\ req \in [Client -> Request]

\* A request that arrives after the session is over (expired, revoked in the
\* process it reaches, account deleted), or a login to a deleted account, is
\* never granted, whatever happens between the checks of current_user.
NoLateAccess ==
  \A c \in Client : req[c].late => req[c].code \notin {200, 204}

\* 201 means that the account is in the table under its email; 204 to DELETE
\* /auth/users/me means that it is deleted, also when another request of the
\* same user deleted it first.
AckedAccountsLast ==
  \A c \in Client :
    /\ req[c].code = 201 => /\ accounts[req[c].user].state # "free"
                            /\ accounts[req[c].user].email = req[c].email
    /\ req[c].code = 204 /\ req[c].op = "delete_account" =>
         accounts[req[c].user].state = "deleted"
==============================================================================
