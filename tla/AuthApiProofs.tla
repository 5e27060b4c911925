---------------------------- MODULE AuthApiProofs ----------------------------
(***************************************************************************)
(* Proofs about AuthApi, for every set of clients, accounts, addresses,    *)
(* tokens and processes, and any lifetime of a token.                      *)
(***************************************************************************)
EXTENDS AuthApi, TLAPS

USE DEF Account

\* The fields of a request fit the operation and the stage it is in.
Shape(q) ==
  /\ q.stage # "idle" => q.op \in Operation /\ q.proc \in Process
  /\ q.stage = "find" => q.op \in {"register", "login"}
  /\ q.stage \in {"find", "insert", "refresh"} => q.email \in Email
  /\ q.stage \in {"insert", "refresh"} => q.op = "register"
  /\ q.stage \in {"token", "user"} => /\ q.op \in Protected
                                      /\ q.token \in Token
                                      /\ tokens[q.token] # NotIssued
  /\ q.stage \in {"erase", "mark"} => q.op = "delete_account" /\ q.user \in User
  /\ q.code # 0 => q.stage = "answered"

\* Between the commit and the answer, and in the answer, the write is there.
Acked(q) ==
  /\ q.stage = "refresh" \/ q.code = 201 =>
       /\ q.user \in User
       /\ accounts[q.user].state # "free"
       /\ accounts[q.user].email = q.email
  /\ q.stage \in {"erase", "mark"} => accounts[q.user].state # "free"
  /\ q.code = 204 /\ q.op = "delete_account" =>
       q.user \in User /\ accounts[q.user].state = "deleted"

\* A request that came too late meets a check that will refuse it: a login,
\* the deleted row that keeps its address; a session, whatever ended it while
\* the token is to be checked, and only the deletion of its account after.
Doomed(q) ==
  q.late =>
    /\ q.op # "register"
    /\ q.code \notin {200, 204}
    /\ q.stage \notin {"insert", "refresh", "erase", "mark"}
    /\ q.stage = "find" =>
         \E u \in User : /\ accounts[u].state = "deleted"
                         /\ accounts[u].email = q.email
    /\ q.stage = "token" => SessionOver(q.token, q.proc)
    /\ q.stage = "user" => accounts[tokens[q.token].user].state = "deleted"

RequestOK(q) == Shape(q) /\ Acked(q) /\ Doomed(q)

\* An address never has a second row, deleted or not: it is what keeps a log-in
\* to a deleted account from finding another one.
OneRowPerEmail ==
  \A u, v \in User :
    (/\ accounts[u].state # "free" /\ accounts[v].state # "free"
     /\ accounts[u].email = accounts[v].email) => u = v

\* The part of the invariant that no request occurs in.
StoreOK ==
  /\ accounts \in [User -> Account]
  /\ tokens \in [Token -> [user : User \cup {None}, exp : Nat]]
  /\ \A t \in Issued : tokens[t].user \in User
  /\ revoked \in [Process -> SUBSET Token]
  /\ now \in Nat
  /\ OneRowPerEmail

\* The inductive invariant.
IndInv ==
  /\ req \in [Client -> Request]
  /\ \A c \in Client : RequestOK(req[c])
  /\ StoreOK

\* The request of c becomes r, the others stand.
MovesTo(c, r) == req' = [req EXCEPT ![c] = r]

\* What no step of the system undoes.
Grows ==
  /\ \A u \in User :
       /\ accounts[u].state # "free" =>
            /\ accounts'[u].state # "free"
            /\ accounts'[u].email = accounts[u].email
       /\ accounts[u].state = "deleted" => accounts'[u].state = "deleted"
  /\ \A t \in Issued : tokens'[t] = tokens[t]
  /\ now <= now'

\* What only the restart of a process undoes.
StaysRevoked(p) == revoked[p] \subseteq revoked'[p]

store == <<accounts, tokens, revoked, now>>

------------------------------------------------------------------------------

\* A request that does not move keeps its invariant while the store grows.
LEMMA StableRequest ==
  ASSUME NEW q \in Request, RequestOK(q), Grows, StoreOK, StoreOK',
         q.stage = "token" => StaysRevoked(q.proc)
  PROVE  RequestOK(q)'
<1>1. q.stage \in {"token", "user"} =>
        /\ q.token \in Issued
        /\ tokens'[q.token] = tokens[q.token]
        /\ tokens[q.token].user \in User
        /\ tokens[q.token].exp \in Nat
  BY DEF RequestOK, Shape, Grows, StoreOK, Issued
<1>2. Shape(q)'
  BY <1>1 DEF RequestOK, Shape
<1>3. Acked(q)'
  BY DEF RequestOK, Shape, Acked, Grows
<1>4. ASSUME q.late PROVE Doomed(q)'
  <2>1. Doomed(q) /\ Shape(q)
    BY DEF RequestOK
  <2>2. q.stage = "find" =>
          \E u \in User : /\ accounts'[u].state = "deleted"
                          /\ accounts'[u].email = q.email
    BY <2>1, <1>4 DEF Doomed, Grows
  <2>3. q.stage = "token" => SessionOver(q.token, q.proc)'
    <3> SUFFICES ASSUME q.stage = "token" PROVE SessionOver(q.token, q.proc)'
      OBVIOUS
    <3>1. SessionOver(q.token, q.proc)
      BY <2>1, <1>4 DEF Doomed
    <3>2. now \in Nat /\ now' \in Nat /\ now <= now'
      BY DEF StoreOK, Grows
    <3>3. CASE Expired(q.token)
      <4>1. tokens[q.token].exp < now'
        BY <1>1, <3>2, <3>3, SMT DEF Expired
      <4> QED BY <4>1, <1>1 DEF SessionOver, Expired
    <3>4. CASE q.token \in revoked[q.proc]
      BY <3>4 DEF SessionOver, StaysRevoked
    <3>5. CASE accounts[tokens[q.token].user].state = "deleted"
      BY <3>5, <1>1 DEF SessionOver, Grows
    <3> QED BY <3>1, <3>3, <3>4, <3>5 DEF SessionOver
  <2>4. q.stage = "user" =>
          accounts'[tokens'[q.token].user].state = "deleted"
    BY <2>1, <1>1, <1>4 DEF Doomed, Grows
  <2> QED BY <2>1, <2>2, <2>3, <2>4, <1>4 DEF Doomed
<1>5. Doomed(q)'
  BY <1>4 DEF Doomed
<1> QED
  BY <1>2, <1>3, <1>5 DEF RequestOK

\* One request moves to r while the store grows.
LEMMA RequestMoves ==
  ASSUME IndInv, Grows, StoreOK', \A p \in Process : StaysRevoked(p),
         NEW c \in Client, NEW r \in Request,
         MovesTo(c, r), RequestOK(r)'
  PROVE  IndInv'
<1>1. req' \in [Client -> Request]
  BY DEF IndInv, MovesTo
<1>2. ASSUME NEW d \in Client PROVE RequestOK(req[d])'
  <2>1. PICK q \in Request : q = req'[d]
    BY <1>1
  <2>2. RequestOK(q)'
    <3>1. CASE d = c
      BY <2>1, <3>1 DEF IndInv, MovesTo
    <3>2. CASE d # c
      <4>1. q = req[d] /\ RequestOK(q) /\ StoreOK
        BY <2>1, <3>2 DEF IndInv, MovesTo
      <4>2. q.stage = "token" => StaysRevoked(q.proc)
        BY <4>1 DEF RequestOK, Shape
      <4> QED
        BY <4>1, <4>2, StableRequest
    <3> QED
      BY <3>1, <3>2
  <2> QED
    BY <2>1, <2>2 DEF RequestOK, Shape, Acked, Doomed, SessionOver, Expired
<1> QED
  BY <1>1, <1>2 DEF IndInv

\* A step that changes nothing but the request of c.
LEMMA LocalStep ==
  ASSUME IndInv, NEW c \in Client, NEW r \in Request,
         MovesTo(c, r), RequestOK(r), UNCHANGED store
  PROVE  IndInv'
<1>1. StoreOK' /\ now \in Nat
  BY DEF IndInv, StoreOK, OneRowPerEmail, Issued, store
<1>2. Grows
  <2>1. now <= now'
    BY <1>1, SMT DEF store
  <2> QED BY <2>1 DEF Grows, store
<1>3. \A p \in Process : StaysRevoked(p)
  BY DEF StaysRevoked, store
<1>4. RequestOK(r)'
  BY DEF RequestOK, Shape, Acked, Doomed, SessionOver, Expired, store
<1> QED
  BY <1>1, <1>2, <1>3, <1>4, RequestMoves

LEMMA AnsweredTyped ==
  ASSUME NEW q \in Request, NEW code \in Code
  PROVE  Answered(q, code) \in Request
<1>1. "answered" \in Stage
  BY DEF Stage
<1> QED
  BY <1>1 DEF Request, Answered

LEMMA AtTyped ==
  ASSUME NEW q \in Request, NEW stage \in Stage
  PROVE  At(q, stage) \in Request
BY DEF Request, At

LEMMA ForTyped ==
  ASSUME NEW q \in Request, NEW u \in User
  PROVE  /\ For(q, u) \in Request
         /\ For(q, u).user = u
         /\ \A f \in {"op", "email", "right", "token", "proc", "stage", "late",
                      "code"} : For(q, u)[f] = q[f]
BY DEF Request, For

LEMMA IdleTyped == Idle \in Request /\ RequestOK(Idle)
<1>1. "idle" \in Stage /\ 0 \in Code
  BY DEF Stage, Code
<1>2. Idle \in Request
  BY <1>1 DEF Idle, Request
<1>3. Shape(Idle) /\ Acked(Idle) /\ Doomed(Idle)
  BY DEF Idle, Shape, Acked, Doomed
<1> QED
  BY <1>2, <1>3 DEF RequestOK

\* An answer that acknowledges no write and grants nothing.
LEMMA RefusalStep ==
  ASSUME IndInv, NEW c \in Client, NEW code \in {401, 409, 500},
         req[c].stage # "idle", Answer(c, code), UNCHANGED store
  PROVE  IndInv'
<1>1. req[c] \in Request /\ RequestOK(req[c])
  BY DEF IndInv
<1>2. PICK r : r = Answered(req[c], code)
  OBVIOUS
<1>3. r \in Request
  <2>1. code \in Code
    BY DEF Code
  <2> QED BY <1>1, <1>2, <2>1, AnsweredTyped
<1>4. MovesTo(c, r)
  BY <1>2 DEF Answer, IndInv, MovesTo
<1>5. RequestOK(r)
  BY <1>1, <1>2 DEF RequestOK, Shape, Acked, Doomed, Answered, Request
<1> QED
  BY <1>3, <1>4, <1>5, LocalStep

\* The answer to a request whose checks it has passed: nothing is written.
LEMMA GrantStep ==
  ASSUME IndInv, NEW c \in Client, NEW r \in Request,
         MovesTo(c, r), UNCHANGED store,
         r.stage = "answered", r.op = req[c].op, r.proc = req[c].proc,
         r.op \in Operation, r.proc \in Process, ~r.late,
         Acked(r)
  PROVE  IndInv'
<1>1. RequestOK(r)
  BY DEF RequestOK, Shape, Doomed
<1> QED
  BY <1>1, LocalStep

\* From one stage to the next, nothing written.
LEMMA GotoStep ==
  ASSUME IndInv, NEW c \in Client, NEW stage \in Stage, Goto(c, stage),
         UNCHANGED store,
         \/ req[c].stage = "find" /\ req[c].op = "register" /\ stage = "insert"
         \/ req[c].stage = "erase" /\ stage = "mark"
         \/ /\ req[c].stage = "token" /\ stage = "user"
            /\ ~Expired(req[c].token)
            /\ req[c].token \notin revoked[req[c].proc]
  PROVE  IndInv'
<1>1. req[c] \in Request /\ RequestOK(req[c])
  BY DEF IndInv
<1>2. PICK r : r = At(req[c], stage)
  OBVIOUS
<1>3. r \in Request
  BY <1>1, <1>2, AtTyped
<1>4. MovesTo(c, r)
  BY <1>2 DEF Goto, IndInv, MovesTo
<1>5. /\ r.stage = stage /\ r.op = req[c].op /\ r.proc = req[c].proc
      /\ r.email = req[c].email /\ r.token = req[c].token
      /\ r.user = req[c].user /\ r.late = req[c].late /\ r.code = req[c].code
  BY <1>1, <1>2 DEF At, Request
<1>6. Shape(r)
  BY <1>1, <1>5 DEF RequestOK, Shape
<1>7. Acked(r)
  BY <1>1, <1>5 DEF RequestOK, Acked, Shape
<1>8. Doomed(r)
  BY <1>1, <1>5 DEF RequestOK, Doomed, SessionOver
<1> QED
  BY <1>3, <1>4, <1>6, <1>7, <1>8, LocalStep DEF RequestOK

------------------------------------------------------------------------------

\* A Boolean term with a name, for the field that holds it.
TooLate(op, e) ==
  op = "login" /\ \E u \in User : accounts[u] = [state |-> "deleted", email |-> e]

LEMMA ArriveInvariant ==
  ASSUME IndInv, NEW c \in Client, Arrive(c)
  PROVE  IndInv'
<1>1. UNCHANGED store
  BY DEF Arrive, store
<1>2. /\ "find" \in Stage /\ "token" \in Stage /\ 0 \in Code
      /\ {"register", "login"} \subseteq Operation /\ Protected \subseteq Operation
  BY DEF Stage, Code, Operation
<1>3. ASSUME NEW p \in Process, NEW e \in Email, NEW right \in BOOLEAN,
             NEW op \in {"register", "login"},
             req' = [req EXCEPT ![c] = Credentials(op, e, right, p)]
      PROVE  IndInv'
  <2>1. PICK r : r = Credentials(op, e, right, p)
    OBVIOUS
  <2>2. TooLate(op, e) \in BOOLEAN
    BY DEF TooLate
  <2>3. /\ r \in Request
        /\ r.op = op /\ r.email = e /\ r.proc = p /\ r.stage = "find"
        /\ r.code = 0 /\ r.late = TooLate(op, e)
    BY <1>2, <2>1, <2>2, IdleTyped DEF Credentials, TooLate, Idle, Request
  <2>4. TooLate(op, e) => /\ op # "register"
                          /\ \E u \in User : /\ accounts[u].state = "deleted"
                                             /\ accounts[u].email = e
    BY DEF TooLate
  <2>5. RequestOK(r)
    BY <1>2, <2>3, <2>4 DEF RequestOK, Shape, Acked, Doomed
  <2>6. MovesTo(c, r)
    BY <1>3, <2>1 DEF MovesTo
  <2> QED BY <1>1, <2>3, <2>5, <2>6, LocalStep
<1>4. ASSUME NEW p \in Process, NEW op \in Protected, NEW t \in Token,
             Delivered(t), req' = [req EXCEPT ![c] = Bearer(op, t, p)]
      PROVE  IndInv'
  <2>1. PICK r : r = Bearer(op, t, p)
    OBVIOUS
  <2>2. PICK late \in BOOLEAN : late = SessionOver(t, p)
    BY DEF SessionOver
  <2>4. /\ r \in Request
        /\ r.op = op /\ r.token = t /\ r.proc = p /\ r.stage = "token"
        /\ r.code = 0 /\ r.late = late
    BY <1>2, <2>1, <2>2, IdleTyped DEF Bearer, Idle, Request
  <2>5. tokens[t] # NotIssued /\ op # "register"
    BY <1>4 DEF Delivered, Issued, Protected
  <2>6. RequestOK(r)
    BY <1>2, <2>2, <2>4, <2>5 DEF RequestOK, Shape, Acked, Doomed
  <2>7. MovesTo(c, r)
    BY <1>4, <2>1 DEF MovesTo
  <2> QED BY <1>1, <2>4, <2>6, <2>7, LocalStep
<1> QED
  BY <1>3, <1>4 DEF Arrive

LEMMA FindExistingInvariant ==
  ASSUME IndInv, NEW c \in Client, FindExisting(c)
  PROVE  IndInv'
<1>1. UNCHANGED store /\ req[c].stage = "find" /\ req[c].op = "register"
  BY DEF FindExisting, store
<1>2. CASE Answer(c, 409)
  BY <1>1, <1>2, RefusalStep
<1>3. CASE Goto(c, "insert")
  <2>1. "insert" \in Stage
    BY DEF Stage
  <2> QED BY <1>1, <1>3, <2>1, GotoStep
<1> QED
  BY <1>2, <1>3 DEF FindExisting

\* The unique index keeps the addresses apart.
LEMMA InsertInvariant ==
  ASSUME IndInv, NEW c \in Client, Insert(c)
  PROVE  IndInv'
<1>1. req[c] \in Request /\ RequestOK(req[c]) /\ StoreOK
  BY DEF IndInv
<1>2. /\ req[c].stage = "insert" /\ req[c].email \in Email
      /\ req[c].op = "register" /\ ~Taken(req[c].email)
      /\ req[c].code = 0 /\ req[c].proc \in Process /\ ~req[c].late
  BY <1>1 DEF Insert, RequestOK, Shape, Doomed, Request
<1>3. PICK u \in User :
        /\ accounts[u].state = "free"
        /\ accounts' = [accounts EXCEPT ![u] =
                          [state |-> "active", email |-> req[c].email]]
        /\ \/ req' = [req EXCEPT ![c] = At(For(@, u), "refresh")]
           \/ Faults /\ req' = [req EXCEPT ![c] = Answered(For(@, u), 500)]
  BY DEF Insert
<1>4. UNCHANGED <<tokens, revoked, now>>
  BY DEF Insert
<1>5. PICK row : row = [state |-> "active", email |-> req[c].email]
  OBVIOUS
<1>6. /\ row \in [state : {"free", "active", "deleted"},
                  email : Email \cup {None}]
      /\ row.state = "active" /\ row.email = req[c].email
  BY <1>2, <1>5
<1>7. accounts' = [accounts EXCEPT ![u] = row]
  BY <1>3, <1>5
<1>8. /\ accounts' \in [User -> [state : {"free", "active", "deleted"},
                                 email : Email \cup {None}]]
      /\ accounts'[u] = row
      /\ \A v \in User \ {u} : accounts'[v] = accounts[v]
  BY <1>1, <1>6, <1>7 DEF StoreOK
<1>9. now \in Nat /\ now <= now
  BY <1>1, SMT DEF StoreOK
<1>10. Grows
  BY <1>3, <1>4, <1>8, <1>9 DEF Grows
<1>11. OneRowPerEmail'
  <2> SUFFICES ASSUME NEW v \in User, NEW w \in User,
                      accounts'[v].state # "free", accounts'[w].state # "free",
                      accounts'[v].email = accounts'[w].email
               PROVE  v = w
    BY DEF OneRowPerEmail
  <2>1. \A x \in User \ {u} :
          accounts'[x].state # "free" => accounts'[x].email # row.email
    BY <1>2, <1>6, <1>8 DEF Taken
  <2> QED BY <2>1, <1>1, <1>8 DEF StoreOK, OneRowPerEmail
<1>12. StoreOK'
  BY <1>1, <1>4, <1>8, <1>11 DEF StoreOK, Issued
<1>13. \A p \in Process : StaysRevoked(p)
  BY <1>4 DEF StaysRevoked
<1>14. /\ For(req[c], u) \in Request /\ For(req[c], u).user = u
       /\ \A f \in {"op", "email", "right", "token", "proc", "stage", "late",
                    "code"} : For(req[c], u)[f] = req[c][f]
  BY <1>1, ForTyped
<1>15. CASE req' = [req EXCEPT ![c] = At(For(@, u), "refresh")]
  <2>1. PICK r : r = At(For(req[c], u), "refresh")
    OBVIOUS
  <2>2. "refresh" \in Stage
    BY DEF Stage
  <2>3. r \in Request
    BY <1>14, <2>1, <2>2, AtTyped
  <2>4. /\ r.stage = "refresh" /\ r.op = "register" /\ r.proc \in Process
        /\ r.email = req[c].email /\ r.user = u /\ r.code = 0 /\ ~r.late
    BY <1>2, <1>14, <2>1 DEF At, Request
  <2>5. Shape(r)'
    BY <1>2, <2>4 DEF Shape, Operation
  <2>6. Acked(r)'
    BY <1>6, <1>8, <2>4 DEF Acked
  <2>7. Doomed(r)'
    BY <2>4 DEF Doomed
  <2>8. MovesTo(c, r)
    BY <1>15, <2>1 DEF MovesTo, IndInv
  <2> QED
    BY <1>10, <1>12, <1>13, <2>3, <2>5, <2>6, <2>7, <2>8, RequestMoves
       DEF RequestOK
<1>16. CASE req' = [req EXCEPT ![c] = Answered(For(@, u), 500)]
  <2>1. PICK r : r = Answered(For(req[c], u), 500)
    OBVIOUS
  <2>2. 500 \in Code
    BY DEF Code
  <2>3. r \in Request
    BY <1>14, <2>1, <2>2, AnsweredTyped
  <2>4. /\ r.stage = "answered" /\ r.op = "register" /\ r.proc \in Process
        /\ r.code = 500 /\ ~r.late
    BY <1>2, <1>14, <2>1 DEF Answered, Request
  <2>5. Shape(r)' /\ Acked(r)' /\ Doomed(r)'
    BY <2>4 DEF Shape, Acked, Doomed, Operation
  <2>6. MovesTo(c, r)
    BY <1>16, <2>1 DEF MovesTo, IndInv
  <2> QED
    BY <1>10, <1>12, <1>13, <2>3, <2>5, <2>6, RequestMoves DEF RequestOK
<1> QED
  BY <1>3, <1>15, <1>16

LEMMA RefreshInvariant ==
  ASSUME IndInv, NEW c \in Client, Refresh(c)
  PROVE  IndInv'
<1>1. req[c] \in Request /\ RequestOK(req[c]) /\ req[c].stage = "refresh"
      /\ UNCHANGED store
  BY DEF IndInv, Refresh, store
<1>2. PICK r : r = Answered(req[c], 201)
  OBVIOUS
<1>3. r \in Request
  <2>1. 201 \in Code
    BY DEF Code
  <2> QED BY <1>1, <1>2, <2>1, AnsweredTyped
<1>4. MovesTo(c, r)
  BY <1>2 DEF Refresh, Answer, IndInv, MovesTo
<1>5. /\ r.stage = "answered" /\ r.op = req[c].op /\ r.proc = req[c].proc
      /\ r.email = req[c].email /\ r.user = req[c].user /\ r.code = 201
      /\ r.late = req[c].late
  BY <1>1, <1>2 DEF Answered, Request
<1>6. r.op \in Operation /\ r.proc \in Process /\ ~r.late
  BY <1>1, <1>5 DEF RequestOK, Shape, Doomed
<1>7. Acked(r)
  BY <1>1, <1>5 DEF RequestOK, Acked
<1> QED
  BY <1>1, <1>3, <1>4, <1>5, <1>6, <1>7, GrantStep

\* IntegrityError, a refused login or token, a failed statement.
LEMMA RefusalsInvariant ==
  ASSUME IndInv, NEW c \in Client,
         ViolateUnique(c) \/ RefuseLogin(c) \/ RefuseUser(c) \/ DbError(c)
  PROVE  IndInv'
<1>1. UNCHANGED store /\ req[c].stage # "idle"
  BY DEF ViolateUnique, RefuseLogin, RefuseUser, DbError, store
<1>2. \E code \in {401, 409, 500} : Answer(c, code)
  BY DEF ViolateUnique, RefuseLogin, RefuseUser, DbError
<1> QED
  BY <1>1, <1>2, RefusalStep

\* A login to a deleted account finds no row: its address has only one.
LEMMA LoginInvariant ==
  ASSUME IndInv, NEW c \in Client, Login(c)
  PROVE  IndInv'
<1>1. req[c] \in Request /\ RequestOK(req[c]) /\ StoreOK
  BY DEF IndInv
<1>2. req[c].op = "login" /\ req[c].stage = "find" /\ req[c].proc \in Process
  BY <1>1 DEF Login, RequestOK, Shape
<1>3. PICK u \in User, t \in Token \ Issued :
        /\ HasEmail(u, req[c].email)
        /\ tokens' = [tokens EXCEPT ![t] = create_access_token(u)]
        /\ req' = [req EXCEPT ![c] =
                     Answered([For(@, u) EXCEPT !.token = t], 200)]
  BY DEF Login
<1>4. UNCHANGED <<accounts, revoked, now>>
  BY DEF Login
<1>5. ~req[c].late
  BY <1>1, <1>2, <1>3 DEF RequestOK, Doomed, HasEmail, StoreOK,
     OneRowPerEmail
<1>6. PICK k : k = create_access_token(u)
  OBVIOUS
<1>7. k \in [user : User \cup {None}, exp : Nat] /\ k.user = u
  <2>1. now + Lifetime \in Nat
    BY <1>1, TimeAssumption, SMT DEF StoreOK
  <2> QED BY <1>6, <2>1 DEF create_access_token
<1>8. /\ tokens' \in [Token -> [user : User \cup {None}, exp : Nat]]
      /\ tokens'[t] = k
      /\ \A x \in Token \ {t} : tokens'[x] = tokens[x]
  BY <1>1, <1>3, <1>6, <1>7 DEF StoreOK
<1>9. \A x \in Token : tokens'[x] # NotIssued => tokens'[x].user \in User
  BY <1>1, <1>7, <1>8 DEF StoreOK, Issued
<1>10. StoreOK'
  BY <1>1, <1>4, <1>8, <1>9 DEF StoreOK, Issued, OneRowPerEmail
<1>11. now \in Nat /\ now <= now
  BY <1>1, SMT DEF StoreOK
<1>12. Grows
  BY <1>4, <1>8, <1>11 DEF Grows, Issued
<1>13. \A p \in Process : StaysRevoked(p)
  BY <1>4 DEF StaysRevoked
<1>14. PICK q : q = [For(req[c], u) EXCEPT !.token = t]
  OBVIOUS
<1>15. q \in Request /\ q.op = "login" /\ q.proc = req[c].proc
       /\ q.late = req[c].late
  <2>1. /\ For(req[c], u) \in Request
        /\ \A f \in {"op", "email", "right", "token", "proc", "stage", "late",
                     "code"} : For(req[c], u)[f] = req[c][f]
    BY <1>1, ForTyped
  <2> QED BY <1>2, <1>14, <2>1 DEF Request
<1>16. PICK r : r = Answered(q, 200)
  OBVIOUS
<1>17. r \in Request
  <2>1. 200 \in Code
    BY DEF Code
  <2> QED BY <1>15, <1>16, <2>1, AnsweredTyped
<1>18. r.stage = "answered" /\ r.op = "login" /\ r.proc \in Process
       /\ r.code = 200 /\ ~r.late
  BY <1>2, <1>5, <1>15, <1>16 DEF Answered, Request
<1>19. RequestOK(r)'
  BY <1>18 DEF RequestOK, Shape, Acked, Doomed, Operation
<1>20. MovesTo(c, r)
  BY <1>3, <1>14, <1>16 DEF MovesTo, IndInv
<1> QED
  BY <1>10, <1>12, <1>13, <1>17, <1>19, <1>20, RequestMoves

\* A token that passes may still belong to a deleted account, no more.
LEMMA CheckTokenInvariant ==
  ASSUME IndInv, NEW c \in Client, CheckToken(c)
  PROVE  IndInv'
<1>1. UNCHANGED store /\ req[c].stage = "token"
  BY DEF CheckToken, store
<1>2. CASE Expired(req[c].token) \/ req[c].token \in revoked[req[c].proc]
  BY <1>1, <1>2, RefusalStep DEF CheckToken
<1>3. CASE ~(Expired(req[c].token) \/ req[c].token \in revoked[req[c].proc])
  <2>1. "user" \in Stage
    BY DEF Stage
  <2> QED BY <1>1, <1>3, <2>1, GotoStep DEF CheckToken
<1> QED
  BY <1>2, <1>3

LEMMA ReadUserInvariant ==
  ASSUME IndInv, NEW c \in Client, ReadUser(c)
  PROVE  IndInv'
<1>1. req[c] \in Request /\ RequestOK(req[c]) /\ StoreOK
  BY DEF IndInv
<1>2. PICK u : u = tokens[req[c].token].user
  OBVIOUS
<1>3. req[c].stage = "user" /\ Active(u)
  BY <1>2 DEF ReadUser
<1>4. /\ req[c].op \in Operation /\ req[c].proc \in Process
      /\ req[c].token \in Token /\ u \in User /\ ~req[c].late
      /\ req[c].code = 0
  BY <1>1, <1>2, <1>3 DEF RequestOK, Shape, Doomed, Active, StoreOK, Issued
<1>5. PICK q : q = For(req[c], u)
  OBVIOUS
<1>6. /\ q \in Request /\ q.user = u /\ q.op = req[c].op
      /\ q.proc = req[c].proc /\ q.late = req[c].late /\ q.code = req[c].code
  BY <1>1, <1>4, <1>5, ForTyped
<1>7. UNCHANGED <<accounts, tokens, now>>
  BY DEF ReadUser
<1>8. CASE /\ req[c].op = "use"
           /\ req' = [req EXCEPT ![c] = Answered(For(@, u), 200)]
           /\ UNCHANGED revoked
  <2>1. PICK r : r = Answered(q, 200)
    OBVIOUS
  <2>2. 200 \in Code
    BY DEF Code
  <2>3. r \in Request
    BY <1>6, <2>1, <2>2, AnsweredTyped
  <2>4. /\ r.stage = "answered" /\ r.op = req[c].op /\ r.proc = req[c].proc
        /\ r.code = 200 /\ ~r.late
    BY <1>4, <1>6, <2>1 DEF Answered, Request
  <2>5. Acked(r)
    BY <2>4 DEF Acked
  <2>6. MovesTo(c, r)
    BY <1>5, <1>8, <2>1 DEF MovesTo, IndInv
  <2>7. UNCHANGED store
    BY <1>7, <1>8 DEF store
  <2> QED BY <1>4, <2>3, <2>4, <2>5, <2>6, <2>7, GrantStep
<1>9. CASE /\ req[c].op = "logout"
           /\ req' = [req EXCEPT ![c] = Answered(For(@, u), 204)]
           /\ revoked' = [revoked EXCEPT ![req[c].proc] = @ \cup {req[c].token}]
  <2>1. PICK r : r = Answered(q, 204)
    OBVIOUS
  <2>2. 204 \in Code
    BY DEF Code
  <2>3. r \in Request
    BY <1>6, <2>1, <2>2, AnsweredTyped
  <2>4. /\ r.stage = "answered" /\ r.op = "logout" /\ r.proc \in Process
        /\ r.code = 204 /\ ~r.late
    BY <1>4, <1>6, <1>9, <2>1 DEF Answered, Request
  <2>5. RequestOK(r)'
    BY <2>4 DEF RequestOK, Shape, Acked, Doomed, Operation, Protected
  <2>6. MovesTo(c, r)
    BY <1>5, <1>9, <2>1 DEF MovesTo, IndInv
  <2>7. \A p \in Process : StaysRevoked(p)
    BY <1>1, <1>9 DEF StaysRevoked, StoreOK
  <2>8. StoreOK'
    <3>1. revoked' \in [Process -> SUBSET Token]
      BY <1>1, <1>4, <1>9 DEF StoreOK
    <3> QED BY <1>1, <1>7, <3>1 DEF StoreOK, Issued, OneRowPerEmail
  <2>9. Grows
    <3>1. now \in Nat /\ now <= now
      BY <1>1, SMT DEF StoreOK
    <3> QED BY <1>7, <3>1 DEF Grows
  <2> QED BY <2>3, <2>5, <2>6, <2>7, <2>8, <2>9, RequestMoves
<1>10. CASE /\ req[c].op = "delete_account"
            /\ req' = [req EXCEPT ![c] = At(For(@, u), "erase")]
            /\ UNCHANGED revoked
  <2>1. PICK r : r = At(q, "erase")
    OBVIOUS
  <2>2. "erase" \in Stage
    BY DEF Stage
  <2>3. r \in Request
    BY <1>6, <2>1, <2>2, AtTyped
  <2>4. /\ r.stage = "erase" /\ r.op = "delete_account" /\ r.proc \in Process
        /\ r.user = u /\ r.code = 0 /\ ~r.late
    BY <1>4, <1>6, <1>10, <2>1 DEF At, Request
  <2>5. RequestOK(r)
    <3>1. Shape(r)
      BY <1>4, <2>4 DEF Shape, Operation, Protected
    <3>2. Acked(r)
      BY <1>3, <1>4, <2>4 DEF Acked, Active
    <3>3. Doomed(r)
      BY <2>4 DEF Doomed
    <3> QED BY <3>1, <3>2, <3>3 DEF RequestOK
  <2>6. MovesTo(c, r)
    BY <1>5, <1>10, <2>1 DEF MovesTo, IndInv
  <2>7. UNCHANGED store
    BY <1>7, <1>10 DEF store
  <2> QED BY <2>3, <2>5, <2>6, <2>7, LocalStep
<1> QED
  BY <1>2, <1>8, <1>9, <1>10 DEF ReadUser

\* The second of two deletions finds the account deleted and says so.
LEMMA FindSelfInvariant ==
  ASSUME IndInv, NEW c \in Client, FindSelf(c)
  PROVE  IndInv'
<1>1. req[c] \in Request /\ RequestOK(req[c]) /\ StoreOK
  BY DEF IndInv
<1>2. UNCHANGED store /\ req[c].stage = "erase"
  BY DEF FindSelf, store
<1>3. /\ req[c].op = "delete_account" /\ req[c].user \in User
      /\ req[c].proc \in Process /\ ~req[c].late
  BY <1>1, <1>2 DEF RequestOK, Shape, Doomed
<1>4. CASE Active(req[c].user)
  <2>1. "mark" \in Stage
    BY DEF Stage
  <2> QED BY <1>2, <1>4, <2>1, GotoStep DEF FindSelf
<1>5. CASE ~Active(req[c].user)
  <2>1. accounts[req[c].user].state = "deleted"
    <3>1. accounts[req[c].user].state # "free"
      BY <1>1, <1>2 DEF RequestOK, Acked
    <3> QED BY <3>1, <1>1, <1>3, <1>5 DEF Active, StoreOK
  <2>2. PICK r : r = Answered(req[c], 204)
    OBVIOUS
  <2>3. 204 \in Code
    BY DEF Code
  <2>4. r \in Request
    BY <1>1, <2>2, <2>3, AnsweredTyped
  <2>5. /\ r.stage = "answered" /\ r.op = req[c].op /\ r.proc = req[c].proc
        /\ r.user = req[c].user /\ r.code = 204 /\ ~r.late
    BY <1>1, <1>3, <2>2 DEF Answered, Request
  <2>6. Acked(r)
    BY <1>3, <2>1, <2>5 DEF Acked
  <2>7. MovesTo(c, r)
    BY <1>5, <2>2 DEF FindSelf, Answer, MovesTo, IndInv
  <2>8. r.op \in Operation /\ r.proc \in Process
    BY <1>3, <2>5 DEF Operation, Protected
  <2> QED BY <1>2, <2>4, <2>5, <2>6, <2>7, <2>8, GrantStep
<1> QED
  BY <1>4, <1>5

LEMMA MarkDeletedInvariant ==
  ASSUME IndInv, NEW c \in Client, MarkDeleted(c)
  PROVE  IndInv'
<1>1. req[c] \in Request /\ RequestOK(req[c]) /\ StoreOK
  BY DEF IndInv
<1>2. /\ req[c].stage = "mark" /\ req[c].op = "delete_account"
      /\ req[c].user \in User /\ req[c].proc \in Process /\ ~req[c].late
      /\ accounts[req[c].user].state # "free"
  BY <1>1 DEF MarkDeleted, RequestOK, Shape, Doomed, Acked
<1>3. PICK u \in User : u = req[c].user
  BY <1>2
<1>4. /\ accounts' = [accounts EXCEPT ![u].state = "deleted"]
      /\ UNCHANGED <<tokens, revoked, now>>
  BY <1>3 DEF MarkDeleted
<1>5. /\ accounts' \in [User -> [state : {"free", "active", "deleted"},
                                 email : Email \cup {None}]]
      /\ accounts'[u].state = "deleted"
      /\ accounts'[u].email = accounts[u].email
      /\ \A v \in User \ {u} : accounts'[v] = accounts[v]
  BY <1>1, <1>4 DEF StoreOK
<1>6. OneRowPerEmail'
  <2>1. \A v \in User : /\ accounts'[v].email = accounts[v].email
                        /\ accounts'[v].state # "free" =>
                             accounts[v].state # "free"
    BY <1>2, <1>3, <1>5
  <2> QED BY <2>1, <1>1 DEF StoreOK, OneRowPerEmail
<1>7. StoreOK'
  BY <1>1, <1>4, <1>5, <1>6 DEF StoreOK, Issued
<1>8. Grows
  <2>1. now \in Nat /\ now <= now
    BY <1>1, SMT DEF StoreOK
  <2> QED BY <2>1, <1>4, <1>5 DEF Grows
<1>9. \A p \in Process : StaysRevoked(p)
  BY <1>4 DEF StaysRevoked
<1>10. ASSUME NEW code \in {204, 500}, Answer(c, code) PROVE IndInv'
  <2>1. PICK r : r = Answered(req[c], code)
    OBVIOUS
  <2>2. code \in Code
    BY DEF Code
  <2>3. r \in Request
    BY <1>1, <2>1, <2>2, AnsweredTyped
  <2>4. /\ r.stage = "answered" /\ r.op = "delete_account"
        /\ r.proc \in Process /\ r.user = u /\ r.code = code /\ ~r.late
    BY <1>1, <1>2, <1>3, <2>1 DEF Answered, Request
  <2>5. RequestOK(r)'
    BY <1>5, <2>4 DEF RequestOK, Shape, Acked, Doomed, Operation, Protected
  <2>6. MovesTo(c, r)
    BY <1>10, <2>1 DEF Answer, MovesTo, IndInv
  <2> QED BY <1>7, <1>8, <1>9, <2>3, <2>5, <2>6, RequestMoves
<1> QED
  BY <1>10 DEF MarkDeleted

LEMMA ReturnInvariant ==
  ASSUME IndInv, NEW c \in Client, Return(c)
  PROVE  IndInv'
<1>1. MovesTo(c, Idle) /\ UNCHANGED store
  BY DEF Return, MovesTo, store
<1> QED
  BY <1>1, IdleTyped, LocalStep

\* Time only ends sessions.
LEMMA TickInvariant ==
  ASSUME IndInv, Tick
  PROVE  IndInv'
<1>1. StoreOK /\ now' = now + 1 /\ UNCHANGED <<accounts, tokens, revoked, req>>
  BY DEF IndInv, Tick
<1>2. now' \in Nat /\ now <= now'
  BY <1>1, SMT DEF StoreOK
<1>3. StoreOK'
  BY <1>1, <1>2 DEF StoreOK, Issued, OneRowPerEmail
<1>4. Grows
  BY <1>1, <1>2 DEF Grows
<1>5. ASSUME NEW d \in Client PROVE RequestOK(req[d])'
  <2>1. PICK q \in Request : q = req[d] /\ RequestOK(q) /\ q = req'[d]
    BY <1>1 DEF IndInv
  <2>2. RequestOK(q)'
    BY <1>1, <1>3, <1>4, <2>1, StableRequest DEF StaysRevoked
  <2> QED
    BY <2>1, <2>2 DEF RequestOK, Shape, Acked, Doomed, SessionOver, Expired
<1> QED
  BY <1>1, <1>3, <1>5 DEF IndInv

\* What p forgets matters to no request, because those of p are gone.
LEMMA RestartInvariant ==
  ASSUME IndInv, NEW p \in Process, Restart(p)
  PROVE  IndInv'
<1>1. StoreOK /\ UNCHANGED <<accounts, tokens, now>>
      /\ revoked' = [revoked EXCEPT ![p] = {}]
  BY DEF IndInv, Restart
<1>2. /\ req' \in [Client -> Request]
      /\ \A d \in Client :
           \/ req'[d] = Idle
           \/ /\ req'[d] = req[d]
              /\ req[d].proc # p \/ req[d].stage = "answered"
  BY IdleTyped DEF IndInv, Restart
<1>3. StoreOK'
  BY <1>1 DEF StoreOK, Issued, OneRowPerEmail
<1>4. Grows
  <2>1. now \in Nat /\ now <= now
    BY <1>1, SMT DEF StoreOK
  <2> QED BY <2>1, <1>1 DEF Grows
<1>5. ASSUME NEW d \in Client PROVE RequestOK(req[d])'
  <2>1. PICK q \in Request : q = req'[d]
    BY <1>2
  <2>2. CASE q = Idle
    <3>1. RequestOK(q)'
      <4>1. RequestOK(q) /\ q.stage # "token"
        BY <2>2, IdleTyped DEF Idle
      <4> QED BY <4>1, <1>1, <1>3, <1>4, StableRequest
    <3> QED
      BY <2>1, <3>1 DEF RequestOK, Shape, Acked, Doomed, SessionOver, Expired
  <2>3. CASE q # Idle
    <3>1. /\ q = req[d] /\ RequestOK(q)
          /\ q.proc # p \/ q.stage = "answered"
      BY <1>2, <2>1, <2>3 DEF IndInv
    <3>2. q.stage = "token" => StaysRevoked(q.proc)
      BY <1>1, <3>1 DEF StaysRevoked, StoreOK, RequestOK, Shape
    <3>3. RequestOK(q)'
      BY <1>1, <1>3, <1>4, <3>1, <3>2, StableRequest
    <3> QED
      BY <2>1, <3>3 DEF RequestOK, Shape, Acked, Doomed, SessionOver, Expired
  <2> QED BY <2>2, <2>3
<1> QED
  BY <1>2, <1>3, <1>5 DEF IndInv

LEMMA InitInvariant == Init => IndInv
<1> SUFFICES ASSUME Init PROVE IndInv
  OBVIOUS
<1>1. req \in [Client -> Request] /\ \A c \in Client : RequestOK(req[c])
  BY IdleTyped DEF Init
<1>2. Issued = {}
  BY DEF Init, Issued
<1>3. NotIssued \in [user : User \cup {None}, exp : Nat]
  BY SMT DEF NotIssued
<1>4. StoreOK
  BY <1>2, <1>3 DEF Init, StoreOK, OneRowPerEmail
<1> QED
  BY <1>1, <1>4 DEF IndInv

LEMMA StepInvariant == IndInv /\ [Next]_vars => IndInv'
<1> SUFFICES ASSUME IndInv, [Next]_vars PROVE IndInv'
  OBVIOUS
<1>1. ASSUME NEW c \in Client, Arrive(c) \/ Return(c) PROVE IndInv'
  BY <1>1, ArriveInvariant, ReturnInvariant
<1>2. ASSUME NEW c \in Client, Serve(c) PROVE IndInv'
  BY <1>2, FindExistingInvariant, InsertInvariant, RefreshInvariant,
     RefusalsInvariant, LoginInvariant, CheckTokenInvariant,
     ReadUserInvariant, FindSelfInvariant, MarkDeletedInvariant DEF Serve
<1>3. CASE Tick
  BY <1>3, TickInvariant
<1>4. ASSUME NEW p \in Process, Restart(p) PROVE IndInv'
  BY <1>4, RestartInvariant
<1>5. CASE UNCHANGED vars
  BY <1>5 DEF vars, IndInv, StoreOK, OneRowPerEmail, Issued, RequestOK,
     Shape, Acked, Doomed, SessionOver, Expired
<1> QED
  BY <1>1, <1>2, <1>3, <1>4, <1>5 DEF Next

THEOREM Invariance == Spec => []IndInv
  BY InitInvariant, StepInvariant, PTL DEF Spec

------------------------------------------------------------------------------

\* Every reachable state has its type.
THEOREM TypeCorrect == Spec => []TypeOK
<1>1. IndInv => TypeOK
  BY DEF IndInv, StoreOK, TypeOK
<1> QED
  BY <1>1, Invariance, PTL

\* current_user grants nothing to a request that arrives after its session or
\* its account is over, whatever happens between its two checks.
THEOREM LateIsRefused == Spec => []NoLateAccess
<1>1. IndInv => NoLateAccess
  BY DEF IndInv, RequestOK, Doomed, NoLateAccess
<1> QED
  BY <1>1, Invariance, PTL

\* An acknowledged registration or deletion of an account is in the database
\* and stays there.
THEOREM AckedAccountsAreDurable == Spec => []AckedAccountsLast
<1>1. IndInv => AckedAccountsLast
  BY DEF IndInv, RequestOK, Acked, AckedAccountsLast
<1> QED
  BY <1>1, Invariance, PTL
==============================================================================
