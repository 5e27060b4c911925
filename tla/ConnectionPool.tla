--------------------------- MODULE ConnectionPool ---------------------------
(***************************************************************************)
(* The database sessions of one process (database.py).  A request has one  *)
(* session (get_db), and its session takes a connection of the engine's    *)
(* pool with the first statement of each transaction.  A commit gives the  *)
(* connection back, and db.refresh takes one again; what is still held at  *)
(* the end goes back when the session closes.  The pool is SQLAlchemy's    *)
(* queue pool on an asyncio.Queue, seen from the settings that database.py *)
(* gives it.                                                               *)
(***************************************************************************)
EXTENDS Naturals, Sequences, FiniteSets, SequencesExt

CONSTANTS
  Client,        \* requests that may be in the process at a time
  Size,          \* pool_size
  MaxOverflow,   \* max_overflow
  Transactions   \* Transactions[c]: how many a request of c runs: one if it
                 \* reads, logs in or deletes, two if it creates or updates
                 \* a row (a commit, and then a refresh)

ASSUME PoolAssumption ==
  /\ IsFiniteSet(Client)
  /\ Size \in Nat \ {0}
  /\ MaxOverflow \in Nat
  /\ Transactions \in [Client -> Nat \ {0}]

VARIABLES
  database,  \* whether PostgreSQL answers
  idle,      \* the connections in the pool, oldest first: live, or stale
  opened,    \* how many connections the pool counts as its own
  waiting,   \* the requests that wait for a connection, first come first
  stage,     \* where the request of a client is
  uses,      \* how many transactions it has still to run
  conn,      \* the connection that its session holds
  outage     \* history: the database was away while the request was here

vars == <<database, idle, opened, waiting, stage, uses, conn, outage>>

Limit == Size + MaxOverflow

Init ==
  /\ database = "up"
  /\ idle = <<>>
  /\ opened = 0
  /\ waiting = <<>>
  /\ stage = [c \in Client |-> "none"]
  /\ uses = [c \in Client |-> 0]
  /\ conn = [c \in Client |-> "no"]
  /\ outage = [c \in Client |-> FALSE]

Arrive(c) ==
  /\ stage[c] = "none"
  /\ uses' = [uses EXCEPT ![c] = Transactions[c]]
  /\ stage' = [stage EXCEPT ![c] = "begin"]
  /\ outage' = [outage EXCEPT ![c] = database = "down"]
  /\ UNCHANGED <<database, idle, opened, waiting, conn>>

------------------------------------------------------------------------------
(* Taking a connection.                                                    *)

Take(c) ==
  /\ idle # <<>>
  /\ conn' = [conn EXCEPT ![c] = Head(idle)]
  /\ idle' = Tail(idle)
  /\ stage' = [stage EXCEPT ![c] = "connect"]
  /\ UNCHANGED <<opened, waiting>>

\* A place in the pool is taken before the connection is there.
Open(c) ==
  /\ opened < Limit
  /\ opened' = opened + 1
  /\ conn' = [conn EXCEPT ![c] = "new"]
  /\ UNCHANGED idle

Enqueue(c) ==
  /\ idle = <<>>
  /\ waiting' = Append(waiting, c)
  /\ stage' = [stage EXCEPT ![c] = "waiting"]
  /\ UNCHANGED <<idle, opened, conn>>

\* The first statement of a transaction.
Checkout(c) ==
  /\ stage[c] = "begin"
  /\ \/ Take(c)
     \/ /\ idle = <<>> /\ Open(c)
        /\ stage' = [stage EXCEPT ![c] = "connect"]
        /\ UNCHANGED waiting
     \/ Limit <= opened /\ Enqueue(c)
  /\ UNCHANGED <<database, uses, outage>>

\* A request that was woken runs: another one may have been faster.
Resume(c) ==
  /\ stage[c] = "woken"
  /\ Take(c) \/ Enqueue(c)
  /\ UNCHANGED <<database, uses, outage>>

\* Of those in line, the one who is told when there is news.
Told(line, news) == IF news /\ line # <<>> THEN {Head(line)} ELSE {}

\* c goes on, and whoever is told is woken.
Moved(c, next, line, news) ==
  [d \in Client |-> IF d = c THEN next
                    ELSE IF d \in Told(line, news) THEN "woken"
                    ELSE stage[d]]

Left(line, news) == IF news /\ line # <<>> THEN Tail(line) ELSE line

\* The request is answered, with its result or with an error.
Over(c) ==
  /\ uses' = [uses EXCEPT ![c] = 0]
  /\ outage' = [outage EXCEPT ![c] = FALSE]

\* pool_timeout has passed: c opens a connection if there is room for one by
\* now, and fails if there is none.
Expire(c, line, news) ==
  /\ waiting' = Left(line, news)
  /\ \/ /\ Open(c)
        /\ stage' = Moved(c, "connect", line, news)
        /\ UNCHANGED <<uses, outage>>
     \/ /\ Limit <= opened
        /\ Over(c)
        /\ stage' = Moved(c, "none", line, news)
        /\ UNCHANGED <<idle, opened, conn>>
  /\ UNCHANGED database

\* A request in line gives up its place.
TimeoutWaiting(c) ==
  /\ stage[c] = "waiting"
  /\ \E i \in DOMAIN waiting :
       waiting[i] = c /\ Expire(c, RemoveAt(waiting, i), FALSE)

\* Mutant: one who was woken and leaves does not pass the news on.
NeverPassOn == FALSE

\* A request that was woken knows of a connection that it does not take now.
PassOn == idle # <<>>

TimeoutWoken(c) ==
  /\ stage[c] = "woken"
  /\ Expire(c, waiting, PassOn)

\* Mutant: the time starts again whenever the request gets in line again.
TimeoutInLine(c) == TimeoutWaiting(c)

\* The time runs from when the request first began to wait.
Timeout(c) == TimeoutWaiting(c) \/ TimeoutWoken(c)

------------------------------------------------------------------------------
(* Using a connection and giving it back.                                  *)

\* The session of c gives back connection r: to the queue, where the first in
\* line is told, or, when the queue is full, to be closed.
GiveBack(c, r, next) ==
  /\ conn' = [conn EXCEPT ![c] = "no"]
  /\ \/ /\ Len(idle) < Size
        /\ idle' = Append(idle, r)
        /\ stage' = Moved(c, next, waiting, TRUE)
        /\ waiting' = Left(waiting, TRUE)
        /\ UNCHANGED opened
     \/ /\ Size <= Len(idle)
        /\ opened' = opened - 1
        /\ stage' = [stage EXCEPT ![c] = next]
        /\ UNCHANGED <<idle, waiting>>

\* Mutant: without pool_pre_ping a pooled connection is used as it is.
ConnectUnchecked(c) ==
  /\ stage[c] = "connect"
  /\ database = "up" \/ conn[c] # "new"
  /\ conn' = [conn EXCEPT ![c] = IF @ = "new" THEN "live" ELSE @]
  /\ stage' = [stage EXCEPT ![c] = "query"]
  /\ UNCHANGED <<database, idle, opened, waiting, uses, outage>>

\* A new connection is made; a pooled one is tried first (pool_pre_ping), and
\* replaced when it is stale.
Connect(c) ==
  /\ stage[c] = "connect"
  /\ database = "up"
  /\ conn' = [conn EXCEPT ![c] = "live"]
  /\ stage' = [stage EXCEPT ![c] = "query"]
  /\ UNCHANGED <<database, idle, opened, waiting, uses, outage>>

\* Mutant: the place of a connection that was never made joins the queue.
FailToConnectQueued(c) ==
  /\ stage[c] = "connect"
  /\ database = "down"
  /\ GiveBack(c, conn[c], "none")
  /\ Over(c)
  /\ UNCHANGED database

\* The place of a new connection is free again, without a word to those who
\* wait; the place of a pooled one goes back to the queue.
FailToConnect(c) ==
  /\ stage[c] = "connect"
  /\ database = "down"
  /\ \/ /\ conn[c] = "new"
        /\ opened' = opened - 1
        /\ conn' = [conn EXCEPT ![c] = "no"]
        /\ stage' = [stage EXCEPT ![c] = "none"]
        /\ UNCHANGED <<idle, waiting>>
     \/ conn[c] # "new" /\ GiveBack(c, "stale", "none")
  /\ Over(c)
  /\ UNCHANGED database

\* A commit that is followed by a refresh.
Commit(c) ==
  /\ stage[c] = "query"
  /\ conn[c] = "live"
  /\ 1 < uses[c]
  /\ uses' = [uses EXCEPT ![c] = @ - 1]
  /\ GiveBack(c, "live", "begin")
  /\ UNCHANGED <<database, outage>>

\* The last transaction ends: a commit, or the session is closed.
Finish(c) ==
  /\ stage[c] = "query"
  /\ conn[c] = "live"
  /\ uses[c] = 1
  /\ GiveBack(c, "live", "none")
  /\ Over(c)
  /\ UNCHANGED database

\* Mutant: the session is not closed when a statement raises.
FailQueryOpen(c) ==
  /\ stage[c] = "query"
  /\ conn[c] = "stale"
  /\ stage' = [stage EXCEPT ![c] = "none"]
  /\ Over(c)
  /\ UNCHANGED <<database, idle, opened, waiting, conn>>

\* A statement raises, and get_db closes the session on the way out.
FailQuery(c) ==
  /\ stage[c] = "query"
  /\ conn[c] = "stale"
  /\ GiveBack(c, "stale", "none")
  /\ Over(c)
  /\ UNCHANGED database

------------------------------------------------------------------------------
(* The database stops, and with it every connection; and comes back.       *)

Lost(r) == IF r = "live" THEN "stale" ELSE r

Stop ==
  /\ database = "up"
  /\ database' = "down"
  /\ idle' = [i \in DOMAIN idle |-> Lost(idle[i])]
  /\ conn' = [c \in Client |-> Lost(conn[c])]
  /\ outage' = [c \in Client |-> outage[c] \/ stage[c] # "none"]
  /\ UNCHANGED <<opened, waiting, stage, uses>>

Start ==
  /\ database = "down"
  /\ database' = "up"
  /\ UNCHANGED <<idle, opened, waiting, stage, uses, conn, outage>>

------------------------------------------------------------------------------

Progress(c) ==
  \/ Checkout(c) \/ Resume(c)
  \/ Connect(c) \/ FailToConnect(c)
  \/ Commit(c) \/ Finish(c) \/ FailQuery(c)

Next ==
  \/ \E c \in Client : Arrive(c) \/ Progress(c) \/ Timeout(c)
  \/ Stop \/ Start

\* The event loop runs what is ready, a statement ends, the timer expires.
\* Nobody has to send a request, and the database need not come back.
Fairness == \A c \in Client : WF_vars(Progress(c)) /\ WF_vars(Timeout(c))

Spec == Init /\ [][Next]_vars /\ Fairness

------------------------------------------------------------------------------
(* Properties.                                                             *)

TypeOK ==
  /\ database \in {"up", "down"}
  /\ idle \in Seq({"live", "stale"})
  /\ opened \in Nat
  /\ waiting \in Seq(Client)
  /\ stage \in [Client -> {"none", "begin", "waiting", "woken", "connect",
                           "query"}]
  /\ uses \in [Client -> Nat]
  /\ conn \in [Client -> {"no", "new", "live", "stale"}]
  /\ outage \in [Client -> BOOLEAN]

Holders == {c \in Client : conn[c] # "no"}

Woken == {c \in Client : stage[c] = "woken"}

\* No connection is lost, and none is opened beyond the limit: whatever fails
\* or times out, each connection that the pool counts is idle or with a
\* request that uses it now.  A request that waits, or is over, holds none.
NothingLeaks ==
  /\ opened = Len(idle) + Cardinality(Holders)
  /\ opened <= Limit
  /\ Len(idle) <= Size
  /\ \A c \in Client : c \in Holders <=> stage[c] \in {"connect", "query"}

\* While requests are in line, as many of them as there are idle connections
\* have been told: none sleeps beside a connection that nobody is coming for.
NoLostWakeup == waiting # <<>> => Len(idle) <= Cardinality(Woken)

\* A restart of the database costs the requests that it overtakes, and no
\* later one: who arrives afterwards is never given a dead connection.
ErrorsAreOutages ==
  [][\A c \in Client :
       (FailToConnect(c) \/ FailQuery(c)) => outage[c]]_vars

\* Every request is answered: it gets its connections, or fails in time.
Answered == \A c \in Client : stage[c] # "none" ~> stage[c] = "none"
==============================================================================
