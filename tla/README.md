# Task Manager: TLA+ specifications

Specifications of the Task Manager in this repository (FastAPI + PostgreSQL API,
React board): the model, what TLC checks of it and what TLAPS proves of it.
Paths below are relative to `src/`.

## The system

| Component | State it keeps | Operations | What makes it hard |
|---|---|---|---|
| Task and project API (`backend/app/routers/{projects,tasks}.py`, `services/task_service.py`, `repositories/`) | rows of `projects`, `tasks`, `comments` with a `deleted_at` mark; Prometheus counters | create, list, read, update, delete | several requests at once, each a sequence of statements with no lock and no version column; lost commit replies; restarts |
| Accounts and sessions (`routers/auth.py`, `routers/deps.py`, `services/auth_service.py`, `repositories/user_repository.py`) | rows of `users`; JWTs held by clients; the in-memory set of revoked token ids | register, login, logout, delete account, authenticate a request | check-then-insert on the email, a revocation set that lives in one process, tokens that expire, requests in progress while the session ends |
| Login rate limiter (`middleware/rate_limit.py`) | one deque of timestamps per client address | admit or reject a POST to `/auth/login` | the boundary of a sliding window, `Retry-After`, buckets that only change when a request arrives |
| Middleware stack (`main.py`, `middleware/*.py`) | the layers a request is in; in-process counters | pass down, answer early, pass up, fail | exceptions skip everything a layer does after `call_next` |
| Database sessions (`database.py`) | a pool of 20 + 30 connections; a session per request | check out, return, wait, time out | everyone waiting on everyone; places lost on an error path; dead connections after an outage |
| Board in the browser (`frontend/src`) | token in `localStorage`, React Query cache, fetches and mutations under way | log in and out, list, create, move a task | answers that arrive out of order or after the user has left; a stale board |
| Schema and seed scripts (`backend/alembic`, `main.py` `lifespan`, `backend/seed.py`) | the tables, `alembic_version`, the demo account and its data | create_all, upgrade, downgrade, seed | scripts that run at once, or are stopped halfway |
| Deployment (`.github/workflows/publish.yml`, `fly.toml`, `aws/`, `infra/gcp/`) | the step of each job, the releases, what serves | migrate, switch, check, roll back | jobs that overlap, a failed step halfway, old code on a new schema |
| Load test (`load-tests/locustfile.py`) | each user's token and its notes of its tasks | register, log in, browse, manage tasks, verify sessions | notes that fall behind when an answer is lost; the pace against the limiter |

How they interact: a request goes down the middleware stack (the rate limiter is
one of its layers) to a handler; `current_user` authenticates it against the
token, the revocation set and `users`; the handler runs its statements on one
database session, which takes a connection of the pool. The board calls the API
through `api/client.ts` and keeps what it read in React Query's cache. The tables that
the code expects are made by the release command of a deployment, or by the API
itself in development. The load test calls the API as a client, all of its users
from one address.

What makes each part correct, in a sentence:

- **Projects and tasks.** Users reach their own rows only; what is deleted is
  gone; a task walks its workflow; an acknowledged write is in the database.
- **Accounts.** An acknowledged account stays; a session that is over stays over.
- **Limiter.** In no window of 60 seconds are more than ten attempts of an
  address admitted, and `Retry-After` says when the next one is.
- **Middleware.** A request that a layer refuses costs no layer further in
  anything; every answer has the headers of the layers that it passed.
- **Board.** It comes to rest on a state at least as new as what it was told.
- **Sessions.** No connection is lost, nobody waits for ever, and an outage
  costs only the requests that it overtakes.
- **Schema, deployment.** The stamp tells the truth, the code that serves finds
  its tables, the demo account is whole or absent, every script ends.
- **Load test.** A failure it reports is never of its own making.

## Modules

| Module | What it is | Code |
|---|---|---|
| `TaskRules` | statuses, `VALID_TRANSITIONS`, `TransitionAllowed` | `models/task.py`, `services/task_service.py` |
| `TaskLifecycle` | abstract specification: the life of a task, with no requests in it | what `task_service.py` and `openapi.yaml` promise |
| `TaskApi` | all project, task and comment endpoints of one process | `routers/{projects,tasks,deps}.py`, `services/`, `repositories/` |
| `AuthApi` | accounts, tokens, revocation in several processes | `routers/{auth,deps}.py`, `auth_service.py`, `user_repository.py` |
| `SlidingWindow` | abstract specification: admissions of the last window | what `rate_limit.py` promises |
| `RateLimiter` | the deques | `middleware/rate_limit.py` |
| `Middleware` | the layers around the routes; composes `RateLimiter` (`Limit == INSTANCE RateLimiter`) | `main.py`, `middleware/*.py` |
| `Board` | the page in the tabs of a browser, over the abstract API | `frontend/src` |
| `ConnectionPool` | the sessions of the requests of one process over the engine's pool | `database.py` and the handlers' use of it |
| `Schema` | the database's tables and the scripts on them | `alembic/`, `main.py` `lifespan`, `seed.py` |
| `Rollout` | the deploy jobs of one environment; extends `Schema` | `publish.yml`, `fly.toml` |
| `LoadTest` | the users of the load test; composes `RateLimiter`, with the API's `TaskRules` | `load-tests/locustfile.py` |
| `*Proofs` | theorems of `TaskApi`, `AuthApi`, `RateLimiter`, `Middleware`, `Board`, `ConnectionPool`, `Rollout`, `LoadTest` | |
| `MC*` | symmetry and constants for TLC | |

`PROJECT.json` maps each definition to the lines that it translates.

### Steps and state of the API modules

FastAPI runs handlers on one event loop: the code between two `await`s is
atomic, and each `await` of these handlers is one SQL statement or one commit.
So an action of `TaskApi` and `AuthApi` is *one statement and the code up to the
next one*, and `req[c].stage` says which statement comes next. `get_task` is
`ReadUser`, `ReadProject`, `ReadTask`; `update_task` adds `SaveTask` (the
commit) and `Refresh`. Between any two actions other requests take theirs.

- A row is `[state, ...]` with state `free` (an id the sequence has not handed
  out), `active`, or `deleted` (`deleted_at` set). Titles, priorities, dates and
  names are left out: no guard of these handlers reads them.
- The session's copy of a task is `req[c].snap`, the status it was loaded with.
  SQLAlchemy writes back the attributes that changed from it, hence `NewStatus`.
- `DbError` fails any statement without effect, `Commit` may take effect and
  answer 500 all the same (reply lost), `Restart` drops every handler and the
  in-memory state and keeps the tables.
- `RejectToken` stands for what `AuthApi` models in full: the token is refused.
  `AccountDeleted` stands for `DELETE /auth/users/me`.
- The filter of `list_tasks` and whether `assignee_id` exists are chosen by the
  step that uses them (`ListRows`; `ViolateForeignKey` or the commit), since
  nothing looks at them before: the behaviours are the same, the states fewer.
- Validation of payloads (422 before the handler starts) is outside: `Arrive`
  brings requests whose payload is valid.

In `AuthApi` the check of the token is a step in memory (`CheckToken`) and the
`SELECT` of the user the next (`ReadUser`); between them tokens expire, other
requests log out, accounts go. `revoked[p]` is the set of process `p` and is
empty after its restart. Tokens are handed to a client by the answer to its
login (`Delivered`). The clock moves between any two actions.

In `RateLimiter` time is a counter with `Second` ticks per second; `buckets`,
`Admit`, `Refuse` and `RetryAfter` are the deque, the two outcomes of
`dispatch` and the header. `log` and `refused` are history.

In `Middleware` a request is at a `depth` of `Layers`, the order in which
`main.py` *registers* them, turned inside out. `mood` is `down`, `up` or
`raise`: an exception takes the way up without what layers do after `call_next`.

In `Board` a query key has its data, its invalidation mark and its fetch; a
mutation under way is a slot. The API is one step per request, or a failure with
or without effect. React Query and axios are external: `Mounted`, `Invalidated`
and `LandFetch` are their documented defaults (version 5: data is stale at once,
a mounting observer fetches unless a fetch of its key is under way, an
invalidated query on the screen drops its fetch for a new one unless it has no
data yet, a failure is tried again or given up).

In `ConnectionPool` a request is `uses[c]` transactions, each a check-out, its
statements (one step, `query`) and a release: a commit gives the connection
back and the `refresh` that follows asks for one again. SQLAlchemy's queue pool
is modelled as database.py configures it: `idle` is its queue, `opened` its
count of connections, `waiting` the futures of the `asyncio.Queue` in order, and
`woken` a waiter whose future is done and which has not run yet, so that a
newcomer may take the connection first and a time-out may race the wake-up.
`Stop` kills all connections; `Connect` is `pool_pre_ping`.

In `Schema` the columns are abstracted to the revision they came with: `tables`
is 0, 1 or 2 and `stamp` is `alembic_version`. A script is `job`, `step`, what
it `saw` when it began, and what its open transaction holds (`work`, `written`).
A migration runs both revisions in one transaction (`env.py`), so nobody sees it
before `CommitMigration`. Its statements come to the tables one after the other
(`Order`) and keep their locks to the end: `got` counts those that a script has,
`LockNext` waits for the next one, `MayAlter` and `MayRead` are the two kinds of
table lock that matter. Upgrades, `create_all` and the seed go from `users` to
`comments`; a downgrade of 002 goes the other way, one of 001 by `DropOrder`
(`DROP TABLE` locks the tables of the foreign keys too, in an order the database
chooses). Two inserts of one address wait for each other at the unique index
(`InsertUser`). Scripts that wait for each other in a circle are `Deadlocked`,
and the database ends one of them (`Raise`). `HeadOf` says what code a script has: its own image's, or in
development the one checkout's. `Raise` is a statement that cannot succeed,
`Crash` anything else that ends a script. `Carried` is what a downgrade that
drops `deleted_at` does to the demo account.

`Rollout` adds a job per image: `Deploy` starts the release command, which is an
`upgrade` of `Schema`; when it ends well the traffic is switched, and the health
check and the smoke test judge whatever serves by then. Jobs overlap, since the
workflow has no concurrency group. The release command may fail for any reason;
in the image that `backend/Dockerfile` builds at this commit it always does, for
neither `alembic.ini` nor the revisions are copied into it, so the model has
more behaviours than that image (deployments that succeed). (The deploy jobs are shipped with `if: false`;
the model is of the jobs once enabled, as `docs/modules/16-multi-environment.md`
has it.)

In `LoadTest` each request of a user is one step of the API, answered, refused
or lost (`error`, with or without effect). `stage` is the method that the user
is in, `notes` is `tasks_state`, `wake` the end of `wait_time`. `who` names the
user of each entry of the limiter's log. Waiting times of users that do not
pace themselves against the limiter are left out: they may act at any time.

## Runs

| Run | Question | Result |
|---|---|---|
| `TaskApi_races` | two clients race create, PATCH and DELETE on one task | no status is skipped (`NoSkippedReview`), acknowledged writes are there (`AckedWritesLast`), nothing deleted comes back (`TombstonesFinal`), and the life cycle is left by stale writes alone (`OnlyStaleWritesDepart`) |
| `TaskApi_owners` | two users, two projects, ids mixed in paths | a step changes rows of its caller's project only (`OwnerOnly`), an answer holds the caller's rows only (`OwnDataOnly`) |
| `TaskApi_lifecycle` | tasks and projects, writes to one task one at a time | implements `TaskLifecycle`; what was deleted before a request arrives is out of its reach (`DeletedIsGone`); counters never exceed rows (`NeverOvercounts`) |
| `AuthApi` | register, login, logout, delete, use, with faults and restarts | no access after the end of a session (`NoLateAccess`), acknowledged accounts and deletions stay (`AckedAccountsLast`) |
| `RateLimiter` | two addresses at the limit | `LimitHolds`, `RetryAfterExact`, implements `SlidingWindow` |
| `Middleware` | requests on two connections through all layers | the budget pays for logins that a route ran (`BudgetIsForLogins`), counters agree with answers (`CountersAddUp`), headers (`HandledAnswersAreMarked`) |
| `Board` | one tab and other clients | `OwnWritesShown`, `RefusalMeansStale` |
| `ConnectionPool` | four requests, two connections, a database that stops and starts | `NothingLeaks`, `NoLostWakeup`, `ErrorsAreOutages`; every request is answered (`Answered`) |
| `Rollout` | two images and two scripts by hand on one database, jobs that overlap, crashes | `StampMatches`, `CodeMeetsSchema`, `DemoWhole`; deadlocks need a downgrade (`DowngradesDeadlock`); every script ends (`ScriptsEnd`) |
| `LoadTest` | a browsing, a writing and a verifying user at one address | `NotesAreClose`, `RefusedAfterLossOnly`, `OwnPaceIsSafe` |
| `TaskApi_terminal` | "Terminal states (DONE, CANCELLED) cannot be left" | **violated**: two PATCHes load TODO; one commits CANCELLED, the other IN_PROGRESS over it |
| `Board_switch` | the page after a login lists one's own projects | **violated**: `/login` is open to who is logged in; the next user's page takes over the fetch of the last one's |

Every property of a passing run has a mutant in `PROJECT.json`: an operator next
to the definition it replaces (`\* Mutant:`) with a plausible mistake in it, and
the run fails with it.

### Bounds, and why they are enough

- **Two clients.** Each guard that a race can invalidate is checked by one
  request and invalidated by another; a third client adds no new pair. `Restart`,
  lost replies and `AccountDeleted` come on top (`Faults = FALSE` in
  `TaskApi_owners`: who owns a row does not depend on them).
- **One task** for races on a task; **two users and two projects** when ids are
  mixed (`TaskApi_owners`), with one task and one comment, since the question is
  whose project they are under. Ids are used up (a deleted row is never handed
  out again), as PostgreSQL sequences do.
- `Overlap = FALSE` in `TaskApi_lifecycle` lets a write to a task arrive only
  when no other write to it is in progress, which nothing in the code ensures.
  It is the condition of `ImplementsLifecycle`; `TaskApi_terminal` shows that it
  is needed, and `OnlyStaleWritesDepart`, checked in `TaskApi_races` with
  `Overlap = TRUE`, says for every behaviour what is left of the refinement.
- **`AuthApi`**: `Horizon` 2 with `Lifetime` 1 lets a token live, expire and be
  used after; two tokens let a session outlive another of the same user. One
  process: with two the space is out of reach for a run, and the proof covers
  any number.
- **`RateLimiter`**: `Max` 2, `Window` 2 seconds of two ticks, `Horizon` 9: the
  window passes twice and attempts fall on both sides of each boundary.
- **`Middleware`**: three requests on two connections with a limit of one, so
  that a refusal, an admission and an early answer meet. `Requests` and
  `Horizon` are the bounds.
- **`Board`**: rows change at most three times (created, moved, moved again by
  someone else), one mutation of the tab at a time; other clients make the rest.
- **`ConnectionPool`**: one pooled and one overflow connection, so that a
  connection is kept or closed on its return; four requests, so that two wait
  while two are served, one of them with a commit and a refresh.
- **`Rollout`**: an image of each revision, so that a job can bring the older one
  after the newer, and two scripts run by hand, any kind of script again and
  again, so that two of a kind meet each other and a job, and a circle of two
  keeps a third one waiting. The run has one of the two `DropOrder`s, the proofs
  hold for both.
- **`LoadTest`**: one user of each class and two tasks. `Max` 1, `Window` 2 and
  `Pace` 2 keep what the code has, `Window = Max * Pace` (60 s, 10 times 6 s),
  and `Horizon` 4 lets a second login fall on the boundary of the window.

### Fairness

Two specifications state fairness, for two liveness properties; in all others
everything may stop at any time.

- `ConnectionPool`: weak fairness of `Progress(c)` and of `Timeout(c)` for each
  request. The event loop runs what is ready, a statement ends (the server
  answers or the socket fails), and the timer of `pool_timeout` expires. Nobody
  has to send a request, and a database that stopped need not start again.
- `Rollout`: weak fairness of `ProceedOrRaise(p)` for each script: a statement
  that can run does, a lock that stays free is given to who waits for it, and a
  circle of waiting scripts is noticed after `deadlock_timeout` and one of them
  ended (`Deadlocked` makes `Raise` possible, fairness makes it happen; without
  that disjunct of `Doomed` the run finds two scripts that wait for ever). Jobs
  and crashes have no fairness. `ScriptsEnd` asks that all scripts end once nobody
  begins one any more. That a script ends while others begin, crash and begin
  again for ever rests on the order in which PostgreSQL grants locks (who comes
  later queues behind who waits), which the model leaves out, as it does the
  locks of the API's own requests, each held for one short transaction.

## Proofs

TLAPS checks the following for every value of the constants: any number of
clients, users, rows, tokens, processes, addresses, scripts and images, any
limit, window and pool size.

| Theorem | Says |
|---|---|
| `TaskApiProofs!TypeCorrect`, `NoReviewSkipped`, `AckedWritesAreDurable`, `TombstonesAreFinal` | `TypeOK`, `NoSkippedReview`, `AckedWritesLast`, `TombstonesFinal` of `TaskApi` |
| `TaskApiProofs!OwnRowsOnly`, `GoneIsGone`, `OnlyOwnersWrite`, `NothingOvercounted` | `OwnDataOnly`, `DeletedIsGone`, `OwnerOnly`, `NeverOvercounts` of `TaskApi` |
| `TaskApiProofs!StaleWritesAlone` | `OnlyStaleWritesDepart` of `TaskApi`: the life cycle of tasks, for all overlaps, stale writes apart |
| `AuthApiProofs!TypeCorrect`, `LateIsRefused`, `AckedAccountsAreDurable` | `TypeOK`, `NoLateAccess`, `AckedAccountsLast` of `AuthApi` |
| `RateLimiterProofs!TypeCorrect`, `LimitIsKept`, `RetryAfterIsExact`, `WindowIsImplemented` | `TypeOK`, `LimitHolds`, `RetryAfterExact`, `ImplementsWindow` of `RateLimiter` |
| `ConnectionPoolProofs!TypeCorrect`, `NothingEverLeaks`, `NoWakeupIsLost`, `OnlyOutagesFail` | `TypeOK`, `NothingLeaks`, `NoLostWakeup`, `ErrorsAreOutages` of `ConnectionPool` |
| `RolloutProofs!TypeCorrect`, `TheStampIsTrue`, `CodeFindsItsTables`, `AllSampleDataOrNone`, `OnlyDowngradesDeadlock` | `TypeOK`, `StampMatches`, `CodeMeetsSchema`, `DemoWhole`, `DowngradesDeadlock` of `Rollout` |
| `MiddlewareProofs!TypeCorrect`, `BudgetIsKept`, `CountersAgree`, `AnswersAreMarked` | `TypeOK`, `BudgetIsForLogins`, `CountersAddUp`, `HandledAnswersAreMarked` of `Middleware` |
| `BoardProofs!TypeCorrect`, `OwnWritesAreShown`, `RefusalsMeanStale` | `TypeOK`, `OwnWritesShown`, `RefusalMeansStale` of `Board` |
| `LoadTestProofs!TypeCorrect`, `NotesFollow`, `RefusalsAreExplained`, `PaceIsSafe` | `TypeOK`, `NotesAreClose`, `RefusedAfterLossOnly`, `OwnPaceIsSafe` of `LoadTest` |
| `MiddlewareProofs!WindowInTheStack`, `LoadTestProofs!UsersMeetTheWindow` | the limiter still implements `SlidingWindow` with all layers, and all users of the load test, around it |

Assumptions: those the modules declare (`None` is no id, the times are numbers,
the limit is positive, `Window * Second <= Max * Pace`, the ids of projects and
tasks are finite sets, so that rows can be counted, and a row of the board may
change at least once: it is created). No theorem
has a hypothesis of its own. `Middleware` and
`LoadTest` assume of the limiter's constants what `RateLimiter` assumes
(`LimiterAssumption`). That no address has two rows is a
part of the invariant of `AuthApi` and no property of it: it is the unique index
itself (`Insert`, `ViolateUnique`), which PostgreSQL guarantees.

The argument in `TaskApi` and `AuthApi` is the same. The invariant is a
conjunction of a part about the tables (`StoreOK`) and one about each request
(`RequestOK`). *The tables only grow*: rows are created and marked deleted,
histories gain elements (`Grows`), and what a request knows (that its row
exists, its status was once the task's, its session is over) is stable under
growth. So each action needs a proof about its own request alone, and the
lemma `RequestMoves` carries all other requests along. `NoSkippedReview` is not
inductive alone: a stale PATCH moves the task from whatever it has become, so
the invariant says that the copy a request holds is a status in `held`, and
every status in `held` has its predecessors there.

*Whose rows* (`TreeInv`). The parents of a row never change once it is created,
and a row that never was has none (`Blank`). So what a handler has checked, that
the project is its caller's and the task in the project, stays true for as long
as it runs, and all that it reads or writes after that lies in its caller's tree
(`Inside`), the unchecked read of `refresh` included. `OwnDataOnly` is a
conjunct of it. `DeletedIsGone` is not inductive: that a late request is
refused in the end needs that, at each check that it has still to pass, what it
came too late for is already deleted (`TurnedAway`). `OwnerOnly` follows step by
step: either nothing that is or comes to be under a project changes
(`Untouched`), or the request that moved is its owner's and names it (`ByOwner`).

*What is counted* (`CountInv`). The counter follows the commit by one step, so it
is bounded by the rows that are not waiting to be counted (`Counted`), and no two
handlers are about to count one row (`OneEach`): ids are handed out once.

*The life cycle* (`StaleWritesAlone`). A row is mapped to its status and its
mark; every step but an insert, a PATCH's commit and a DELETE's commit is a
stutter. The invariant says that what a PATCH writes is a legal successor of the
status that it loaded (`FromHeld`). So if the row still is as it was loaded, its
commit is a legal transition of a task that is alive; if not, it is a
`StaleWrite`, which touches that one status.

`NoLateAccess` needs that a request which arrived late can only be refused: the
token's expiry, revocation *in that process* and the deletion of the account
are each final, except that a restart forgets revocations, and it ends the
requests of that process too (`Doomed`).

In `RateLimiter` the invariant ties each bucket to the log of admissions: the
bucket is exactly the suffix of the log that the last visit kept, the log is
sorted, and any `Max + 1` consecutive admissions span more than a window. The
refinement maps `SlidingWindow`'s admissions to the log; a step of `dispatch`
maps to an attempt of the same outcome because what it drops has left the window
and, times being sorted, nothing after it has.

In `ConnectionPool` the invariant has a part about the pool (`PoolOK`) and one
about each request (`RequestsOK`). `NothingLeaks` alone is not inductive: that a
release never counts below zero needs that exactly the requests at `connect` or
`query` hold a connection, and that `waiting` lists each waiting request once
(`Removed`: taking one out of the line leaves the others in it). `NoLostWakeup`
rests on every step that adds to `idle` also telling the first in line, and on a
woken request that leaves either taking a connection or passing the news on.
`OnlyOutagesFail` needs that a stale connection is seen only by requests that
were there when the database stopped, which is where `Connect` comes in.

In `Rollout` the invariant is about what is not committed yet, of which
`StampMatches`, `CodeMeetsSchema` and `DemoWhole` say nothing, so that none of
them is inductive. `LocksOK`: who alters shares no table with anybody else
(`Apart`), how many locks a script has fits its step, and the tables are as who
alters them found them (`HoldsOK`; it compares the stamp when it writes it). Who
commits has all locks, and who has all is alone (`HoldsAll`); so its commit sets
both to the same revision. `JobOK`: a script does what its environment and
its step allow, and what it saw is still there unless a revision was taken back.
`Met`: every image that serves, is about to, or may serve again by a roll-back
finds its tables, unless a revision was taken back. `SeedOK`: the open
transaction of a seed holds the rows up to one of its flushes, and only one seed
has any while there is no demo account. `DowngradesDeadlock` needs an order: the
scripts that are no downgrades all take the tables in one order, so whom one of
them waits for is further than it is (twice the number of its locks, and one more
when it has inserted the address), and a circle of them would climb for ever.

`Middleware` and `LoadTest` contain the limiter, and their proofs take what is
known of it from `RateLimiterProofs` by `INSTANCE`: its invariant `IInv` is a
conjunct of theirs, and a step of the limiter inside a larger step keeps it by
the limiter's own lemmas. The layers of `Middleware` are settled by `PathOK`: how
deep an answer still is says which headers it has and whether a route gave it.
`BudgetIsForLogins` and `CountersAddUp` equate a count with the size of a set of
connections (`Spenders`, `Shows`); every move adds one connection to such a set,
takes one from it, or leaves it (`Passing`), and the counts follow.

In `LoadTest` the notes of a user are at most one unheard change behind
(`Lag`), because a user that was not answered learns the truth or a refusal
before it changes the task again; a task is known to one user only (`Apart`), so
no one else changes it. `OwnPaceIsSafe` needs that the logins of one verifying
user are spaced by `Pace` (`Paced`), and that it is as long since the last one
as it has rested (`Rested`): then `Max + 1` of them do not fit into a window.

The limiter's refinement lifts to both: no step of a layer or of a user moves the
buckets but by the limiter's own operations (`LimiterSteps`), so every behaviour
of the stack, or of the load test, is one of `RateLimiter`, which implements
`SlidingWindow`.

In `Board` a cache entry that shows data without a pending invalidation has every
write that the tab was acknowledged, and so has every answer on its way to an
entry (`Fresh`, `EntryOK`). The second part is what makes the first inductive:
an answer read before the write was acknowledged would bring the old rows back,
but a write acknowledged on its page replaces the fetch, and one acknowledged
elsewhere is not owed to it (`owed`). Versions of rows only grow, so fresh data
stay fresh while others write. `RefusalMeansStale` needs that the table of
buttons is within `VALID_TRANSITIONS` (`OffersAreLegal`), and that a task that
exists has a status, without which the invariant was not inductive.

Model-checked only: liveness (`Answered` of `ConnectionPool`, `ScriptsEnd` of
`Rollout`), which is out of the prover's reach, the two violations, and
`ImplementsLifecycle`, of which `OnlyStaleWritesDepart` is what holds without
`Overlap = FALSE`. Every other property of a run has its theorem.

## Not in a run, and why

- A logout is forgotten by a restart and never known to another process;
  `docs/adr/0003-security-controls.md` accepts it. `NoLateAccess` promises
  refusal in the process that revoked, while it runs.
- `task_status_transitions_total` is incremented before the commit, so a
  transition that fails is counted. The counter is left out of the model.
- `X-Request-ID` is absent from 413, 429, preflights and unhandled 500s: part of
  `HandledAnswersAreMarked` ("and only those").
- The board offers a move from a stale card and the API refuses it with 422:
  `docs/user-guide.md:194` says "you cannot reach this error through the normal
  interface". `RefusalMeansStale` is what does hold. A write that is acknowledged after its page was left may be followed, on
  return, by the answer of an older fetch; `OwnWritesShown` says when it is not.
- `docs/api/openapi.yaml:251` says that deleting a project "cascades to tasks/comments":
  the tasks stay active, though out of reach (`DeletedIsGone`).
- `docs/api/openapi.yaml:122` has 409 for an address that is taken; the loser of a
  race, and who registers the address of a deleted account, get 500 (`AuthApi`,
  `ViolateUnique`).
- `security_headers.py:7` says "every response": an unhandled exception is
  answered outside every middleware (`HandledAnswersAreMarked` excludes it).
- A commit may take effect and the `refresh` after it find no connection: the
  answer is 500 though the row is there. A failed connect frees a place without
  telling those who wait, so one of them may wait out its whole time-out.
- `docs/modules/13-continuous-deployment.md:399` says that a failed health check
  rolls back. The step runs under `bash -e`, and `STATUS=$(curl -sf ...)` ends it
  when curl fails (`Unreachable`): the release keeps the traffic. The roll-back
  is reached by answers that curl accepts and that are not 200. Line 690 says
  the same of a failed smoke test, which never rolls back.
- Health check and smoke test judge what serves when they run, which may be
  another job's image.
- `alembic upgrade head` fails on a database that `create_all` made
  (`StampMatches` is about stamped ones). `create_all` leaves old tables as they
  are, so after a pull a development database may lack a column; `HeadOf` keeps
  that case out.
- A downgrade of 002 and an upgrade after it bring deleted rows back (`Carried`),
  and the old image after a roll-back shows them. `CodeMeetsSchema` says only
  that the tables are there.
- `docs/adr/0008` says that every target migrates before traffic. None does at
  this commit: Fly.io is configured to, but the image of `backend/Dockerfile` has
  no `alembic.ini`, so its release command fails and the deploy is aborted; Azure
  migrates afterwards and ignores a failure, the AWS and Google Cloud scripts do
  not migrate.
- `seed.py` says "every status column" and has no cancelled task, which
  `DemoWhole` leaves out too. It does nothing when the demo account was deleted.
- The comment at `load-tests/locustfile.py:58` says that an interrupted user does
  not loop (`self.interrupt()` at `:165`). Locust runs `on_start` again at once (`BeginAgain`), a user that is
  refused with 429 registers again and again, and nothing limits registrations.
  Two verifying users at one address exceed ten logins a minute together:
  `OwnPaceIsSafe` blames others for a refusal, it does not exclude it.
- The sets that only grow (`_revoked_jtis`, the addresses in `buckets`) are
  bounded by the life of the process; the code promises no bound.

Not modelled: telemetry and logging set-up (output only), the k6 scripts and the
penetration tests (fixed sequences of requests), the Aspire host (declarations),
the scripts for Azure, AWS and Google Cloud (no state of their own), the
reference solution (the same application with two workers and a smaller pool:
`AuthApi`'s `Process` and `ConnectionPool`'s constants cover what differs).
Tokens that expire during a load test are left out of `LoadTest` (`AuthApi` has
them), as is the order of requests inside a single method that fails halfway
(any of them may be lost).

## Plan

1. *Done*: `TaskApi` with its life cycle, `AuthApi`, `RateLimiter`, `Middleware`,
   `Board`, `ConnectionPool`, `Schema`, `Rollout`, `LoadTest`; proofs of
   all their safety properties and refinements.
2. An abstract pool (permits, taken and given back) that `ConnectionPool`
   implements, and an abstract session that `AuthApi` implements in one process;
   each with its refinement proved.
3. `TaskApi` and `AuthApi` composed over one table of users, so that
   `RejectToken` and `AccountDeleted` are the steps of `AuthApi`.
4. `Rollout` with two environments, staging before production, and the promotion
   of one image from the first to the second.
