------------------------------- MODULE TaskApi -------------------------------
(***************************************************************************)
(* The project, task and comment endpoints of one API process over its     *)
(* PostgreSQL database (routers/projects.py, routers/tasks.py,             *)
(* services/task_service.py, repositories/*.py).                           *)
(*                                                                         *)
(* A handler runs without interruption between two awaits, and every await *)
(* of a handler is one SQL statement or one commit of its own session, so  *)
(* an action is: the statement, and the code that runs up to the next one. *)
(* Isolation is READ COMMITTED and there is no version column: a SELECT    *)
(* sees what is committed, and a commit writes the columns the handler     *)
(* changed, whatever the row holds by then.                                *)
(*                                                                         *)
(* Several requests are in progress at once; any statement may fail, a     *)
(* commit may take effect although its reply is lost, and the process may  *)
(* be restarted at any moment.                                             *)
(***************************************************************************)
EXTENDS TaskRules, Naturals, FiniteSets

CONSTANTS
  Client,    \* callers, each with at most one request outstanding
  User,      \* registered accounts
  Project,   \* ids the projects table can hand out
  Task,      \* ids the tasks table can hand out
  Comment,   \* ids the comments table can hand out
  Ops,       \* the operations clients may call
  Overlap,   \* may writes to one task be in progress at the same time?
  Faults,    \* may statements fail and replies of commits be lost?
  None       \* an absent value

Operation == {"create_project", "list_projects", "get_project",
              "delete_project", "create_task", "list_tasks", "get_task",
              "update_task", "delete_task", "create_comment",
              "list_comments"}

ASSUME OpsAssumption == Ops \subseteq Operation
ASSUME FlagsAssumption == Overlap \in BOOLEAN /\ Faults \in BOOLEAN
ASSUME NoneAssumption ==
  None \notin User \cup Project \cup Task \cup Comment \cup TaskStatus

ASSUME FiniteAssumption == IsFiniteSet(Project) /\ IsFiniteSet(Task)

VARIABLES
  users,      \* users[u]: "active" or "deleted" (users.deleted_at)
  projects,   \* projects[p]: state and owner of the row
  tasks,      \* tasks[t]: state, project and status of the row
  comments,   \* comments[k]: state, task and author of the row
  req,        \* req[c]: the request of c and how far its handler is
  counters,   \* the creation counters of the process (Prometheus)
  held        \* history: held[t] is every status task t has ever had

dbVars == <<users, projects, tasks, comments>>
vars == <<users, projects, tasks, comments, req, counters, held>>

ProjectOps == Operation \ {"create_project", "list_projects"}
TaskOps == {"get_task", "update_task", "delete_task", "create_comment",
            "list_comments"}
Writes == {"update_task", "delete_task", "create_comment"}

Stage == {"idle", "user", "project", "task", "list", "write", "refresh",
          "answered"}
Code == {0, 200, 201, 204, 401, 404, 422, 500}    \* 0: not answered yet
RowState == {"free", "active", "deleted"}
Id == Project \cup Task \cup Comment

\* The rows of the tables, as far as handlers look at them.
ProjectRow == [state : RowState, owner : User \cup {None}]
TaskRow == [state : RowState, project : Project \cup {None},
            status : TaskStatus \cup {None}]
CommentRow == [state : RowState, task : Task \cup {None},
               author : User \cup {None}]

\* What a client sends: the caller its token names, the ids in the path, and
\* the part of the payload that matters.  status is the new status of a PATCH
\* (the filter of a list is chosen in ListRows, and whether assignee_id is the
\* id of a row of users, which matters at the commit alone, by the actions
\* that commit).
Call ==
  {q \in [op : Ops, user : User, project : Project \cup {None},
          task : Task \cup {None}, status : TaskStatus \cup {None}] :
     /\ (q.project # None) <=> (q.op \in ProjectOps)
     /\ (q.task # None) <=> (q.op \in TaskOps)
     /\ q.status # None => q.op = "update_task"}

Request ==
  [op : Operation \cup {"none"}, user : User \cup {None},
   project : Project \cup {None}, task : Task \cup {None},
   status : TaskStatus \cup {None},
   stage : Stage,
   snap : TaskStatus \cup {None},   \* status of the task as it was loaded
   row : Id \cup {None},            \* the row it wrote
   seen : SUBSET Id,                \* the rows it returns
   late : BOOLEAN,    \* history: what it names was deleted when it arrived
   wrote : BOOLEAN,   \* history: its commit took effect
   code : Code]

Idle ==
  [op |-> "none", user |-> None, project |-> None, task |-> None,
   status |-> None, stage |-> "idle", snap |-> None,
   row |-> None, seen |-> {}, late |-> FALSE, wrote |-> FALSE, code |-> 0]

Counters == [tasks : Nat, projects : Nat]
NoCounts == [tasks |-> 0, projects |-> 0]

Init ==
  /\ users = [u \in User |-> "active"]
  /\ projects = [p \in Project |-> [state |-> "free", owner |-> None]]
  /\ tasks = [t \in Task |->
                [state |-> "free", project |-> None, status |-> None]]
  /\ comments = [k \in Comment |->
                   [state |-> "free", task |-> None, author |-> None]]
  /\ req = [c \in Client |-> Idle]
  /\ counters = NoCounts
  /\ held = [t \in Task |-> {}]

------------------------------------------------------------------------------
(* Steps every handler is made of.                                         *)

At(q, stage) == [q EXCEPT !.stage = stage]
Goto(c, stage) == req' = [req EXCEPT ![c] = At(@, stage)]

Answered(q, code, seen) ==
  [q EXCEPT !.stage = "answered", !.code = code, !.seen = seen]
Answer(c, code, seen) == req' = [req EXCEPT ![c] = Answered(@, code, seen)]

\* commit() of the write of c on row.  It takes effect; the handler learns of
\* it and goes on to next (answering code when that is the end), or the reply
\* is lost and the handler fails.
Written(q, row, stage, code) ==
  [q EXCEPT !.wrote = TRUE, !.row = row, !.stage = stage, !.code = code]
Commit(c, row, next, code) ==
  \/ req' = [req EXCEPT ![c] = Written(@, row, next, code)]
  \/ Faults /\ req' = [req EXCEPT ![c] = Written(@, row, "answered", 500)]

Late(q) ==
  \/ users[q.user] = "deleted"
  \/ q.project # None /\ projects[q.project].state = "deleted"
  \/ q.task # None /\ tasks[q.task].state = "deleted"

\* Two writes to one task.
Clash(q, r) ==
  /\ q.op \in Writes /\ r.op \in Writes
  /\ q.task = r.task
  /\ r.stage \notin {"idle", "answered"}

Arrived(q) ==
  [op |-> q.op, user |-> q.user, project |-> q.project, task |-> q.task,
   status |-> q.status, stage |-> "user", snap |-> None,
   row |-> None, seen |-> {}, late |-> Late(q), wrote |-> FALSE, code |-> 0]

Arrive(c) ==
  /\ req[c].stage = "idle"
  /\ \E q \in Call :
       /\ Overlap \/ \A d \in Client : ~Clash(q, req[d])
       /\ req' = [req EXCEPT ![c] = Arrived(q)]
  /\ UNCHANGED <<dbVars, counters, held>>

\* current_user refuses the token before it reads the user: it has expired,
\* its signature is wrong or it was revoked (module AuthApi says when).
RejectToken(c) ==
  /\ req[c].stage = "user"
  /\ Answer(c, 401, {})
  /\ UNCHANGED <<dbVars, counters, held>>

\* Where a handler goes once the caller is known.
FirstStage(op) ==
  CASE op = "create_project" -> "write"
    [] op = "list_projects"  -> "list"
    [] OTHER                 -> "project"

ReadUser(c) ==
  /\ req[c].stage = "user"
  /\ IF users[req[c].user] = "active"
       THEN Goto(c, FirstStage(req[c].op))
       ELSE Answer(c, 401, {})
  /\ UNCHANGED <<dbVars, counters, held>>

\* get_by_id of a project.
Present(p) == projects[p].state = "active"

\* Mutants: the owner, or the deletion mark, is not looked at.
AnyOwner(u, p) == Present(p)
DeletedToo(u, p) == projects[p].owner = u

Owns(u, p) == Present(p) /\ projects[p].owner = u

ReadProject(c) ==
  /\ req[c].stage = "project"
  /\ LET q == req[c] IN
       \/ /\ ~Owns(q.user, q.project)
          /\ Answer(c, 404, {})
       \/ /\ Owns(q.user, q.project)
          /\ \/ q.op = "get_project" /\ Answer(c, 200, {q.project})
             \/ q.op = "list_tasks" /\ Goto(c, "list")
             \/ q.op \in {"create_task", "delete_project"} /\ Goto(c, "write")
             \/ q.op \in TaskOps /\ Goto(c, "task")
  /\ UNCHANGED <<dbVars, counters, held>>

\* Mutant: the task may belong to another project than the path says.
AnyProject(t, p) == tasks[t].state = "active"

TaskIn(t, p) == tasks[t].state = "active" /\ tasks[t].project = p

Checked(q, old) == [q EXCEPT !.stage = "write", !.snap = old]

\* Mutant: only leaving a terminal status is refused.
ApplyUnlessTerminal(c, old, new) ==
  IF old \notin Terminal
    THEN req' = [req EXCEPT ![c] = Checked(@, old)]
    ELSE Answer(c, 422, {})

\* apply_task_update of a PATCH that carries a status, on the task as loaded.
\* (It also counts the transition; that counter is left out of the model.)
ApplyStatus(c, old, new) ==
  IF TransitionAllowed(old, new)
    THEN req' = [req EXCEPT ![c] = Checked(@, old)]
    ELSE Answer(c, 422, {})

ReadTask(c) ==
  /\ req[c].stage = "task"
  /\ LET q == req[c] IN
       \/ /\ ~TaskIn(q.task, q.project)
          /\ Answer(c, 404, {})
       \/ /\ TaskIn(q.task, q.project)
          /\ \/ /\ q.op = "update_task" /\ q.status # None
                /\ ApplyStatus(c, tasks[q.task].status, q.status)
             \/ /\ \/ q.op = "update_task" /\ q.status = None
                   \/ q.op \in {"delete_task", "create_comment"}
                /\ Goto(c, "write")
             \/ q.op = "list_comments" /\ Goto(c, "list")
             \/ q.op = "get_task" /\ Answer(c, 200, {q.task})
  /\ UNCHANGED <<dbVars, counters, held>>

------------------------------------------------------------------------------
(* The repositories: the statement a handler ends with.                    *)

\* get_all_for_user, get_filtered (without a filter when status is None) and
\* get_all_for_task.
ProjectsOf(u) == {p \in Project : Owns(u, p)}

TasksOf(p, status) ==
  {t \in Task : TaskIn(t, p) /\ status \in {None, tasks[t].status}}

CommentsOf(t) ==
  {k \in Comment : comments[k].state = "active" /\ comments[k].task = t}

ListRows(c) ==
  /\ req[c].stage = "list"
  /\ LET q == req[c] IN
       \/ q.op = "list_projects" /\ Answer(c, 200, ProjectsOf(q.user))
       \/ /\ q.op = "list_tasks"
          /\ \E status \in TaskStatus \cup {None} :
               Answer(c, 200, TasksOf(q.project, status))
       \/ q.op = "list_comments" /\ Answer(c, 200, CommentsOf(q.task))
  /\ UNCHANGED <<dbVars, counters, held>>

Writing(c, op) == req[c].stage = "write" /\ req[c].op = op

InsertProject(c) ==
  /\ Writing(c, "create_project")
  /\ \E p \in Project :
       /\ projects[p].state = "free"
       /\ projects' = [projects EXCEPT ![p] =
                         [state |-> "active", owner |-> req[c].user]]
       /\ Commit(c, p, "refresh", 0)
  /\ UNCHANGED <<users, tasks, comments, counters, held>>

SoftDeleteProject(c) ==
  /\ Writing(c, "delete_project")
  /\ projects' = [projects EXCEPT ![req[c].project].state = "deleted"]
  /\ Commit(c, req[c].project, "answered", 204)
  /\ UNCHANGED <<users, tasks, comments, counters, held>>

InsertTask(c) ==
  /\ Writing(c, "create_task")
  /\ \E t \in Task :
       /\ tasks[t].state = "free"
       /\ tasks' = [tasks EXCEPT ![t] =
                      [state |-> "active", project |-> req[c].project,
                       status |-> "TODO"]]
       /\ held' = [held EXCEPT ![t] = {"TODO"}]
       /\ Commit(c, t, "refresh", 0)
  /\ UNCHANGED <<users, projects, comments, counters>>

\* Mutant: fields absent from the payload are assigned too.
AbsentToo(q, current) == q.status

\* The session writes status only when the handler changed it from the value
\* it had loaded.
NewStatus(q, current) ==
  IF q.status \in {None, q.snap} THEN current ELSE q.status

\* Mutant: the row is written back whole, as it was loaded.
SaveWholeRow(c) ==
  /\ Writing(c, "update_task")
  /\ LET t == req[c].task
         s == NewStatus(req[c], tasks[t].status)
     IN  /\ tasks' = [tasks EXCEPT ![t].status = s, ![t].state = "active"]
         /\ held' = [held EXCEPT ![t] = @ \cup {s}]
         /\ Commit(c, t, "refresh", 0)
  /\ UNCHANGED <<users, projects, comments, counters>>

SaveTask(c) ==
  /\ Writing(c, "update_task")
  /\ LET t == req[c].task
         s == NewStatus(req[c], tasks[t].status)
     IN  /\ tasks' = [tasks EXCEPT ![t].status = s]
         /\ held' = [held EXCEPT ![t] = @ \cup {s}]
         /\ Commit(c, t, "refresh", 0)
  /\ UNCHANGED <<users, projects, comments, counters>>

\* Mutant: the repository forgets to commit.
DeleteUncommitted(c) ==
  /\ Writing(c, "delete_task")
  /\ Answer(c, 204, {})
  /\ UNCHANGED <<dbVars, counters, held>>

SoftDeleteTask(c) ==
  /\ Writing(c, "delete_task")
  /\ tasks' = [tasks EXCEPT ![req[c].task].state = "deleted"]
  /\ Commit(c, req[c].task, "answered", 204)
  /\ UNCHANGED <<users, projects, comments, counters, held>>

InsertComment(c) ==
  /\ Writing(c, "create_comment")
  /\ \E k \in Comment :
       /\ comments[k].state = "free"
       /\ comments' = [comments EXCEPT ![k] =
                         [state |-> "active", task |-> req[c].task,
                          author |-> req[c].user]]
       /\ Commit(c, k, "refresh", 0)
  /\ UNCHANGED <<users, projects, tasks, counters, held>>

\* refresh() re-reads the row by its key alone; the handler then counts what
\* it created and returns.
Refresh(c) ==
  /\ req[c].stage = "refresh"
  /\ Answer(c, IF req[c].op = "update_task" THEN 200 ELSE 201, {req[c].row})
  /\ counters' =
       CASE req[c].op = "create_task"    -> [counters EXCEPT !.tasks = @ + 1]
         [] req[c].op = "create_project" -> [counters EXCEPT !.projects = @ + 1]
         [] OTHER                        -> counters
  /\ UNCHANGED <<dbVars, held>>

\* assignee_id is not the id of a user: the commit violates the foreign key, is
\* rolled back, and the exception reaches the catch-all handler.
ViolateForeignKey(c) ==
  /\ Writing(c, "create_task") \/ Writing(c, "update_task")
  /\ Answer(c, 500, {})
  /\ UNCHANGED <<dbVars, counters, held>>

\* Mutant: creation is counted in a finally clause.
CountedAnyway(c) ==
  /\ req[c].stage \notin {"idle", "answered"}
  /\ Answer(c, 500, {})
  /\ counters' = IF req[c].op = "create_task"
                   THEN [counters EXCEPT !.tasks = @ + 1] ELSE counters
  /\ UNCHANGED <<dbVars, held>>

\* A statement fails without effect: no connection to be had within the pool's
\* timeout, or the connection broke.
DbError(c) ==
  /\ Faults
  /\ req[c].stage \notin {"idle", "answered"}
  /\ Answer(c, 500, {})
  /\ UNCHANGED <<dbVars, counters, held>>

------------------------------------------------------------------------------
(* The rest of the system.                                                 *)

\* The answer reaches the client, which may call again.
Return(c) ==
  /\ req[c].stage = "answered"
  /\ req' = [req EXCEPT ![c] = Idle]
  /\ UNCHANGED <<dbVars, counters, held>>

\* DELETE /auth/users/me of another caller commits (module AuthApi).
AccountDeleted(u) ==
  /\ users[u] = "active"
  /\ users' = [users EXCEPT ![u] = "deleted"]
  /\ UNCHANGED <<projects, tasks, comments, req, counters, held>>

\* The process stops and starts again: the handlers in progress are gone and
\* their open transactions roll back, the database stays.
Restart ==
  /\ req' = [c \in Client |->
               IF req[c].stage = "answered" THEN req[c] ELSE Idle]
  /\ counters' = NoCounts
  /\ UNCHANGED <<dbVars, held>>

Serve(c) ==
  \/ RejectToken(c) \/ ReadUser(c) \/ ReadProject(c) \/ ReadTask(c)
  \/ ListRows(c)
  \/ InsertProject(c) \/ SoftDeleteProject(c)
  \/ InsertTask(c) \/ SaveTask(c) \/ SoftDeleteTask(c)
  \/ InsertComment(c)
  \/ Refresh(c)
  \/ ViolateForeignKey(c) \/ DbError(c)

Next ==
  \/ \E c \in Client : Arrive(c) \/ Serve(c) \/ Return(c)
  \/ \E u \in User : AccountDeleted(u)
  \/ Restart

Spec == Init /\ [][Next]_vars

------------------------------------------------------------------------------
(* Properties.                                                             *)

TypeOK ==
  /\ users \in [User -> {"active", "deleted"}]
  /\ projects \in [Project -> ProjectRow]
  /\ tasks \in [Task -> TaskRow]
  /\ comments \in [Comment -> CommentRow]
  /\ \A t \in Task : tasks[t].state # "free" => tasks[t].status \in TaskStatus
  /\ req \in [Client -> Request]
  /\ counters \in Counters
  /\ held \in [Task -> SUBSET TaskStatus]

\* However many PATCHes race on stale copies of a task, no status is skipped:
\* a task that is or ever was DONE has been IN_REVIEW, IN_PROGRESS and TODO
\* before (validate_status_transition works on a status the task really had).
NoSkippedReview ==
  \A t \in Task :
    /\ "DONE" \in held[t] => "IN_REVIEW" \in held[t]
    /\ "IN_REVIEW" \in held[t] => "IN_PROGRESS" \in held[t]
    /\ held[t] # {} => "TODO" \in held[t]

\* What the write of request q leaves in the database.
Done(q) ==
  /\ q.op = "create_project" => /\ projects[q.row].state # "free"
                                /\ projects[q.row].owner = q.user
  /\ q.op = "create_task" => /\ tasks[q.row].state # "free"
                             /\ tasks[q.row].project = q.project
  /\ q.op = "create_comment" => comments[q.row] =
                                  [state |-> "active", task |-> q.task,
                                   author |-> q.user]
  /\ q.op = "update_task" => q.status \in held[q.task] \cup {None}
  /\ q.op = "delete_task" => tasks[q.task].state = "deleted"
  /\ q.op = "delete_project" => projects[q.project].state = "deleted"

\* A 2xx answer is given only for a write that is in the database, and stays
\* there whatever other requests, lost replies and restarts follow: the row
\* created, the status set (at some time) or the row deleted.
AckedWritesLast ==
  \A c \in Client : req[c].code \in {200, 201, 204} => Done(req[c])

\* What is deleted stays deleted: no handler that loaded a row before its
\* deletion brings it back when it commits or refreshes its copy.
TombstonesFinal ==
  [][/\ \A p \in Project : projects[p].state = "deleted" =>
                            projects'[p].state = "deleted"
     /\ \A t \in Task : tasks[t].state = "deleted" =>
                         tasks'[t].state = "deleted"]_vars

\* A request that names a project or a task already deleted when it arrived,
\* or comes from an account already deleted, neither succeeds nor writes.
DeletedIsGone ==
  \A c \in Client :
    req[c].late => ~req[c].wrote /\ req[c].code \notin {200, 201, 204}

\* The rows under project p: what a request of another user must not change.
Tree(p, prj, tsk, cmt) ==
  [self |-> prj[p],
   tasks |-> [t \in {x \in Task : tsk[x].project = p} |-> tsk[t]],
   comments |-> [k \in {x \in Comment : /\ cmt[x].task # None
                                       /\ tsk[cmt[x].task].project = p} |->
                   cmt[k]]]

\* Only a request of its owner changes a project or anything under it, and it
\* changes nothing under another project, whatever ids its path mixes.
OwnerOnly ==
  [][\A p \in Project :
       Tree(p, projects, tasks, comments)
          # Tree(p, projects', tasks', comments') =>
         \E c \in Client : /\ req'[c] # req[c]
                           /\ req[c].user = projects'[p].owner
                           /\ req[c].project \in {p, None}]_dbVars

OwnedBy(u) ==
  LET ps == {p \in Project : projects[p].owner = u}
      ts == {t \in Task : tasks[t].project \in ps}
  IN  ps \cup ts \cup {k \in Comment : comments[k].task \in ts}

\* An answer contains rows of the caller's own projects only, even when the
\* row was read again (refresh) after the checks were made.
OwnDataOnly ==
  \A c \in Client : req[c].seen \subseteq OwnedBy(req[c].user)

\* "Total number of tasks (projects) successfully created" never exceeds the
\* rows there are: creation is counted after the commit, once per row.
NeverOvercounts ==
  /\ counters.tasks <= Cardinality({t \in Task : tasks[t].state # "free"})
  /\ counters.projects <=
       Cardinality({p \in Project : projects[p].state # "free"})

\* When writes to one task do not overlap, the API implements the life of a
\* task: legal transitions only, nothing happens to a deleted task.
Life == INSTANCE TaskLifecycle WITH
  status <- [t \in Task |-> IF tasks[t].state = "free" THEN "none"
                                                       ELSE tasks[t].status],
  erased <- {t \in Task : tasks[t].state = "deleted"}

ImplementsLifecycle == Life!LifeSpec

\* The PATCH of c sets the status of a task that was deleted, or moved on, since
\* its handler loaded it.
StaleWrite(c) ==
  LET q == req[c] IN
    /\ Writing(c, "update_task")
    /\ tasks[q.task].state = "deleted" \/ tasks[q.task].status # q.snap
    /\ tasks' = [tasks EXCEPT ![q.task].status = q.status]

\* However requests overlap, a task leaves its life cycle in one way only: a
\* PATCH writes the status it had checked against a row that has changed since,
\* and it writes nothing else (tasks.py:105-107; no lock, no version column).
OnlyStaleWritesDepart ==
  [][Life!LifeNext \/ \E c \in Client : StaleWrite(c)]_(Life!lifeVars)

------------------------------------------------------------------------------
(* What the repository says of the program, and the program does not do.   *)

\* services/task_service.py:14: "Terminal states (DONE, CANCELLED) cannot be
\* left."  Two PATCHes that both loaded the task before either committed
\* break it.
TerminalIsFinal ==
  [][\A t \in Task : tasks[t].status \in Terminal =>
                     tasks'[t].status = tasks[t].status]_vars
==============================================================================
