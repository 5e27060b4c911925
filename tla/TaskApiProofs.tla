---------------------------- MODULE TaskApiProofs ----------------------------
(***************************************************************************)
(* Proofs about TaskApi, for every set of clients, accounts and row ids.   *)
(***************************************************************************)
EXTENDS TaskApi, FiniteSetTheorems, TLAPS

USE DEF ProjectRow, TaskRow, CommentRow

Creating == {"create_project", "create_task", "create_comment"}
Listing == {"list_projects", "list_tasks", "list_comments"}
Mutating == Creating \cup {"delete_project", "update_task", "delete_task"}

\* The fields of a request fit the operation and the stage it is in.
Shape(q) ==
  /\ q.stage # "idle" => q.op \in Operation /\ q.user \in User
  /\ q.op \in ProjectOps => q.project \in Project
  /\ q.op \in TaskOps => q.task \in Task
  /\ q.stage = "task" => q.op \in TaskOps
  /\ q.stage = "list" => q.op \in Listing
  /\ q.stage = "write" => q.op \in Mutating
  /\ q.stage = "refresh" => /\ q.op \in Creating \cup {"update_task"}
                            /\ q.row \in Id
  /\ q.code # 0 => q.stage = "answered"

\* Between the commit and the answer, and in a 2xx answer, the write is there.
Committed(q) ==
  q.stage = "refresh" \/ q.code \in {200, 201, 204} =>
    /\ Done(q)
    /\ q.op = "create_project" => q.row \in Project
    /\ q.op = "create_task" => q.row \in Task
    /\ q.op = "create_comment" => q.row \in Comment

\* A PATCH or a DELETE about to commit loaded a row, and the PATCH computed the
\* status it sets from one the task has had.
FromHeld(q) ==
  /\ q.stage = "write" /\ q.op \in {"update_task", "delete_task"} =>
       tasks[q.task].state # "free"
  /\ q.stage = "write" /\ q.op = "update_task" /\ q.status # None =>
       /\ q.snap \in held[q.task]
       /\ TransitionAllowed(q.snap, q.status)

\* The history of a task holds the status it has now.
HeldOK ==
  \A t \in Task : IF tasks[t].state = "free" THEN held[t] = {}
                                             ELSE tasks[t].status \in held[t]

RequestOK(q) == Shape(q) /\ Committed(q) /\ FromHeld(q)

\* The part of the invariant that no request occurs in.
StoreOK ==
  /\ users \in [User -> {"active", "deleted"}]
  /\ projects \in [Project -> ProjectRow]
  /\ tasks \in [Task -> TaskRow]
  /\ comments \in [Comment -> CommentRow]
  /\ counters \in Counters
  /\ held \in [Task -> SUBSET TaskStatus]
  /\ HeldOK
  /\ NoSkippedReview

\* The inductive invariant.
IndInv ==
  /\ req \in [Client -> Request]
  /\ \A c \in Client : RequestOK(req[c])
  /\ StoreOK

\* The request of c becomes r, the others stand.
MovesTo(c, r) == req' = [req EXCEPT ![c] = r]

\* What no step of the system undoes in the database.
Grows ==
  /\ \A p \in Project :
       /\ projects[p].state # "free" => /\ projects'[p].state # "free"
                                       /\ projects'[p].owner = projects[p].owner
       /\ projects[p].state = "deleted" => projects'[p].state = "deleted"
  /\ \A t \in Task :
       /\ tasks[t].state # "free" => /\ tasks'[t].state # "free"
                                    /\ tasks'[t].project = tasks[t].project
       /\ tasks[t].state = "deleted" => tasks'[t].state = "deleted"
       /\ held[t] \subseteq held'[t]
  /\ \A k \in Comment :
       comments[k].state = "active" => comments'[k] = comments[k]

------------------------------------------------------------------------------

\* A request that does not move keeps its invariant while the database grows.
LEMMA StableRequest ==
  ASSUME NEW q \in Request, RequestOK(q), Grows
  PROVE  RequestOK(q)'
<1> USE DEF RequestOK
<1>1. Shape(q)'
  BY DEF Shape
<1>2. Committed(q)'
  BY DEF Committed, Done, Grows, Shape, Operation, ProjectOps, TaskOps, Request
<1>3. FromHeld(q)'
  BY DEF FromHeld, Grows, Shape, Operation, ProjectOps, TaskOps, Request
<1> QED
  BY <1>1, <1>2, <1>3

\* One request moves to r while the store grows.
LEMMA RequestMoves ==
  ASSUME IndInv, Grows, StoreOK',
         NEW c \in Client, NEW r \in Request,
         MovesTo(c, r), RequestOK(r)'
  PROVE  IndInv'
<1>1. req' \in [Client -> Request]
  BY DEF IndInv, MovesTo
<1>2. ASSUME NEW d \in Client PROVE RequestOK(req[d])'
  <2>1. PICK q \in Request : q = req'[d]
    BY <1>1
  <2>2. RequestOK(q)'
    <3>1. CASE d = c
      BY <2>1, <3>1 DEF IndInv, MovesTo
    <3>2. CASE d # c
      <4>1. q = req[d] /\ RequestOK(q)
        BY <2>1, <3>2 DEF IndInv, MovesTo
      <4> QED
        BY <4>1, StableRequest
    <3> QED
      BY <3>1, <3>2
  <2> QED
    BY <2>1, <2>2 DEF RequestOK, Shape, Committed, Done, FromHeld
<1> QED
  BY <1>1, <1>2 DEF IndInv

\* A step that writes no row and counts no creation.
LEMMA LocalStep ==
  ASSUME IndInv, NEW c \in Client, NEW r \in Request,
         MovesTo(c, r), RequestOK(r),
         UNCHANGED <<dbVars, held>>,
         counters' \in Counters
  PROVE  IndInv'
<1>1. Grows /\ StoreOK'
  BY DEF Grows, IndInv, StoreOK, HeldOK, NoSkippedReview, dbVars
<1>2. RequestOK(r)'
  BY DEF RequestOK, Shape, Committed, Done, FromHeld, dbVars
<1> QED
  BY <1>1, <1>2, RequestMoves

LEMMA AnswerTyped ==
  ASSUME NEW q \in Request, NEW code \in Code, NEW seen \in SUBSET Id
  PROVE  Answered(q, code, seen) \in Request
<1>1. "answered" \in Stage
  BY DEF Stage
<1> QED
  BY <1>1 DEF Request, Answered

LEMMA AtTyped ==
  ASSUME NEW q \in Request, NEW stage \in Stage
  PROVE  At(q, stage) \in Request
BY DEF Request, At

LEMMA CheckedTyped ==
  ASSUME NEW q \in Request, NEW old \in TaskStatus
  PROVE  Checked(q, old) \in Request
<1>1. "write" \in Stage
  BY DEF Stage
<1> QED
  BY <1>1 DEF Request, Checked

LEMMA WrittenTyped ==
  ASSUME NEW q \in Request, NEW row \in Id,
         NEW stage \in Stage, NEW code \in Code
  PROVE  Written(q, row, stage, code) \in Request
BY DEF Request, Written

LEMMA ArrivedTyped ==
  ASSUME NEW q \in Call
  PROVE  Arrived(q) \in Request
<1>1. Late(q) \in BOOLEAN
  BY DEF Late
<1>2. "user" \in Stage /\ 0 \in Code
  BY DEF Stage, Code
<1>3. q.op \in Operation
  BY OpsAssumption DEF Call
<1> QED
  BY <1>1, <1>2, <1>3 DEF Arrived, Request, Call

LEMMA IdleTyped == Idle \in Request /\ RequestOK(Idle)
<1>1. "idle" \in Stage /\ 0 \in Code
  BY DEF Stage, Code
<1>2. Idle \in Request
  BY <1>1 DEF Idle, Request
<1>3. RequestOK(Idle)
  BY DEF Idle, RequestOK, Shape, Committed, FromHeld, Operation, ProjectOps,
         TaskOps
<1> QED
  BY <1>2, <1>3

\* Answers that acknowledge no write.
LEMMA AnswerStep ==
  ASSUME IndInv, NEW c \in Client, NEW code \in {200, 401, 404, 422, 500},
         NEW seen \in SUBSET Id,
         req[c].stage \notin {"idle", "answered"},
         code = 200 => req[c].op \notin Mutating,
         Answer(c, code, seen), UNCHANGED <<dbVars, counters, held>>
  PROVE  IndInv'
<1>1. req[c] \in Request /\ RequestOK(req[c])
  BY DEF IndInv
<1>2. PICK r : r = Answered(req[c], code, seen)
  OBVIOUS
<1>3. r \in Request
  <2>1. code \in Code
    BY DEF Code
  <2> QED
    BY <1>1, <1>2, <2>1, AnswerTyped
<1>4. MovesTo(c, r)
  BY <1>2 DEF Answer, IndInv, MovesTo
<1>5. RequestOK(r)
  BY <1>1, <1>2, <1>3 DEF RequestOK, Shape, Committed, Done, FromHeld,
       Answered, Mutating, Creating, Request, Operation, ProjectOps, TaskOps
<1>6. counters' \in Counters
  BY DEF IndInv, StoreOK
<1>7. UNCHANGED <<dbVars, held>>
  OBVIOUS
<1> QED
  BY <1>3, <1>4, <1>5, <1>6, <1>7, LocalStep

\* Moving on without writing.
LEMMA GotoStep ==
  ASSUME IndInv, NEW c \in Client, NEW stage \in Stage,
         req[c].stage \notin {"idle", "answered", "refresh"},
         stage \notin {"idle", "refresh", "answered"},
         stage = "task" => req[c].op \in TaskOps,
         stage = "list" => req[c].op \in Listing,
         stage = "write" => /\ req[c].op \in Mutating
                            /\ req[c].op \in {"update_task", "delete_task"} =>
                                 tasks[req[c].task].state # "free"
                            /\ req[c].op = "update_task" =>
                                 req[c].status = None,
         Goto(c, stage), UNCHANGED <<dbVars, counters, held>>
  PROVE  IndInv'
<1>1. req[c] \in Request /\ RequestOK(req[c])
  BY DEF IndInv
<1>2. PICK r : r = At(req[c], stage)
  OBVIOUS
<1>3. r \in Request
  BY <1>1, <1>2, AtTyped
<1>4. MovesTo(c, r)
  BY <1>2 DEF Goto, IndInv, MovesTo
<1>5. RequestOK(r)
  BY <1>1, <1>2, <1>3 DEF RequestOK, Shape, Committed, Done, FromHeld,
       At, Mutating, Creating, Request, Operation, ProjectOps, TaskOps
<1>6. counters' \in Counters
  BY DEF IndInv, StoreOK
<1>7. UNCHANGED <<dbVars, held>>
  OBVIOUS
<1> QED
  BY <1>3, <1>4, <1>5, <1>6, <1>7, LocalStep

\* A commit of c on row that keeps the store invariant.
LEMMA CommitStep ==
  ASSUME IndInv, Grows, StoreOK', NEW c \in Client,
         NEW row \in Id, NEW next \in {"refresh", "answered"},
         NEW code \in {0, 204},
         req[c].stage = "write",
         next = "refresh" => /\ req[c].op \in Creating \cup {"update_task"}
                             /\ code = 0,
         req[c].op = "create_project" => row \in Project,
         req[c].op = "create_task" => row \in Task,
         req[c].op = "create_comment" => row \in Comment,
         \A r : r = Written(req[c], row, next, code) => Done(r)',
         Commit(c, row, next, code)
  PROVE  IndInv'
<1>1. req[c] \in Request /\ RequestOK(req[c])
  BY DEF IndInv
<1>2. code \in Code /\ 500 \in Code /\ next \in Stage /\ "answered" \in Stage
  BY DEF Code, Stage
<1>3. CASE req' = [req EXCEPT ![c] = Written(@, row, next, code)]
  <2>1. PICK r : r = Written(req[c], row, next, code)
    OBVIOUS
  <2>2. r \in Request
    BY <1>1, <1>2, <2>1, WrittenTyped
  <2>3. MovesTo(c, r)
    BY <1>3, <2>1 DEF MovesTo, IndInv
  <2>4. RequestOK(r)'
    <3>1. Done(r)'
      BY <2>1
    <3> QED
      BY <1>1, <2>1, <2>2, <3>1 DEF RequestOK, Shape, Committed, FromHeld,
        Written, Mutating, Creating, Request, Operation, ProjectOps, TaskOps
  <2> QED
    BY <2>2, <2>3, <2>4, RequestMoves
<1>4. CASE req' = [req EXCEPT ![c] = Written(@, row, "answered", 500)]
  <2>1. PICK r : r = Written(req[c], row, "answered", 500)
    OBVIOUS
  <2>2. r \in Request
    BY <1>1, <1>2, <2>1, WrittenTyped
  <2>3. MovesTo(c, r)
    BY <1>4, <2>1 DEF MovesTo, IndInv
  <2>4. RequestOK(r)'
    BY <1>1, <2>1, <2>2 DEF RequestOK, Shape, Committed, FromHeld,
      Written, Mutating, Creating, Request, Operation, ProjectOps, TaskOps
  <2> QED
    BY <2>2, <2>3, <2>4, RequestMoves
<1> QED
  BY <1>3, <1>4 DEF Commit

LEMMA InitIndInv == Init => IndInv
<1> SUFFICES ASSUME Init PROVE IndInv
  OBVIOUS
<1>1. req \in [Client -> Request] /\ \A c \in Client : RequestOK(req[c])
  BY IdleTyped DEF Init
<1>2. counters \in Counters
  BY DEF Init, NoCounts, Counters
<1>3. StoreOK
  BY <1>2 DEF Init, StoreOK, HeldOK, NoSkippedReview, RowState
<1> QED
  BY <1>1, <1>3 DEF IndInv

\* The steps that change the request of one client and no row.
LEMMA ArriveStep ==
  ASSUME IndInv, NEW c \in Client, Arrive(c)
  PROVE  IndInv'
<1>1. PICK q \in Call : req' = [req EXCEPT ![c] = Arrived(q)]
  BY DEF Arrive
<1>2. PICK r : r = Arrived(q)
  OBVIOUS
<1>3. r \in Request
  BY <1>2, ArrivedTyped
<1>4. MovesTo(c, r)
  BY <1>1, <1>2 DEF MovesTo
<1>5. RequestOK(r)
  <2>1. q.op \in Operation
    BY OpsAssumption DEF Call
  <2> QED
    BY <1>2, <2>1 DEF Arrived, Call, RequestOK, Shape, Committed, FromHeld
<1>6. counters' \in Counters /\ UNCHANGED <<dbVars, held>>
  BY DEF Arrive, IndInv, StoreOK
<1> QED
  BY <1>3, <1>4, <1>5, <1>6, LocalStep

LEMMA ReadUserStep ==
  ASSUME IndInv, NEW c \in Client, ReadUser(c)
  PROVE  IndInv'
<1>1. req[c].stage = "user" /\ UNCHANGED <<dbVars, counters, held>>
  BY DEF ReadUser
<1>2. CASE Goto(c, FirstStage(req[c].op))
  <2>1. Shape(req[c]) /\ req[c] \in Request
    BY DEF IndInv, RequestOK
  <2>2. PICK s : s = FirstStage(req[c].op)
    OBVIOUS
  <2>3. \/ s = "write" /\ req[c].op = "create_project"
        \/ s = "list" /\ req[c].op \in Listing
        \/ s = "project"
    BY <2>2 DEF FirstStage, Listing
  <2>4. s \in Stage /\ s \notin {"idle", "refresh", "answered"} /\ s # "task"
    BY <2>3 DEF Stage
  <2>7. s = "list" => req[c].op \in Listing
    BY <2>3
  <2>5. s = "write" => /\ req[c].op \in Mutating
                       /\ req[c].op \notin {"update_task", "delete_task"}
    BY <2>3 DEF Mutating, Creating
  <2>6. Goto(c, s)
    BY <1>2, <2>2
  <2> QED
    BY <1>1, <2>4, <2>5, <2>6, <2>7, GotoStep
<1>3. CASE Answer(c, 401, {})
  BY <1>1, <1>3, AnswerStep
<1> QED
  BY <1>2, <1>3 DEF ReadUser

LEMMA ReadProjectStep ==
  ASSUME IndInv, NEW c \in Client, ReadProject(c)
  PROVE  IndInv'
<1> DEFINE q == req[c]
<1>1. q.stage = "project" /\ UNCHANGED <<dbVars, counters, held>>
  BY DEF ReadProject
<1>2. q \in Request /\ Shape(q)
  BY DEF IndInv, RequestOK
<1>3. CASE Answer(c, 404, {})
  BY <1>1, <1>3, AnswerStep
<1>4. CASE q.op = "get_project" /\ Answer(c, 200, {q.project})
  <2>1. {q.project} \in SUBSET Id
    BY <1>2, <1>4 DEF Shape, ProjectOps, Operation, Id
  <2>2. q.op \notin Mutating
    BY <1>4 DEF Mutating, Creating
  <2> QED
    BY <1>1, <1>4, <2>1, <2>2, AnswerStep
<1>5. CASE q.op = "list_tasks" /\ Goto(c, "list")
  <2>1. "list" \in Stage /\ q.op \in Listing
    BY <1>5 DEF Stage, Listing
  <2> QED
    BY <1>1, <1>5, <2>1, GotoStep
<1>6. CASE q.op \in {"create_task", "delete_project"} /\ Goto(c, "write")
  <2>1. "write" \in Stage /\ q.op \in Mutating
    BY <1>6 DEF Stage, Mutating, Creating
  <2> QED
    BY <1>1, <1>6, <2>1, GotoStep
<1>7. CASE q.op \in TaskOps /\ Goto(c, "task")
  <2>1. "task" \in Stage
    BY DEF Stage
  <2> QED
    BY <1>1, <1>7, <2>1, GotoStep
<1> QED
  BY <1>3, <1>4, <1>5, <1>6, <1>7 DEF ReadProject

\* A row with a history is in one of the five statuses.
LEMMA LiveTask ==
  ASSUME StoreOK, NEW t \in Task, tasks[t].state # "free"
  PROVE  tasks[t].status \in TaskStatus /\ tasks[t].status \in held[t]
BY DEF StoreOK, HeldOK

LEMMA ReadTaskStep ==
  ASSUME IndInv, NEW c \in Client, ReadTask(c)
  PROVE  IndInv'
<1> DEFINE q == req[c]
<1>1. q.stage = "task" /\ UNCHANGED <<dbVars, counters, held>>
  BY DEF ReadTask
<1>2. q \in Request /\ RequestOK(q) /\ q.op \in TaskOps /\ q.task \in Task
  BY <1>1 DEF IndInv, RequestOK, Shape
<1>3. counters' \in Counters
  BY <1>1 DEF IndInv, StoreOK
<1>4. CASE /\ TaskIn(q.task, q.project) /\ q.op = "update_task"
           /\ q.status # None
           /\ ApplyStatus(c, tasks[q.task].status, q.status)
  <2>1. tasks[q.task].status \in TaskStatus
        /\ tasks[q.task].status \in held[q.task]
    BY <1>2, <1>4, LiveTask DEF TaskIn, IndInv
  <2>2. CASE TransitionAllowed(tasks[q.task].status, q.status)
    <3>1. PICK old : old = tasks[q.task].status
      OBVIOUS
    <3>2. PICK r : r = Checked(q, old)
      OBVIOUS
    <3>3. r \in Request
      BY <1>2, <2>1, <3>1, <3>2, CheckedTyped
    <3>4. MovesTo(c, r)
      BY <1>4, <2>2, <3>1, <3>2 DEF ApplyStatus, MovesTo, IndInv
    <3>5. RequestOK(r)
      <4>1. Shape(r) /\ Committed(r)
        BY <1>1, <1>2, <1>4, <3>2 DEF Checked, RequestOK, Shape, Committed,
          Done, Mutating, Request
      <4>2. FromHeld(r)
        BY <1>2, <1>4, <2>1, <2>2, <3>1, <3>2 DEF Checked, FromHeld, TaskIn,
          Request
      <4> QED
        BY <4>1, <4>2 DEF RequestOK
    <3> QED
      BY <1>1, <1>3, <3>3, <3>4, <3>5, LocalStep
  <2>3. CASE ~TransitionAllowed(tasks[q.task].status, q.status)
    <3>1. Answer(c, 422, {})
      BY <1>4, <2>3 DEF ApplyStatus
    <3> QED
      BY <1>1, <3>1, AnswerStep
  <2> QED
    BY <2>2, <2>3
<1>5. CASE Answer(c, 404, {})
  BY <1>1, <1>5, AnswerStep
<1>6. CASE /\ TaskIn(q.task, q.project)
           /\ \/ q.op = "update_task" /\ q.status = None
              \/ q.op \in {"delete_task", "create_comment"}
           /\ Goto(c, "write")
  <2>1. "write" \in Stage /\ q.op \in Mutating
    BY <1>6 DEF Stage, Mutating, Creating
  <2>2. tasks[q.task].state # "free"
    BY <1>6 DEF TaskIn
  <2> QED
    BY <1>1, <1>6, <2>1, <2>2, GotoStep
<1>7. CASE /\ q.op = "list_comments"
           /\ Goto(c, "list")
  <2>1. "list" \in Stage /\ q.op \in Listing
    BY <1>7 DEF Stage, Listing
  <2> QED
    BY <1>1, <1>7, <2>1, GotoStep
<1>8. CASE /\ q.op = "get_task"
           /\ Answer(c, 200, {q.task})
  <2>1. {q.task} \in SUBSET Id
    BY <1>2 DEF Id
  <2>2. q.op \notin Mutating
    BY <1>8 DEF Mutating, Creating
  <2> QED
    BY <1>1, <1>8, <2>1, <2>2, AnswerStep
<1> QED
  BY <1>4, <1>5, <1>6, <1>7, <1>8 DEF ReadTask

LEMMA ListRowsStep ==
  ASSUME IndInv, NEW c \in Client, ListRows(c)
  PROVE  IndInv'
<1>0. req[c].op \in Listing
  BY DEF ListRows, IndInv, RequestOK, Shape
<1>1. /\ \A u : ProjectsOf(u) \in SUBSET Id
      /\ \A p, status : TasksOf(p, status) \in SUBSET Id
      /\ \A t : CommentsOf(t) \in SUBSET Id
  BY DEF ProjectsOf, TasksOf, CommentsOf, Id
<1>2. PICK seen \in SUBSET Id : Answer(c, 200, seen)
  BY <1>1 DEF ListRows
<1>3. req[c].stage = "list" /\ UNCHANGED <<dbVars, counters, held>>
  BY DEF ListRows
<1>4. req[c].op \notin Mutating
  BY <1>0 DEF Listing, Mutating, Creating
<1> QED
  BY <1>2, <1>3, <1>4, AnswerStep

LEMMA FailStep ==
  ASSUME IndInv, NEW c \in Client,
         RejectToken(c) \/ ViolateForeignKey(c) \/ DbError(c)
  PROVE  IndInv'
<1>1. req[c].stage \notin {"idle", "answered"}
      /\ UNCHANGED <<dbVars, counters, held>>
  BY DEF RejectToken, ViolateForeignKey, DbError, Writing
<1>2. PICK code \in {401, 500} : Answer(c, code, {})
  BY DEF RejectToken, ViolateForeignKey, DbError
<1> QED
  BY <1>1, <1>2, AnswerStep

\* The steps that commit a write.
LEMMA InsertProjectStep ==
  ASSUME IndInv, NEW c \in Client, InsertProject(c)
  PROVE  IndInv'
<1> DEFINE q == req[c]
<1>1. PICK p \in Project :
        /\ projects[p].state = "free"
        /\ projects' = [projects EXCEPT ![p] =
                          [state |-> "active", owner |-> q.user]]
        /\ Commit(c, p, "refresh", 0)
  BY DEF InsertProject
<1>2. UNCHANGED <<users, tasks, comments, counters, held>>
      /\ q.stage = "write" /\ q.op = "create_project"
  BY DEF InsertProject, Writing
<1>3. q.user \in User
  BY <1>2 DEF IndInv, RequestOK, Shape
<1>4. Grows
  BY <1>1, <1>2 DEF Grows, IndInv, StoreOK
<1>5. StoreOK'
  BY <1>1, <1>2, <1>3 DEF IndInv, StoreOK, HeldOK, NoSkippedReview, RowState
<1>6. \A r : r = Written(q, p, "refresh", 0) => Done(r)'
  <2> SUFFICES ASSUME NEW r, r = Written(q, p, "refresh", 0) PROVE Done(r)'
    OBVIOUS
  <2>1. r.op = "create_project" /\ r.user = q.user /\ r.row = p
    BY <1>2 DEF Written, IndInv, Request
  <2> QED
    BY <1>1, <2>1 DEF Done, IndInv, StoreOK
<1>7. p \in Id /\ q.op \in Creating
  BY <1>2 DEF Id, Creating
<1> QED
  BY <1>1, <1>2, <1>4, <1>5, <1>6, <1>7, CommitStep

LEMMA SoftDeleteProjectStep ==
  ASSUME IndInv, NEW c \in Client, SoftDeleteProject(c)
  PROVE  IndInv'
<1> DEFINE q == req[c]
<1>1. /\ q.stage = "write" /\ q.op = "delete_project"
      /\ projects' = [projects EXCEPT ![q.project].state = "deleted"]
      /\ Commit(c, q.project, "answered", 204)
      /\ UNCHANGED <<users, tasks, comments, counters, held>>
  BY DEF SoftDeleteProject, Writing
<1>2. q.project \in Project
  BY <1>1 DEF IndInv, RequestOK, Shape, ProjectOps, Operation
<1>3. Grows
  BY <1>1, <1>2 DEF Grows, IndInv, StoreOK
<1>4. StoreOK'
  BY <1>1, <1>2 DEF IndInv, StoreOK, HeldOK, NoSkippedReview, RowState
<1>5. \A r : r = Written(q, q.project, "answered", 204) => Done(r)'
  <2> SUFFICES ASSUME NEW r, r = Written(q, q.project, "answered", 204)
               PROVE  Done(r)'
    OBVIOUS
  <2>1. r.op = "delete_project" /\ r.project = q.project
    BY <1>1 DEF Written, IndInv, Request
  <2> QED
    BY <1>1, <1>2, <2>1 DEF Done, IndInv, StoreOK
<1>6. PICK p \in Id : p = q.project
  BY <1>2 DEF Id
<1> QED
  BY <1>1, <1>2, <1>3, <1>4, <1>5, <1>6, CommitStep

LEMMA InsertTaskStep ==
  ASSUME IndInv, NEW c \in Client, InsertTask(c)
  PROVE  IndInv'
<1> DEFINE q == req[c]
<1>1. PICK t \in Task :
        /\ tasks[t].state = "free"
        /\ tasks' = [tasks EXCEPT ![t] =
                       [state |-> "active", project |-> q.project,
                        status |-> "TODO"]]
        /\ held' = [held EXCEPT ![t] = {"TODO"}]
        /\ Commit(c, t, "refresh", 0)
  BY DEF InsertTask
<1>2. UNCHANGED <<users, projects, comments, counters>>
      /\ q.stage = "write" /\ q.op = "create_task"
  BY DEF InsertTask, Writing
<1>3. q.project \in Project /\ q \in Request
  BY <1>2 DEF IndInv, RequestOK, Shape, ProjectOps, Operation
<1>4. held[t] = {}
  BY <1>1 DEF IndInv, StoreOK, HeldOK
<1>5. Grows
  BY <1>1, <1>2, <1>4 DEF Grows, IndInv, StoreOK
<1>6. StoreOK'
  BY <1>1, <1>2, <1>3 DEF IndInv, StoreOK, HeldOK, NoSkippedReview, RowState,
    TaskStatus
<1>7. \A r : r = Written(q, t, "refresh", 0) => Done(r)'
  <2> SUFFICES ASSUME NEW r, r = Written(q, t, "refresh", 0) PROVE Done(r)'
    OBVIOUS
  <2>1. r.op = "create_task" /\ r.project = q.project /\ r.row = t
    BY <1>2, <1>3 DEF Written, Request
  <2> QED
    BY <1>1, <2>1 DEF Done, IndInv, StoreOK
<1>8. t \in Id /\ q.op \in Creating
  BY <1>2 DEF Id, Creating
<1> QED
  BY <1>1, <1>2, <1>5, <1>6, <1>7, <1>8, CommitStep

LEMMA SaveTaskStep ==
  ASSUME IndInv, NEW c \in Client, SaveTask(c)
  PROVE  IndInv'
<1> DEFINE q == req[c]
           t == q.task
<1>1. PICK s :
        /\ s = NewStatus(q, tasks[t].status)
        /\ tasks' = [tasks EXCEPT ![t].status = s]
        /\ held' = [held EXCEPT ![t] = @ \cup {s}]
        /\ Commit(c, t, "refresh", 0)
  BY DEF SaveTask
<1>2. UNCHANGED <<users, projects, comments, counters>>
      /\ q.stage = "write" /\ q.op = "update_task"
  BY DEF SaveTask, Writing
<1>3. q \in Request /\ t \in Task /\ FromHeld(q)
  BY <1>2 DEF IndInv, RequestOK, Shape, TaskOps
<1>4. tasks[t].state # "free" /\ StoreOK
  BY <1>2, <1>3 DEF FromHeld, IndInv
<1>5. tasks[t].status \in TaskStatus /\ tasks[t].status \in held[t]
  BY <1>3, <1>4, LiveTask
\* The status written is one the task has, or a legal successor of one.
<1>6. s \in TaskStatus
      /\ \/ s \in held[t]
         \/ q.snap \in held[t] /\ s \in VALID_TRANSITIONS[q.snap]
  BY <1>1, <1>2, <1>3, <1>5 DEF NewStatus, FromHeld, TransitionAllowed,
    Request
<1>7. Grows
  BY <1>1, <1>2, <1>3 DEF Grows, IndInv, StoreOK
<1>8. StoreOK'
  <2>1. held' \in [Task -> SUBSET TaskStatus]
    BY <1>1, <1>3, <1>4, <1>6 DEF StoreOK
  <2>2. tasks' \in [Task -> [state : RowState, project : Project \cup {None},
                             status : TaskStatus \cup {None}]]
    <3> DEFINE Status == TaskStatus \cup {None}
    <3>1. s \in Status
      BY <1>6
    <3> HIDE DEF Status
    <3>2. tasks \in [Task -> [state : RowState, project : Project \cup {None},
                             status : Status]]
      BY <1>4 DEF StoreOK, Status
    <3>3. tasks' \in [Task -> [state : RowState, project : Project \cup {None},
                              status : Status]]
      BY <1>1, <3>1, <3>2
    <3> QED
      BY <3>3 DEF Status
  <2>3. ASSUME NEW x \in Task
        PROVE  IF tasks'[x].state = "free" THEN held'[x] = {}
                                           ELSE tasks'[x].status \in held'[x]
    <3>1. CASE x = t
      <4>1. tasks'[t].state = tasks[t].state /\ tasks'[t].status = s
        BY <1>1, <1>3, <1>4 DEF StoreOK
      <4>2. s \in held'[t]
        BY <1>1, <1>3, <1>4 DEF StoreOK
      <4> QED
        BY <1>4, <3>1, <4>1, <4>2
    <3>2. CASE x # t
      <4>1. tasks'[x] = tasks[x] /\ held'[x] = held[x]
        BY <1>1, <1>4, <3>2 DEF StoreOK
      <4> QED
        BY <1>4, <4>1 DEF StoreOK, HeldOK
    <3> QED
      BY <3>1, <3>2
  <2>4. NoSkippedReview'
    <3> SUFFICES ASSUME NEW x \in Task
                 PROVE
                   /\ "DONE" \in held'[x] => "IN_REVIEW" \in held'[x]
                   /\ "IN_REVIEW" \in held'[x] => "IN_PROGRESS" \in held'[x]
                   /\ held'[x] # {} => "TODO" \in held'[x]
      BY DEF NoSkippedReview
    <3>1. CASE x # t
      BY <1>1, <1>4, <3>1 DEF StoreOK, NoSkippedReview
    <3>2. CASE x = t
      <4>1. held'[t] = held[t] \cup {s} /\ held[t] \subseteq TaskStatus
        BY <1>1, <1>3, <1>4 DEF StoreOK
      <4>2. /\ "DONE" \in held[t] => "IN_REVIEW" \in held[t]
            /\ "IN_REVIEW" \in held[t] => "IN_PROGRESS" \in held[t]
            /\ "TODO" \in held[t]
        BY <1>3, <1>4, <1>5 DEF StoreOK, NoSkippedReview
      <4>3. q.snap \in held[t] /\ s \in VALID_TRANSITIONS[q.snap] =>
              /\ s = "DONE" => q.snap = "IN_REVIEW"
              /\ s = "IN_REVIEW" => q.snap = "IN_PROGRESS"
        BY <4>1 DEF VALID_TRANSITIONS, TaskStatus
      <4> QED
        BY <1>6, <3>2, <4>1, <4>2, <4>3
    <3> QED
      BY <3>1, <3>2
  <2> QED
    BY <1>2, <1>4, <2>1, <2>2, <2>3, <2>4 DEF StoreOK, HeldOK
<1>9. \A r : r = Written(q, t, "refresh", 0) => Done(r)'
  <2> SUFFICES ASSUME NEW r, r = Written(q, t, "refresh", 0) PROVE Done(r)'
    OBVIOUS
  <2>1. r.op = "update_task" /\ r.status = q.status /\ r.task = t
    BY <1>2, <1>3 DEF Written, Request
  <2>2. q.status \in held'[t] \cup {None}
    BY <1>1, <1>2, <1>3, <1>4 DEF NewStatus, FromHeld, StoreOK
  <2> QED
    BY <2>1, <2>2 DEF Done
<1>10. t \in Id
  BY <1>3 DEF Id
<1>11. PICK row \in Id : row = t
  BY <1>10
<1> QED
  BY <1>1, <1>2, <1>7, <1>8, <1>9, <1>11, CommitStep DEF Creating

LEMMA SoftDeleteTaskStep ==
  ASSUME IndInv, NEW c \in Client, SoftDeleteTask(c)
  PROVE  IndInv'
<1> DEFINE q == req[c]
<1>1. /\ q.stage = "write" /\ q.op = "delete_task"
      /\ tasks' = [tasks EXCEPT ![q.task].state = "deleted"]
      /\ Commit(c, q.task, "answered", 204)
      /\ UNCHANGED <<users, projects, comments, counters, held>>
  BY DEF SoftDeleteTask, Writing
<1>2. q.task \in Task /\ tasks[q.task].state # "free" /\ q \in Request
  BY <1>1 DEF IndInv, RequestOK, Shape, FromHeld, TaskOps
<1>3. Grows
  BY <1>1, <1>2 DEF Grows, IndInv, StoreOK
<1>4. StoreOK'
  <2>1. \A t \in Task : /\ tasks'[t].status = tasks[t].status
                       /\ tasks'[t].state = "free" <=> tasks[t].state = "free"
    BY <1>1, <1>2 DEF IndInv, StoreOK
  <2>2. HeldOK' /\ NoSkippedReview'
    BY <1>1, <2>1 DEF IndInv, StoreOK, HeldOK, NoSkippedReview
  <2>3. tasks' \in [Task -> [state : RowState, project : Project \cup {None},
                             status : TaskStatus \cup {None}]]
    BY <1>1, <1>2 DEF IndInv, StoreOK, RowState
  <2> QED
    BY <1>1, <2>2, <2>3 DEF IndInv, StoreOK
<1>5. \A r : r = Written(q, q.task, "answered", 204) => Done(r)'
  <2> SUFFICES ASSUME NEW r, r = Written(q, q.task, "answered", 204)
               PROVE  Done(r)'
    OBVIOUS
  <2>1. r.op = "delete_task" /\ r.task = q.task
    BY <1>1, <1>2 DEF Written, Request
  <2> QED
    BY <1>1, <1>2, <2>1 DEF Done, IndInv, StoreOK
<1>6. PICK t \in Id : t = q.task
  BY <1>2 DEF Id
<1> QED
  BY <1>1, <1>2, <1>3, <1>4, <1>5, <1>6, CommitStep

LEMMA InsertCommentStep ==
  ASSUME IndInv, NEW c \in Client, InsertComment(c)
  PROVE  IndInv'
<1> DEFINE q == req[c]
<1>1. PICK k \in Comment :
        /\ comments[k].state = "free"
        /\ comments' = [comments EXCEPT ![k] =
                          [state |-> "active", task |-> q.task,
                           author |-> q.user]]
        /\ Commit(c, k, "refresh", 0)
  BY DEF InsertComment
<1>2. UNCHANGED <<users, projects, tasks, counters, held>>
      /\ q.stage = "write" /\ q.op = "create_comment"
  BY DEF InsertComment, Writing
<1>3. q \in Request /\ q.task \in Task /\ q.user \in User
  BY <1>2 DEF IndInv, RequestOK, Shape, TaskOps
<1>4. Grows
  BY <1>1, <1>2 DEF Grows, IndInv, StoreOK
<1>5. StoreOK'
  BY <1>1, <1>2, <1>3 DEF IndInv, StoreOK, HeldOK, NoSkippedReview, RowState
<1>6. \A r : r = Written(q, k, "refresh", 0) => Done(r)'
  <2> SUFFICES ASSUME NEW r, r = Written(q, k, "refresh", 0) PROVE Done(r)'
    OBVIOUS
  <2>1. r.op = "create_comment" /\ r.task = q.task /\ r.user = q.user
        /\ r.row = k
    BY <1>2, <1>3 DEF Written, Request
  <2> QED
    BY <1>1, <2>1 DEF Done, IndInv, StoreOK
<1>7. k \in Id /\ q.op \in Creating
  BY <1>2 DEF Id, Creating
<1> QED
  BY <1>1, <1>2, <1>4, <1>5, <1>6, <1>7, CommitStep

LEMMA RefreshStep ==
  ASSUME IndInv, NEW c \in Client, Refresh(c)
  PROVE  IndInv'
<1> DEFINE q == req[c]
<1>1. q \in Request /\ RequestOK(q) /\ q.stage = "refresh"
      /\ UNCHANGED <<dbVars, held>>
  BY DEF IndInv, Refresh
<1>2. PICK code \in {200, 201} : Answer(c, code, {q.row})
  BY DEF Refresh
<1>3. PICK r : r = Answered(q, code, {q.row})
  OBVIOUS
<1>4. q.row \in Id
  BY <1>1 DEF RequestOK, Shape
<1>5. r \in Request
  <2>1. code \in Code /\ {q.row} \in SUBSET Id
    BY <1>4 DEF Code
  <2> QED
    BY <1>1, <1>3, <2>1, AnswerTyped
<1>6. MovesTo(c, r)
  BY <1>2, <1>3 DEF Answer, MovesTo, IndInv
<1>7. counters' \in Counters
  BY DEF Refresh, IndInv, StoreOK, Counters
<1>8. RequestOK(r)
  BY <1>1, <1>3 DEF Answered, RequestOK, Shape, Committed, Done, FromHeld,
    Request
<1> QED
  BY <1>1, <1>5, <1>6, <1>7, <1>8, LocalStep

\* The steps outside the handlers.
LEMMA ReturnStep ==
  ASSUME IndInv, NEW c \in Client, Return(c)
  PROVE  IndInv'
<1>1. PICK r : r = Idle
  OBVIOUS
<1>2. MovesTo(c, r) /\ UNCHANGED <<dbVars, held>> /\ counters' \in Counters
  BY <1>1 DEF Return, MovesTo, IndInv, StoreOK
<1>3. r \in Request /\ RequestOK(r)
  BY <1>1, IdleTyped
<1> QED
  BY <1>2, <1>3, LocalStep

LEMMA AccountDeletedStep ==
  ASSUME IndInv, NEW u \in User, AccountDeleted(u)
  PROVE  IndInv'
<1>1. StoreOK'
  BY DEF AccountDeleted, IndInv, StoreOK, HeldOK, NoSkippedReview
<1>2. \A c \in Client : RequestOK(req[c])'
  BY DEF AccountDeleted, IndInv, RequestOK, Shape, Committed, Done, FromHeld
<1> QED
  BY <1>1, <1>2 DEF AccountDeleted, IndInv

LEMMA RestartStep ==
  ASSUME IndInv, Restart
  PROVE  IndInv'
<1>1. StoreOK'
  <2>1. NoCounts \in Counters
    BY DEF NoCounts, Counters
  <2> QED
    BY <2>1 DEF Restart, dbVars, IndInv, StoreOK, HeldOK, NoSkippedReview
<1>2. ASSUME NEW c \in Client
      PROVE  req'[c] \in Request /\ RequestOK(req[c])'
  <2>1. PICK r \in Request : r = req'[c] /\ RequestOK(r)
    BY IdleTyped DEF Restart, IndInv
  <2>2. RequestOK(r)'
    BY <2>1 DEF Restart, dbVars, RequestOK, Shape, Committed, Done, FromHeld
  <2> QED
    BY <2>1, <2>2 DEF RequestOK, Shape, Committed, Done, FromHeld
<1>3. req' \in [Client -> Request]
  BY <1>2 DEF Restart
<1> QED
  BY <1>1, <1>2, <1>3 DEF IndInv

------------------------------------------------------------------------------

\* Every step preserves the inductive invariant.
LEMMA NextIndInv == IndInv /\ [Next]_vars => IndInv'
<1> SUFFICES ASSUME IndInv, [Next]_vars PROVE IndInv'
  OBVIOUS
<1>1. ASSUME NEW c \in Client, Serve(c) PROVE IndInv'
  BY <1>1, FailStep, ReadUserStep, ReadProjectStep, ReadTaskStep, ListRowsStep,
     InsertProjectStep, SoftDeleteProjectStep, InsertTaskStep, SaveTaskStep,
     SoftDeleteTaskStep, InsertCommentStep, RefreshStep DEF Serve
<1>2. ASSUME NEW c \in Client, Arrive(c) \/ Return(c) PROVE IndInv'
  BY <1>2, ArriveStep, ReturnStep
<1>3. ASSUME NEW u \in User, AccountDeleted(u) PROVE IndInv'
  BY <1>3, AccountDeletedStep
<1>4. CASE Restart
  BY <1>4, RestartStep
<1>5. CASE UNCHANGED vars
  BY <1>5 DEF vars, IndInv, StoreOK, HeldOK, NoSkippedReview, RequestOK, Shape,
    Committed, Done, FromHeld
<1> QED
  BY <1>1, <1>2, <1>3, <1>4, <1>5 DEF Next

\* The inductive invariant holds in every reachable state.
LEMMA Invariance == Spec => []IndInv
<1>1. Init => IndInv
  BY InitIndInv
<1>2. IndInv /\ [Next]_vars => IndInv'
  BY NextIndInv
<1> QED
  BY <1>1, <1>2, PTL DEF Spec

\* Every variable keeps its type, whatever requests, failures and restarts
\* interleave (the tables, the requests in progress, the counters).
THEOREM TypeCorrect == Spec => []TypeOK
<1>1. IndInv => TypeOK
  BY LiveTask DEF IndInv, StoreOK, TypeOK
<1> QED
  BY <1>1, Invariance, PTL

\* No interleaving of PATCHes makes a task skip the review: it has had every
\* status on the way to the one it has (task_service.py, apply_task_update).
THEOREM NoReviewSkipped == Spec => []NoSkippedReview
<1>1. IndInv => NoSkippedReview
  BY DEF IndInv, StoreOK
<1> QED
  BY <1>1, Invariance, PTL

\* A 2xx answer is never given for a write that is not, or no longer, in the
\* database (repositories: commit, then refresh, then the answer).
THEOREM AckedWritesAreDurable == Spec => []AckedWritesLast
<1>1. IndInv => AckedWritesLast
  BY DEF IndInv, RequestOK, Committed, AckedWritesLast
<1> QED
  BY <1>1, Invariance, PTL

\* Nothing brings a deleted project or task back (soft delete, ADR 0004).
THEOREM TombstonesAreFinal == Spec => TombstonesFinal
<1> DEFINE Kept ==
      /\ \A p \in Project : projects[p].state = "deleted" =>
                            projects'[p].state = "deleted"
      /\ \A t \in Task : tasks[t].state = "deleted" =>
                         tasks'[t].state = "deleted"
<1>1. IndInv /\ [Next]_vars => [Kept]_vars
  <2> SUFFICES ASSUME IndInv, Next PROVE Kept
    OBVIOUS
  <2>1. ASSUME NEW c \in Client, InsertProject(c) \/ SoftDeleteProject(c)
        PROVE  Kept
    BY <2>1 DEF InsertProject, SoftDeleteProject, IndInv, StoreOK
  <2>2. ASSUME NEW c \in Client,
               InsertTask(c) \/ SaveTask(c) \/ SoftDeleteTask(c)
        PROVE  Kept
    BY <2>2 DEF InsertTask, SaveTask, SoftDeleteTask, IndInv, StoreOK
  <2>3. CASE UNCHANGED <<projects, tasks>>
    BY <2>3
  <2>4. ASSUME NEW c \in Client, Serve(c) PROVE Kept
    <3>1. \/ InsertProject(c) \/ SoftDeleteProject(c)
          \/ InsertTask(c) \/ SaveTask(c) \/ SoftDeleteTask(c)
          \/ UNCHANGED <<projects, tasks>>
      BY <2>4 DEF Serve, RejectToken, ReadUser, ReadProject, ReadTask,
        ListRows, InsertComment, Refresh, ViolateForeignKey, DbError, dbVars
    <3> QED
      BY <2>1, <2>2, <2>3, <3>1
  <2>5. (\E c \in Client : Serve(c)) \/ UNCHANGED <<projects, tasks>>
    BY DEF Next, Arrive, Return, AccountDeleted, Restart, dbVars
  <2> QED
    BY <2>3, <2>4, <2>5
<1> QED
  BY <1>1, Invariance, PTL DEF Spec, TombstonesFinal

------------------------------------------------------------------------------
(* Whose rows a request meets.                                             *)

\* A row that was never created belongs to nothing.
Blank ==
  /\ \A p \in Project : projects[p].state = "free" => projects[p].owner = None
  /\ \A t \in Task : tasks[t].state = "free" => tasks[t].project = None
  /\ \A k \in Comment : comments[k].state # "active" => comments[k].task = None

\* The ids in the path are those the operation asks for.
Named(q) ==
  /\ q.stage = "idle" => q.seen = {}
  /\ q.stage # "idle" => /\ q.project # None <=> q.op \in ProjectOps
                         /\ q.task # None <=> q.op \in TaskOps

\* What the handler has checked of its rows stays true, and it has seen and
\* written rows of its caller only.
Inside(q) ==
  /\ q.stage \in {"task", "list", "write", "refresh"} /\ q.op \in ProjectOps =>
       /\ projects[q.project].state # "free"
       /\ projects[q.project].owner = q.user
  /\ q.stage \in {"list", "write", "refresh"} /\ q.op \in TaskOps =>
       /\ tasks[q.task].state # "free"
       /\ tasks[q.task].project = q.project
  /\ q.stage = "refresh" => q.row \in OwnedBy(q.user)
  /\ q.seen \subseteq OwnedBy(q.user)

ProjectGone(q) == q.project # None /\ projects[q.project].state = "deleted"
TaskGone(q) == q.task # None /\ tasks[q.task].state = "deleted"

\* A request that arrived late is stopped by the check of what is gone.
TurnedAway(q) ==
  q.late =>
    /\ ~q.wrote /\ q.code \notin {200, 201, 204}
    /\ q.stage \in {"user", "project", "task", "answered"}
    /\ q.stage = "user" => Late(q)
    /\ q.stage = "project" => ProjectGone(q) \/ TaskGone(q)
    /\ q.stage = "task" => TaskGone(q)

Confined(q) == Named(q) /\ Inside(q) /\ TurnedAway(q)

TreeInv == Blank /\ \A c \in Client : Confined(req[c])

\* What no step undoes in the tables, that of users with them.
Lasts ==
  /\ Grows
  /\ \A u \in User : users[u] = "deleted" => users'[u] = "deleted"

ProjectOf(u, p) == p \in Project /\ projects[p].owner = u
TaskOf(u, t) == t \in Task /\ ProjectOf(u, tasks[t].project)
CommentOf(u, k) == k \in Comment /\ TaskOf(u, comments[k].task)

LEMMA OwnedIs ==
  ASSUME NEW u, NEW x
  PROVE  /\ x \in OwnedBy(u) <=>
              ProjectOf(u, x) \/ TaskOf(u, x) \/ CommentOf(u, x)
         /\ x \in OwnedBy(u)' <=>
              ProjectOf(u, x)' \/ TaskOf(u, x)' \/ CommentOf(u, x)'
  BY DEF OwnedBy, ProjectOf, TaskOf, CommentOf

LEMMA OwnedGrows ==
  ASSUME Grows, Blank, NEW u \in User
  PROVE  OwnedBy(u) \subseteq OwnedBy(u)'
<1>1. None \notin User \cup Project \cup Task
  BY NoneAssumption
<1>2. \A p : ProjectOf(u, p) => ProjectOf(u, p)'
  BY <1>1 DEF ProjectOf, Grows, Blank
<1>3. \A t : TaskOf(u, t) => TaskOf(u, t)'
  <2> SUFFICES ASSUME NEW t, TaskOf(u, t) PROVE TaskOf(u, t)'
    OBVIOUS
  <2>1. t \in Task /\ ProjectOf(u, tasks[t].project)
    BY DEF TaskOf
  <2>2. tasks[t].project \in Project
    BY <2>1 DEF ProjectOf
  <2>3. tasks'[t].project = tasks[t].project
    BY <1>1, <2>1, <2>2 DEF Grows, Blank
  <2>4. ProjectOf(u, tasks[t].project)'
    <3>1. PICK p : p = tasks[t].project
      OBVIOUS
    <3>2. ProjectOf(u, p)'
      BY <1>2, <2>1, <3>1
    <3> QED BY <2>3, <3>1, <3>2
  <2> QED BY <2>1, <2>4 DEF TaskOf
<1>4. \A k : CommentOf(u, k) => CommentOf(u, k)'
  <2> SUFFICES ASSUME NEW k, CommentOf(u, k) PROVE CommentOf(u, k)'
    OBVIOUS
  <2>1. k \in Comment /\ TaskOf(u, comments[k].task)
    BY DEF CommentOf
  <2>2. comments[k].task \in Task
    BY <2>1 DEF TaskOf
  <2>3. comments'[k] = comments[k]
    BY <1>1, <2>1, <2>2 DEF Grows, Blank
  <2>4. PICK t : t = comments[k].task
    OBVIOUS
  <2>5. TaskOf(u, t)'
    BY <1>3, <2>1, <2>4
  <2> QED BY <2>1, <2>3, <2>4, <2>5 DEF CommentOf
<1> QED
  BY <1>2, <1>3, <1>4, OwnedIs

\* A request that does not move stays confined.
LEMMA StableConfined ==
  ASSUME NEW q \in Request, RequestOK(q), Confined(q), Blank, Lasts
  PROVE  Confined(q)'
<1>1. /\ q.stage # "idle" => q.user \in User /\ q.op \in Operation
      /\ q.op \in ProjectOps => q.project \in Project
      /\ q.op \in TaskOps => q.task \in Task
  BY DEF RequestOK, Shape
<1>2. Named(q)'
  BY DEF Confined, Named
<1>3. q.stage # "idle" => OwnedBy(q.user) \subseteq OwnedBy(q.user)'
  BY <1>1, OwnedGrows DEF Lasts
<1>4. Inside(q)'
  BY <1>1, <1>3 DEF Confined, Named, Inside, Lasts, Grows
<1>5. TurnedAway(q)'
  BY <1>1 DEF Confined, Named, TurnedAway, Late, ProjectGone, TaskGone, Lasts,
    Grows
<1> QED
  BY <1>2, <1>4, <1>5 DEF Confined

\* One request moves to r while the tables grow.
LEMMA ConfinedMoves ==
  ASSUME IndInv, TreeInv, Lasts, Blank', NEW c \in Client, NEW r,
         MovesTo(c, r), Confined(r)'
  PROVE  TreeInv'
<1>1. ASSUME NEW d \in Client PROVE Confined(req[d])'
  <2>1. PICK q : q = req'[d]
    OBVIOUS
  <2>2. Confined(q)'
    <3>1. CASE d = c
      BY <2>1, <3>1 DEF IndInv, MovesTo
    <3>2. CASE d # c
      <4>1. q = req[d] /\ q \in Request /\ RequestOK(q) /\ Confined(q)
        BY <2>1, <3>2 DEF IndInv, TreeInv, MovesTo
      <4> QED
        BY <4>1, StableConfined DEF TreeInv
    <3> QED
      BY <3>1, <3>2
  <2> QED
    BY <2>1, <2>2 DEF Confined, Named, Inside, TurnedAway, Late, ProjectGone,
      TaskGone
<1> QED
  BY <1>1 DEF TreeInv

LEMMA ConfinedLocally ==
  ASSUME IndInv, TreeInv, NEW c \in Client, NEW r, MovesTo(c, r), Confined(r),
         UNCHANGED <<dbVars, held>>
  PROVE  TreeInv'
<1>1. Lasts /\ Blank'
  BY DEF Lasts, Grows, TreeInv, Blank, dbVars
<1>2. OwnedBy(r.user)' = OwnedBy(r.user)
  BY DEF OwnedBy, dbVars
<1>3. Confined(r)'
  BY <1>2 DEF Confined, Named, Inside, TurnedAway, Late, ProjectGone, TaskGone,
    dbVars
<1> QED
  BY <1>1, <1>3, ConfinedMoves

LEMMA ConfinedAnswer ==
  ASSUME IndInv, TreeInv, NEW c \in Client, NEW code \in Code, NEW seen,
         req[c].stage \notin {"idle", "answered"},
         seen \subseteq OwnedBy(req[c].user),
         code \in {200, 201, 204} => ~req[c].late,
         Answer(c, code, seen), UNCHANGED <<dbVars, held>>
  PROVE  TreeInv'
<1>1. req[c] \in Request /\ Confined(req[c])
  BY DEF IndInv, TreeInv
<1>2. PICK r : r = Answered(req[c], code, seen)
  OBVIOUS
<1>3. MovesTo(c, r)
  BY <1>2 DEF Answer, MovesTo, IndInv
<1>4. Confined(r)
  BY <1>1, <1>2 DEF Confined, Named, Inside, TurnedAway, Answered, Request
<1> QED
  BY <1>3, <1>4, ConfinedLocally

\* The handler of c goes on to stage, having checked what that stage needs.
Checks(q, stage) ==
  /\ stage # "project" /\ q.op \in ProjectOps =>
       /\ projects[q.project].state # "free"
       /\ projects[q.project].owner = q.user
  /\ stage \in {"list", "write"} /\ q.op \in TaskOps =>
       tasks[q.task].state # "free" /\ tasks[q.task].project = q.project
  /\ q.late => \/ stage = "project" /\ (ProjectGone(q) \/ TaskGone(q))
               \/ stage = "task" /\ TaskGone(q)

LEMMA ConfinedGoto ==
  ASSUME IndInv, TreeInv, NEW c \in Client,
         NEW stage \in {"project", "task", "list", "write"},
         req[c].stage \notin {"idle", "answered"}, Checks(req[c], stage),
         Goto(c, stage), UNCHANGED <<dbVars, held>>
  PROVE  TreeInv'
<1>1. req[c] \in Request /\ Confined(req[c])
  BY DEF IndInv, TreeInv
<1>2. PICK r : r = At(req[c], stage)
  OBVIOUS
<1>3. MovesTo(c, r)
  BY <1>2 DEF Goto, MovesTo, IndInv
<1>4. Confined(r)
  BY <1>1, <1>2 DEF Confined, Named, Inside, TurnedAway, At, Request, Checks,
    ProjectGone, TaskGone
<1> QED
  BY <1>3, <1>4, ConfinedLocally

\* A commit of c, which was not late, on a row of its caller.
LEMMA ConfinedCommit ==
  ASSUME IndInv, TreeInv, Lasts, Blank', NEW c \in Client, NEW row,
         NEW next \in {"refresh", "answered"}, NEW code,
         req[c].stage = "write",
         NEW u, u = req[c].user, next = "refresh" => row \in OwnedBy(u)',
         Commit(c, row, next, code)
  PROVE  TreeInv'
<1>1. PICK q \in Request : q = req[c]
  BY DEF IndInv
<1>2. RequestOK(q) /\ Confined(q) /\ ~q.late /\ q.stage = "write"
  BY <1>1 DEF IndInv, TreeInv, Confined, TurnedAway
<1>3. Confined(q)'
  BY <1>2, StableConfined DEF TreeInv
<1>4. PICK stage, answer :
        /\ stage \in {next, "answered"}
        /\ req' = [req EXCEPT ![c] = Written(@, row, stage, answer)]
  BY DEF Commit
<1>5. PICK r : r = Written(q, row, stage, answer)
  OBVIOUS
<1>6. MovesTo(c, r)
  BY <1>1, <1>4, <1>5 DEF MovesTo, IndInv
<1>7. row \in OwnedBy(q.user)' \/ stage = "answered"
  BY <1>1, <1>4
<1>8. Confined(r)'
  BY <1>2, <1>3, <1>4, <1>5, <1>7 DEF Confined, Named, Inside, TurnedAway,
    Written, Request
<1> QED
  BY <1>6, <1>8, ConfinedMoves

------------------------------------------------------------------------------
(* The steps, one by one.                                                  *)

LEMMA ArriveConfined ==
  ASSUME IndInv, TreeInv, NEW c \in Client, Arrive(c)
  PROVE  TreeInv'
<1>1. PICK q \in Call : req' = [req EXCEPT ![c] = Arrived(q)]
  BY DEF Arrive
<1>2. PICK r : r = Arrived(q)
  OBVIOUS
<1>3. Confined(r)
  BY <1>2 DEF Confined, Named, Inside, TurnedAway, Arrived, Call, Late
<1> QED
  BY <1>1, <1>2, <1>3, ConfinedLocally DEF Arrive, MovesTo

LEMMA FailConfined ==
  ASSUME IndInv, TreeInv, NEW c \in Client,
         RejectToken(c) \/ ViolateForeignKey(c) \/ DbError(c)
  PROVE  TreeInv'
<1>1. /\ req[c].stage \notin {"idle", "answered"}
      /\ UNCHANGED <<dbVars, held>>
  BY DEF RejectToken, ViolateForeignKey, DbError, Writing
<1>2. PICK code \in {401, 500} : Answer(c, code, {})
  BY DEF RejectToken, ViolateForeignKey, DbError
<1>3. code \in Code
  BY DEF Code
<1> QED
  BY <1>1, <1>2, <1>3, ConfinedAnswer

\* The caller is active, so what is gone is the project or the task.
LEMMA ReadUserConfined ==
  ASSUME IndInv, TreeInv, NEW c \in Client, ReadUser(c)
  PROVE  TreeInv'
<1>1. PICK q \in Request : q = req[c]
  BY DEF IndInv
<1>2. /\ q.stage = "user" /\ q.op \in Operation /\ Confined(q)
      /\ UNCHANGED <<dbVars, held>>
  BY <1>1 DEF ReadUser, IndInv, TreeInv, RequestOK, Shape
<1>3. CASE Answer(c, 401, {})
  <2>1. 401 \in Code
    BY DEF Code
  <2> QED BY <1>1, <1>2, <1>3, <2>1, ConfinedAnswer
<1>4. CASE users[q.user] = "active" /\ Goto(c, FirstStage(q.op))
  <2>1. PICK stage : stage = FirstStage(q.op)
    OBVIOUS
  <2>2. \/ stage = "write" /\ q.op = "create_project"
        \/ stage = "list" /\ q.op = "list_projects"
        \/ stage = "project"
    BY <2>1 DEF FirstStage
  <2>3. q.late => ProjectGone(q) \/ TaskGone(q)
    BY <1>2, <1>4 DEF Confined, TurnedAway, Late, ProjectGone, TaskGone
  <2>4. q.op \notin ProjectOps => ~ProjectGone(q) /\ ~TaskGone(q)
    BY <1>2 DEF Confined, Named, ProjectGone, TaskGone, ProjectOps, TaskOps,
      Operation
  <2>5. Checks(q, stage)
    BY <2>2, <2>3, <2>4 DEF Checks, ProjectOps, TaskOps
  <2>6. stage \in {"project", "task", "list", "write"}
    BY <2>2
  <2> QED
    BY <1>1, <1>2, <1>4, <2>1, <2>5, <2>6, ConfinedGoto
<1> QED
  BY <1>1, <1>3, <1>4 DEF ReadUser

LEMMA ReadProjectConfined ==
  ASSUME IndInv, TreeInv, NEW c \in Client, ReadProject(c)
  PROVE  TreeInv'
<1>1. PICK q \in Request : q = req[c]
  BY DEF IndInv
<1>2. /\ q.stage = "project" /\ q.op \in Operation /\ Confined(q)
      /\ UNCHANGED <<dbVars, held>> /\ q.user \in User
      /\ q.op \in ProjectOps => q.project \in Project
  BY <1>1 DEF ReadProject, IndInv, TreeInv, RequestOK, Shape
<1>3. CASE Answer(c, 404, {})
  <2>1. 404 \in Code
    BY DEF Code
  <2> QED BY <1>1, <1>2, <1>3, <2>1, ConfinedAnswer
<1>4. CASE Owns(q.user, q.project)
  <2>1. /\ projects[q.project].state = "active"
        /\ projects[q.project].owner = q.user
        /\ q.late => TaskGone(q)
    BY <1>2, <1>4 DEF Owns, Present, Confined, TurnedAway, ProjectGone
  <2>2. q.op \notin TaskOps => ~q.late
    BY <1>2, <2>1 DEF Confined, Named, TaskGone
  <2>3. CASE q.op = "get_project" /\ Answer(c, 200, {q.project})
    <3>1. q.op \notin TaskOps /\ q.project \in Project /\ 200 \in Code
      BY <1>2, <2>3 DEF TaskOps, ProjectOps, Operation, Code
    <3>2. {q.project} \subseteq OwnedBy(q.user)
      BY <2>1, <3>1, OwnedIs DEF ProjectOf
    <3> QED BY <1>1, <1>2, <2>2, <2>3, <3>1, <3>2, ConfinedAnswer
  <2>4. CASE q.op = "list_tasks" /\ Goto(c, "list")
    <3>1. Checks(q, "list")
      BY <2>1, <2>2, <2>4 DEF Checks, TaskOps
    <3> QED BY <1>1, <1>2, <2>4, <3>1, ConfinedGoto
  <2>5. CASE q.op \in {"create_task", "delete_project"} /\ Goto(c, "write")
    <3>1. Checks(q, "write")
      BY <2>1, <2>2, <2>5 DEF Checks, TaskOps
    <3> QED BY <1>1, <1>2, <2>5, <3>1, ConfinedGoto
  <2>6. CASE q.op \in TaskOps /\ Goto(c, "task")
    <3>1. Checks(q, "task")
      BY <2>1, <2>6 DEF Checks
    <3> QED BY <1>1, <1>2, <2>6, <3>1, ConfinedGoto
  <2> QED
    BY <1>1, <1>4, <2>3, <2>4, <2>5, <2>6 DEF ReadProject
<1> QED
  BY <1>1, <1>3, <1>4 DEF ReadProject

LEMMA ReadTaskConfined ==
  ASSUME IndInv, TreeInv, NEW c \in Client, ReadTask(c)
  PROVE  TreeInv'
<1>1. PICK q \in Request : q = req[c]
  BY DEF IndInv
<1>2. /\ q.stage = "task" /\ q.op \in TaskOps /\ q.op \in ProjectOps
      /\ Confined(q) /\ UNCHANGED <<dbVars, held>> /\ q.user \in User
      /\ q.project \in Project /\ q.task \in Task
  BY <1>1 DEF ReadTask, IndInv, TreeInv, RequestOK, Shape, TaskOps, ProjectOps,
    Operation
<1>3. \A code \in {404, 422} : Answer(c, code, {}) => TreeInv'
  <2>1. 404 \in Code /\ 422 \in Code
    BY DEF Code
  <2> QED BY <1>1, <1>2, <2>1, ConfinedAnswer
<1>4. CASE TaskIn(q.task, q.project)
  <2>1. /\ tasks[q.task].state = "active" /\ tasks[q.task].project = q.project
        /\ projects[q.project].state # "free"
        /\ projects[q.project].owner = q.user
        /\ ~q.late
    BY <1>2, <1>4 DEF TaskIn, Confined, Inside, TurnedAway, TaskGone
  <2>2. Checks(q, "write") /\ Checks(q, "list")
    BY <2>1 DEF Checks
  <2>3. CASE ApplyStatus(c, tasks[q.task].status, q.status)
    <3>1. PICK old : old = tasks[q.task].status
      OBVIOUS
    <3>2. CASE req' = [req EXCEPT ![c] = Checked(@, old)]
      <4>1. PICK r : r = Checked(q, old)
        OBVIOUS
      <4>2. MovesTo(c, r)
        BY <1>1, <3>2, <4>1 DEF MovesTo, IndInv
      <4>3. Confined(r)
        BY <1>2, <2>1, <4>1 DEF Confined, Named, Inside, TurnedAway, Checked,
          Request
      <4> QED BY <1>2, <4>2, <4>3, ConfinedLocally
    <3> QED BY <1>3, <2>3, <3>1, <3>2 DEF ApplyStatus
  <2>4. CASE Goto(c, "write")
    BY <1>1, <1>2, <2>2, <2>4, ConfinedGoto
  <2>5. CASE Goto(c, "list")
    BY <1>1, <1>2, <2>2, <2>5, ConfinedGoto
  <2>6. CASE Answer(c, 200, {q.task})
    <3>1. {q.task} \subseteq OwnedBy(q.user) /\ 200 \in Code
      BY <1>2, <2>1, OwnedIs DEF TaskOf, ProjectOf, Code
    <3> QED BY <1>1, <1>2, <2>1, <2>6, <3>1, ConfinedAnswer
  <2> QED
    BY <1>1, <1>4, <2>3, <2>4, <2>5, <2>6 DEF ReadTask
<1> QED
  BY <1>1, <1>3, <1>4 DEF ReadTask

LEMMA ListRowsConfined ==
  ASSUME IndInv, TreeInv, NEW c \in Client, ListRows(c)
  PROVE  TreeInv'
<1>1. PICK q \in Request : q = req[c]
  BY DEF IndInv
<1>2. /\ q.stage = "list" /\ Confined(q) /\ UNCHANGED <<dbVars, held>>
      /\ q.user \in User /\ ~q.late
      /\ q.op \in ProjectOps => q.project \in Project
      /\ q.op \in TaskOps => q.task \in Task
  BY <1>1 DEF ListRows, IndInv, TreeInv, RequestOK, Shape, Confined, TurnedAway
<1>3. 200 \in Code
  BY DEF Code
<1>4. CASE q.op = "list_projects" /\ Answer(c, 200, ProjectsOf(q.user))
  <2>1. ProjectsOf(q.user) \subseteq OwnedBy(q.user)
    BY OwnedIs DEF ProjectsOf, Owns, ProjectOf
  <2> QED BY <1>1, <1>2, <1>3, <1>4, <2>1, ConfinedAnswer
<1>5. CASE /\ q.op = "list_tasks"
           /\ \E status : Answer(c, 200, TasksOf(q.project, status))
  <2>1. PICK status : Answer(c, 200, TasksOf(q.project, status))
    BY <1>5
  <2>2. ProjectOf(q.user, q.project)
    BY <1>2, <1>5 DEF Confined, Inside, ProjectOps, Operation, ProjectOf
  <2>3. TasksOf(q.project, status) \subseteq OwnedBy(q.user)
    BY <2>2, OwnedIs DEF TasksOf, TaskIn, TaskOf
  <2> QED BY <1>1, <1>2, <1>3, <2>1, <2>3, ConfinedAnswer
<1>6. CASE q.op = "list_comments" /\ Answer(c, 200, CommentsOf(q.task))
  <2>1. TaskOf(q.user, q.task)
    BY <1>2, <1>6 DEF Confined, Inside, ProjectOps, TaskOps, Operation, TaskOf,
      ProjectOf
  <2>2. CommentsOf(q.task) \subseteq OwnedBy(q.user)
    BY <2>1, OwnedIs DEF CommentsOf, CommentOf
  <2> QED BY <1>1, <1>2, <1>3, <1>6, <2>2, ConfinedAnswer
<1> QED
  BY <1>1, <1>4, <1>5, <1>6 DEF ListRows

LEMMA InsertProjectConfined ==
  ASSUME IndInv, TreeInv, NEW c \in Client, InsertProject(c)
  PROVE  TreeInv'
<1>1. PICK q \in Request : q = req[c]
  BY DEF IndInv
<1>2. /\ q.stage = "write" /\ UNCHANGED <<users, tasks, comments>>
      /\ q.user \in User /\ projects \in [Project -> ProjectRow]
  BY <1>1 DEF InsertProject, Writing, IndInv, RequestOK, Shape, StoreOK
<1>3. PICK p \in Project :
        /\ projects[p].state = "free"
        /\ projects' = [projects EXCEPT ![p] =
                          [state |-> "active", owner |-> q.user]]
        /\ Commit(c, p, "refresh", 0)
  BY <1>1 DEF InsertProject
<1>4. Lasts
  BY <1>2, <1>3 DEF InsertProject, Lasts, Grows
<1>5. Blank'
  BY <1>2, <1>3 DEF TreeInv, Blank
<1>6. ProjectOf(q.user, p)'
  BY <1>2, <1>3 DEF ProjectOf
<1>7. p \in OwnedBy(q.user)'
  BY <1>6, OwnedIs
<1> QED
  BY <1>1, <1>2, <1>3, <1>4, <1>5, <1>7, ConfinedCommit

LEMMA SoftDeleteProjectConfined ==
  ASSUME IndInv, TreeInv, NEW c \in Client, SoftDeleteProject(c)
  PROVE  TreeInv'
<1>1. PICK q \in Request : q = req[c]
  BY DEF IndInv
<1>2. /\ q.stage = "write" /\ q.op = "delete_project"
      /\ UNCHANGED <<users, tasks, comments, held>>
      /\ projects' = [projects EXCEPT ![q.project].state = "deleted"]
      /\ Commit(c, q.project, "answered", 204)
      /\ projects \in [Project -> ProjectRow]
  BY <1>1 DEF SoftDeleteProject, Writing, IndInv, StoreOK
<1>3. Lasts
  BY <1>2 DEF Lasts, Grows
<1>4. Blank'
  <2>1. projects[q.project].state # "free"
    BY <1>1, <1>2 DEF TreeInv, Confined, Inside, ProjectOps, Operation
  <2> QED BY <1>2, <2>1 DEF TreeInv, Blank
<1> QED
  BY <1>1, <1>2, <1>3, <1>4, ConfinedCommit

LEMMA InsertTaskConfined ==
  ASSUME IndInv, TreeInv, NEW c \in Client, InsertTask(c)
  PROVE  TreeInv'
<1>1. PICK q \in Request : q = req[c]
  BY DEF IndInv
<1>2. /\ q.stage = "write" /\ q.op = "create_task" /\ Confined(q)
      /\ UNCHANGED <<users, projects, comments>>
      /\ q.user \in User /\ q.project \in Project
      /\ tasks \in [Task -> TaskRow] /\ held \in [Task -> SUBSET TaskStatus]
  BY <1>1 DEF InsertTask, Writing, IndInv, TreeInv, RequestOK, Shape, StoreOK,
    ProjectOps, Operation
<1>3. PICK t \in Task :
        /\ tasks[t].state = "free"
        /\ tasks' = [tasks EXCEPT ![t] =
                       [state |-> "active", project |-> q.project,
                        status |-> "TODO"]]
        /\ held' = [held EXCEPT ![t] = {"TODO"}]
        /\ Commit(c, t, "refresh", 0)
  BY <1>1 DEF InsertTask
<1>4. Lasts
  <2>1. held[t] = {}
    BY <1>3 DEF IndInv, StoreOK, HeldOK
  <2> QED BY <1>2, <1>3, <2>1 DEF Lasts, Grows
<1>5. Blank'
  BY <1>2, <1>3 DEF TreeInv, Blank
<1>6. TaskOf(q.user, t)'
  <2>1. projects[q.project].owner = q.user
    BY <1>2 DEF Confined, Inside, ProjectOps, Operation
  <2>2. tasks'[t].project = q.project
    BY <1>2, <1>3
  <2> QED BY <1>2, <2>1, <2>2 DEF TaskOf, ProjectOf
<1>7. t \in OwnedBy(q.user)'
  BY <1>6, OwnedIs
<1> QED
  BY <1>1, <1>2, <1>3, <1>4, <1>5, <1>7, ConfinedCommit

\* The task of a PATCH, a DELETE or a comment is its caller's.
LEMMA OwnTask ==
  ASSUME IndInv, TreeInv, NEW c \in Client, NEW q \in Request, q = req[c],
         q.stage = "write", q.op \in Writes
  PROVE  /\ q.user \in User /\ q.project \in Project /\ q.task \in Task
         /\ tasks[q.task].state # "free" /\ tasks[q.task].project = q.project
         /\ projects[q.project].owner = q.user
         /\ TaskOf(q.user, q.task)
<1>1. /\ q.op \in TaskOps /\ q.op \in ProjectOps
      /\ Shape(q) /\ Confined(q)
  BY DEF Writes, TaskOps, ProjectOps, Operation, IndInv, TreeInv, RequestOK
<1> QED
  BY <1>1 DEF Shape, Confined, Inside, TaskOf, ProjectOf

LEMMA SaveTaskConfined ==
  ASSUME IndInv, TreeInv, NEW c \in Client, SaveTask(c)
  PROVE  TreeInv'
<1>1. PICK q \in Request : q = req[c]
  BY DEF IndInv
<1>2. /\ q.stage = "write" /\ q.op \in Writes
      /\ UNCHANGED <<users, projects, comments>>
      /\ tasks \in [Task -> TaskRow] /\ held \in [Task -> SUBSET TaskStatus]
  BY <1>1 DEF SaveTask, Writing, Writes, IndInv, StoreOK
<1>3. PICK s : /\ tasks' = [tasks EXCEPT ![q.task].status = s]
               /\ held' = [held EXCEPT ![q.task] = @ \cup {s}]
               /\ Commit(c, q.task, "refresh", 0)
  BY <1>1 DEF SaveTask
<1>4. Lasts
  BY <1>2, <1>3 DEF Lasts, Grows
<1>5. Blank'
  BY <1>2, <1>3 DEF TreeInv, Blank
<1>6. q.task \in OwnedBy(q.user)'
  <2>1. TaskOf(q.user, q.task)
    BY <1>1, <1>2, OwnTask
  <2>2. q.task \in OwnedBy(q.user) /\ q.user \in User
    BY <1>1, <1>2, <2>1, OwnTask, OwnedIs
  <2> QED BY <1>4, <2>2, OwnedGrows DEF Lasts, TreeInv
<1> QED
  BY <1>1, <1>2, <1>3, <1>4, <1>5, <1>6, ConfinedCommit

LEMMA SoftDeleteTaskConfined ==
  ASSUME IndInv, TreeInv, NEW c \in Client, SoftDeleteTask(c)
  PROVE  TreeInv'
<1>1. PICK q \in Request : q = req[c]
  BY DEF IndInv
<1>2. /\ q.stage = "write" /\ q.op \in Writes
      /\ UNCHANGED <<users, projects, comments, held>>
      /\ tasks' = [tasks EXCEPT ![q.task].state = "deleted"]
      /\ Commit(c, q.task, "answered", 204)
      /\ tasks \in [Task -> TaskRow]
  BY <1>1 DEF SoftDeleteTask, Writing, Writes, IndInv, StoreOK
<1>3. Lasts
  BY <1>2 DEF Lasts, Grows
<1>4. Blank'
  <2>1. tasks[q.task].state # "free"
    BY <1>1, <1>2, OwnTask
  <2> QED BY <1>2, <2>1 DEF TreeInv, Blank
<1> QED
  BY <1>1, <1>2, <1>3, <1>4, ConfinedCommit

LEMMA InsertCommentConfined ==
  ASSUME IndInv, TreeInv, NEW c \in Client, InsertComment(c)
  PROVE  TreeInv'
<1>1. PICK q \in Request : q = req[c]
  BY DEF IndInv
<1>2. /\ q.stage = "write" /\ q.op \in Writes
      /\ UNCHANGED <<users, projects, tasks, held>>
      /\ comments \in [Comment -> CommentRow]
  BY <1>1 DEF InsertComment, Writing, Writes, IndInv, StoreOK
<1>3. PICK k \in Comment :
        /\ comments[k].state = "free"
        /\ comments' = [comments EXCEPT ![k] =
                          [state |-> "active", task |-> q.task,
                           author |-> q.user]]
        /\ Commit(c, k, "refresh", 0)
  BY <1>1 DEF InsertComment
<1>4. Lasts
  BY <1>2, <1>3 DEF Lasts, Grows
<1>5. Blank'
  BY <1>2, <1>3 DEF TreeInv, Blank
<1>6. k \in OwnedBy(q.user)'
  <2>1. TaskOf(q.user, q.task)
    BY <1>1, <1>2, OwnTask
  <2>2. comments'[k].task = q.task
    BY <1>2, <1>3
  <2>3. CommentOf(q.user, k)'
    BY <1>2, <2>1, <2>2 DEF CommentOf, TaskOf, ProjectOf
  <2> QED BY <2>3, OwnedIs
<1> QED
  BY <1>1, <1>2, <1>3, <1>4, <1>5, <1>6, ConfinedCommit

LEMMA RefreshConfined ==
  ASSUME IndInv, TreeInv, NEW c \in Client, Refresh(c)
  PROVE  TreeInv'
<1>1. PICK q \in Request : q = req[c]
  BY DEF IndInv
<1>2. /\ q.stage = "refresh" /\ UNCHANGED <<dbVars, held>>
      /\ ~q.late /\ q.row \in OwnedBy(q.user)
  BY <1>1 DEF Refresh, TreeInv, Confined, TurnedAway, Inside
<1>3. PICK code \in {200, 201} : Answer(c, code, {q.row})
  BY <1>1 DEF Refresh
<1>4. {q.row} \subseteq OwnedBy(q.user) /\ code \in Code
  BY <1>2 DEF Code
<1> QED
  BY <1>1, <1>2, <1>3, <1>4, ConfinedAnswer

LEMMA IdleConfined == Confined(Idle)
  BY DEF Idle, Confined, Named, Inside, TurnedAway

LEMMA ReturnConfined ==
  ASSUME IndInv, TreeInv, NEW c \in Client, Return(c)
  PROVE  TreeInv'
<1>1. PICK r : r = Idle
  OBVIOUS
<1>2. MovesTo(c, r) /\ UNCHANGED <<dbVars, held>>
  BY <1>1 DEF Return, MovesTo
<1>3. Confined(r)
  BY <1>1, IdleConfined
<1> QED
  BY <1>2, <1>3, ConfinedLocally

LEMMA AccountDeletedConfined ==
  ASSUME IndInv, TreeInv, NEW u \in User, AccountDeleted(u)
  PROVE  TreeInv'
<1>1. Lasts /\ Blank' /\ req' = req
  BY DEF AccountDeleted, Lasts, Grows, TreeInv, Blank, IndInv, StoreOK
<1>2. ASSUME NEW c \in Client PROVE Confined(req[c])'
  <2>1. PICK q \in Request : q = req[c] /\ RequestOK(q) /\ Confined(q)
    BY DEF IndInv, TreeInv
  <2>2. Confined(q)'
    BY <1>1, <2>1, StableConfined DEF TreeInv
  <2> QED
    BY <1>1, <2>1, <2>2 DEF Confined, Named, Inside, TurnedAway, Late,
      ProjectGone, TaskGone
<1> QED
  BY <1>1, <1>2 DEF TreeInv

LEMMA RestartConfined ==
  ASSUME IndInv, TreeInv, Restart
  PROVE  TreeInv'
<1>1. Lasts /\ Blank'
  BY DEF Restart, dbVars, Lasts, Grows, TreeInv, Blank
<1>2. ASSUME NEW c \in Client PROVE Confined(req[c])'
  <2>1. PICK q \in Request : q = req'[c] /\ RequestOK(q) /\ Confined(q)
    BY IdleTyped, IdleConfined DEF Restart, IndInv, TreeInv
  <2>2. Confined(q)'
    BY <1>1, <2>1, StableConfined DEF TreeInv
  <2> QED
    BY <2>1, <2>2 DEF Confined, Named, Inside, TurnedAway, Late,
      ProjectGone, TaskGone
<1> QED
  BY <1>1, <1>2 DEF TreeInv

LEMMA InitTree == Init => TreeInv
<1> SUFFICES ASSUME Init PROVE TreeInv
  OBVIOUS
<1>1. \A c \in Client : Confined(req[c])
  BY IdleConfined DEF Init
<1>2. Blank
  BY DEF Init, Blank
<1> QED
  BY <1>1, <1>2 DEF TreeInv

LEMMA NextTree == IndInv /\ TreeInv /\ [Next]_vars => TreeInv'
<1> SUFFICES ASSUME IndInv, TreeInv, [Next]_vars PROVE TreeInv'
  OBVIOUS
<1>1. ASSUME NEW c \in Client, Serve(c) PROVE TreeInv'
  BY <1>1, FailConfined, ReadUserConfined, ReadProjectConfined,
    ReadTaskConfined, ListRowsConfined, InsertProjectConfined,
    SoftDeleteProjectConfined, InsertTaskConfined, SaveTaskConfined,
    SoftDeleteTaskConfined, InsertCommentConfined, RefreshConfined DEF Serve
<1>2. ASSUME NEW c \in Client, Arrive(c) \/ Return(c) PROVE TreeInv'
  BY <1>2, ArriveConfined, ReturnConfined
<1>3. ASSUME NEW u \in User, AccountDeleted(u) PROVE TreeInv'
  BY <1>3, AccountDeletedConfined
<1>4. CASE Restart
  BY <1>4, RestartConfined
<1>5. CASE UNCHANGED vars
  BY <1>5 DEF vars, TreeInv, Blank, Confined, Named, Inside, TurnedAway, Late,
    ProjectGone, TaskGone, OwnedBy
<1> QED
  BY <1>1, <1>2, <1>3, <1>4, <1>5 DEF Next

LEMMA TreeInvariance == Spec => []TreeInv
  BY InitTree, NextTree, Invariance, PTL DEF Spec

\* Rows of other users are in no answer, the copy that refresh reads without
\* a check included (routers/deps.py, routers/tasks.py).
THEOREM OwnRowsOnly == Spec => []OwnDataOnly
<1>1. TreeInv => OwnDataOnly
  BY DEF TreeInv, Confined, Inside, OwnDataOnly
<1> QED
  BY <1>1, TreeInvariance, PTL

\* A request that arrives after a deletion it is subject to has no effect and
\* no success, at whatever moment its statements run (soft delete, ADR 0004).
THEOREM GoneIsGone == Spec => []DeletedIsGone
<1>1. TreeInv => DeletedIsGone
  BY DEF TreeInv, Confined, TurnedAway, DeletedIsGone
<1> QED
  BY <1>1, TreeInvariance, PTL

------------------------------------------------------------------------------
(* Who may change what is under a project.                                 *)

\* Nothing that is, or comes to be, under project p changes.
Untouched(p) ==
  /\ projects'[p] = projects[p]
  /\ \A t \in Task : tasks'[t] = tasks[t]
                     \/ p \notin {tasks[t].project, tasks'[t].project}
  /\ \A k \in Comment :
       comments'[k] = comments[k]
       \/ \A t \in {comments[k].task, comments'[k].task} :
            t # None => p \notin {tasks[t].project, tasks'[t].project}

LEMMA UntouchedTree ==
  ASSUME NEW p, Untouched(p), comments \in [Comment -> CommentRow]
  PROVE  Tree(p, projects, tasks, comments)
           = Tree(p, projects', tasks', comments')
<1> DEFINE Ts == {x \in Task : tasks[x].project = p}
           Tn == {x \in Task : tasks'[x].project = p}
           Ks == {x \in Comment : /\ comments[x].task # None
                                  /\ tasks[comments[x].task].project = p}
           Kn == {x \in Comment : /\ comments'[x].task # None
                                  /\ tasks'[comments'[x].task].project = p}
<1>1. Ts = Tn /\ \A t \in Ts : tasks[t] = tasks'[t]
  BY DEF Untouched
<1>2. Ks = Kn /\ \A k \in Ks : comments[k] = comments'[k]
  <2>1. ASSUME NEW k \in Comment, comments'[k] = comments[k]
        PROVE  k \in Ks <=> k \in Kn
    <3>1. comments[k].task = None \/ comments[k].task \in Task
      BY DEF CommentRow
    <3> QED
      BY <2>1, <3>1 DEF Untouched
  <2>2. ASSUME NEW k \in Comment, comments'[k] # comments[k]
        PROVE  k \notin Ks /\ k \notin Kn
    BY <2>2 DEF Untouched
  <2> QED
    BY <2>1, <2>2
<1> HIDE DEF Ts, Tn, Ks, Kn
<1>3. [t \in Ts |-> tasks[t]] = [t \in Tn |-> tasks'[t]]
  BY <1>1
<1>4. [k \in Ks |-> comments[k]] = [k \in Kn |-> comments'[k]]
  BY <1>2
<1>5. projects[p] = projects'[p]
  BY DEF Untouched
<1> QED
  BY <1>3, <1>4, <1>5 DEF Tree, Ts, Tn, Ks, Kn

\* The step of c is the doing of the owner of p, on p or where it has not yet
\* got a project.
ByOwner(c, p) ==
  /\ req'[c] # req[c]
  /\ req[c].user = projects'[p].owner
  /\ req[c].project \in {p, None}

LEMMA CommitMoves ==
  ASSUME IndInv, NEW c \in Client, NEW row, NEW code,
         NEW next \in {"refresh", "answered"},
         req[c].stage = "write", Commit(c, row, next, code)
  PROVE  req'[c] # req[c]
<1>1. PICK stage, answer :
        /\ stage \in {"refresh", "answered"}
        /\ req' = [req EXCEPT ![c] = Written(@, row, stage, answer)]
  BY DEF Commit
<1>2. PICK q \in Request : q = req[c] /\ q.stage = "write"
  BY DEF IndInv
<1>3. Written(q, row, stage, answer).stage = stage
  BY DEF Written, Request
<1>4. req'[c] = Written(q, row, stage, answer)
  BY <1>1, <1>2 DEF IndInv
<1> QED
  BY <1>1, <1>2, <1>3, <1>4

LEMMA InsertProjectByOwner ==
  ASSUME IndInv, TreeInv, NEW c \in Client, InsertProject(c), NEW p \in Project
  PROVE  Untouched(p) \/ ByOwner(c, p)
<1>1. /\ req[c].stage = "write" /\ req[c].op = "create_project"
      /\ UNCHANGED <<tasks, comments>> /\ projects \in [Project -> ProjectRow]
  BY DEF InsertProject, Writing, IndInv, StoreOK
<1>2. PICK x \in Project :
        /\ projects' = [projects EXCEPT ![x] =
                          [state |-> "active", owner |-> req[c].user]]
        /\ Commit(c, x, "refresh", 0)
  BY DEF InsertProject
<1>3. CASE p # x
  BY <1>1, <1>2, <1>3 DEF Untouched
<1>4. CASE p = x
  <2>1. req[c].project = None
    BY <1>1 DEF TreeInv, Confined, Named, ProjectOps
  <2>2. projects'[p].owner = req[c].user
    BY <1>1, <1>2, <1>4
  <2> QED
    BY <1>1, <1>2, <2>1, <2>2, CommitMoves DEF ByOwner
<1> QED
  BY <1>3, <1>4

\* What a handler in the project of its caller writes: the row of the project,
\* tasks of it or comments on such a task.
LEMMA ByOwnerInProject ==
  ASSUME IndInv, TreeInv, NEW c \in Client, NEW q \in Request, q = req[c],
         q.stage = "write", q.op \in ProjectOps, req'[c] # req[c],
         \A x \in Project : projects'[x].owner = projects[x].owner,
         \A x \in Project : x # q.project => projects'[x] = projects[x],
         \A t \in Task : tasks'[t] = tasks[t]
                         \/ /\ tasks[t].project \in {q.project, None}
                            /\ tasks'[t].project = q.project,
         \A k \in Comment : comments'[k] = comments[k]
                            \/ /\ comments[k].task = None
                               /\ comments'[k].task \in Task
                               /\ tasks[comments'[k].task].project = q.project,
         NEW p \in Project
  PROVE  Untouched(p) \/ ByOwner(c, p)
<1>1. None \notin Project
  BY NoneAssumption
<1>2. projects[q.project].owner = q.user /\ q.project \in Project
  BY DEF IndInv, TreeInv, RequestOK, Shape, Confined, Inside
<1>3. CASE p = q.project
  BY <1>2, <1>3 DEF ByOwner
<1>4. CASE p # q.project
  <2>1. projects'[p] = projects[p]
    BY <1>4
  <2>2. ASSUME NEW t \in Task
        PROVE  tasks'[t] = tasks[t]
               \/ p \notin {tasks[t].project, tasks'[t].project}
    BY <1>1, <1>4
  <2>3. ASSUME NEW k \in Comment
        PROVE comments'[k] = comments[k]
       \/ \A t \in {comments[k].task, comments'[k].task} :
            t # None => p \notin {tasks[t].project, tasks'[t].project}
    <3>1. CASE comments'[k] = comments[k]
      BY <3>1
    <3>2. CASE comments'[k] # comments[k]
      <4>1. PICK t \in Task : t = comments'[k].task
        BY <3>2
      <4>2. tasks[t].project = q.project /\ comments[k].task = None
        BY <3>2, <4>1
      <4>3. tasks'[t].project = q.project
        BY <4>2
      <4> QED
        BY <1>4, <4>1, <4>2, <4>3
    <3> QED
      BY <3>1, <3>2
  <2> QED
    BY <2>1, <2>2, <2>3 DEF Untouched
<1> QED
  BY <1>3, <1>4

LEMMA InProjectByOwner ==
  ASSUME IndInv, TreeInv, NEW c \in Client, NEW p \in Project,
         SoftDeleteProject(c) \/ InsertTask(c) \/ SaveTask(c)
           \/ SoftDeleteTask(c) \/ InsertComment(c)
  PROVE  Untouched(p) \/ ByOwner(c, p)
<1>1. PICK q \in Request : q = req[c]
  BY DEF IndInv
<1>2. /\ projects \in [Project -> ProjectRow] /\ tasks \in [Task -> TaskRow]
      /\ comments \in [Comment -> CommentRow]
      /\ Blank
  BY DEF IndInv, StoreOK, TreeInv
<1>3. q.stage = "write" /\ q.op \in Writes =>
        q.task \in Task /\ tasks[q.task].project = q.project
  BY <1>1, OwnTask
<1>4. CASE SoftDeleteProject(c)
  <2>1. /\ q.stage = "write" /\ q.op = "delete_project"
        /\ projects' = [projects EXCEPT ![q.project].state = "deleted"]
        /\ Commit(c, q.project, "answered", 204)
        /\ UNCHANGED <<tasks, comments>>
    BY <1>1, <1>4 DEF SoftDeleteProject, Writing
  <2>2. q.op \in ProjectOps /\ req'[c] # req[c]
    BY <1>1, <2>1, CommitMoves DEF ProjectOps, Operation
  <2>3. \A x \in Project : /\ projects'[x].owner = projects[x].owner
                           /\ x # q.project => projects'[x] = projects[x]
    BY <1>2, <2>1
  <2> QED
    BY <1>1, <2>1, <2>2, <2>3, ByOwnerInProject
<1>5. CASE InsertTask(c)
  <2>1. PICK t \in Task :
          /\ tasks[t].state = "free"
          /\ tasks' = [tasks EXCEPT ![t] =
                         [state |-> "active", project |-> q.project,
                          status |-> "TODO"]]
          /\ Commit(c, t, "refresh", 0)
    BY <1>1, <1>5 DEF InsertTask
  <2>2. /\ q.stage = "write" /\ q.op = "create_task"
        /\ UNCHANGED <<projects, comments>>
    BY <1>1, <1>5 DEF InsertTask, Writing
  <2>3. q.op \in ProjectOps /\ req'[c] # req[c]
    BY <1>1, <2>1, <2>2, CommitMoves DEF ProjectOps, Operation
  <2>4. \A x \in Task : \/ tasks'[x] = tasks[x]
                        \/ /\ tasks[x].project = None
                           /\ tasks'[x].project = q.project
    BY <1>2, <2>1 DEF Blank
  <2> QED
    BY <1>1, <2>2, <2>3, <2>4, ByOwnerInProject
<1>6. CASE SaveTask(c) \/ SoftDeleteTask(c)
  <2>1. /\ q.stage = "write" /\ q.op \in Writes /\ q.op \in ProjectOps
        /\ UNCHANGED <<projects, comments>>
    BY <1>1, <1>6 DEF SaveTask, SoftDeleteTask, Writing, Writes, ProjectOps,
      Operation
  <2>2. req'[c] # req[c]
    BY <1>1, <1>6, <2>1, CommitMoves DEF SaveTask, SoftDeleteTask
  <2>3. \A x \in Task : \/ tasks'[x] = tasks[x]
                        \/ x = q.task /\ tasks'[x].project = tasks[x].project
    <3>1. \/ \E s : tasks' = [tasks EXCEPT ![q.task].status = s]
          \/ tasks' = [tasks EXCEPT ![q.task].state = "deleted"]
      BY <1>1, <1>6 DEF SaveTask, SoftDeleteTask
    <3>2. CASE \E s : tasks' = [tasks EXCEPT ![q.task].status = s]
      BY <1>2, <3>2 DEF TaskRow
    <3>3. CASE tasks' = [tasks EXCEPT ![q.task].state = "deleted"]
      BY <1>2, <3>3 DEF TaskRow
    <3> QED
      BY <3>1, <3>2, <3>3
  <2>4. \A x \in Task : \/ tasks'[x] = tasks[x]
                        \/ /\ tasks[x].project = q.project
                           /\ tasks'[x].project = q.project
    BY <1>3, <2>1, <2>3
  <2> QED
    BY <1>1, <2>1, <2>2, <2>4, ByOwnerInProject
<1>7. CASE InsertComment(c)
  <2>1. PICK k \in Comment :
          /\ comments[k].state = "free"
          /\ comments' = [comments EXCEPT ![k] =
                            [state |-> "active", task |-> q.task,
                             author |-> q.user]]
          /\ Commit(c, k, "refresh", 0)
    BY <1>1, <1>7 DEF InsertComment
  <2>2. /\ q.stage = "write" /\ q.op \in Writes /\ q.op \in ProjectOps
        /\ UNCHANGED <<projects, tasks>>
    BY <1>1, <1>7 DEF InsertComment, Writing, Writes, ProjectOps, Operation
  <2>3. req'[c] # req[c]
    BY <1>1, <2>1, <2>2, CommitMoves
  <2>4. \A x \in Comment : \/ comments'[x] = comments[x]
                           \/ /\ comments[x].task = None
                              /\ comments'[x].task = q.task
    BY <1>2, <2>1 DEF Blank
  <2>5. \A x \in Comment : \/ comments'[x] = comments[x]
                           \/ /\ comments[x].task = None
                              /\ comments'[x].task \in Task
                              /\ tasks[comments'[x].task].project = q.project
    BY <1>3, <2>2, <2>4
  <2> QED
    BY <1>1, <2>2, <2>3, <2>5, ByOwnerInProject
<1> QED
  BY <1>4, <1>5, <1>6, <1>7

\* Whoever interleaves with whom, what is under a project is changed by
\* requests of its owner alone (routers/tasks.py, _get_project_or_404 first).
THEOREM OnlyOwnersWrite == Spec => OwnerOnly
<1> DEFINE Rule ==
             \A p \in Project :
               Tree(p, projects, tasks, comments)
                  # Tree(p, projects', tasks', comments') =>
                 \E c \in Client : /\ req'[c] # req[c]
                                   /\ req[c].user = projects'[p].owner
                                   /\ req[c].project \in {p, None}
<1>1. IndInv /\ TreeInv /\ [Next]_vars => [Rule]_dbVars
  <2> SUFFICES ASSUME IndInv, TreeInv, [Next]_vars, NEW p \in Project
               PROVE  \/ Tree(p, projects, tasks, comments)
                           = Tree(p, projects', tasks', comments')
                      \/ \E c \in Client : ByOwner(c, p)
                      \/ UNCHANGED dbVars
    BY DEF ByOwner
  <2>1. comments \in [Comment -> CommentRow]
    BY DEF IndInv, StoreOK
  <2>2. ASSUME NEW c \in Client, Serve(c)
        PROVE  UNCHANGED dbVars \/ Untouched(p) \/ ByOwner(c, p)
    BY <2>2, InsertProjectByOwner, InProjectByOwner DEF Serve, RejectToken,
      ReadUser, ReadProject, ReadTask, ListRows, Refresh, ViolateForeignKey,
      DbError
  <2>3. ASSUME NEW u \in User, AccountDeleted(u) PROVE Untouched(p)
    BY <2>3 DEF AccountDeleted, Untouched
  <2>4. \/ UNCHANGED dbVars \/ \E c \in Client : Serve(c)
        \/ \E u \in User : AccountDeleted(u)
    BY DEF Next, Arrive, Return, Restart, vars, dbVars
  <2> QED
    BY <2>1, <2>2, <2>3, <2>4, UntouchedTree
<1> QED
  BY <1>1, Invariance, TreeInvariance, PTL DEF Spec, OwnerOnly

------------------------------------------------------------------------------
(* The steps of the API are steps in the life of a task, stale writes apart. *)

Status == [t \in Task |-> IF tasks[t].state = "free" THEN "none"
                                                     ELSE tasks[t].status]
Erased == {t \in Task : tasks[t].state = "deleted"}

LEMMA InsertTaskCreates ==
  ASSUME IndInv, NEW c \in Client, InsertTask(c)
  PROVE  \E t \in Task : Life!Create(t)
<1>1. PICK t \in Task :
        /\ tasks[t].state = "free"
        /\ tasks' = [tasks EXCEPT ![t] =
                       [state |-> "active", project |-> req[c].project,
                        status |-> "TODO"]]
  BY DEF InsertTask
<1>2. tasks \in [Task -> TaskRow]
  BY DEF IndInv, StoreOK
<1>3. Status[t] = "none" /\ Status' = [Status EXCEPT ![t] = "TODO"]
  BY <1>1, <1>2 DEF Status
<1>4. Erased' = Erased
  BY <1>1, <1>2 DEF Erased
<1> QED
  BY <1>3, <1>4 DEF Life!Create, Status, Erased

\* The status written is the one the row has, or a legal next one, or it was
\* checked against what the row no longer is.
LEMMA SaveTaskLives ==
  ASSUME IndInv, NEW c \in Client, SaveTask(c)
  PROVE  \/ \E t \in Task, s \in TaskStatus : Life!Move(t, s)
         \/ UNCHANGED Life!lifeVars
         \/ StaleWrite(c)
<1>1. PICK q \in Request : q = req[c]
  BY DEF IndInv
<1>2. q.stage = "write" /\ q.op = "update_task" /\ q.task \in Task
      /\ tasks[q.task].state # "free" /\ FromHeld(q)
      /\ tasks \in [Task -> TaskRow]
  BY <1>1 DEF SaveTask, Writing, IndInv, RequestOK, Shape, TaskOps, StoreOK,
    FromHeld
<1>3. PICK t \in Task : t = q.task
  BY <1>2
<1>4. PICK s : /\ s = NewStatus(q, tasks[t].status)
               /\ tasks' = [tasks EXCEPT ![t].status = s]
  BY <1>1, <1>3 DEF SaveTask
<1>5. tasks[t].state \in {"active", "deleted"}
  BY <1>2, <1>3 DEF TaskRow, RowState
<1>6. /\ \A x \in Task : /\ tasks'[x].state = tasks[x].state
                         /\ x # t => tasks'[x] = tasks[x]
      /\ tasks'[t].status = s
  BY <1>2, <1>4 DEF TaskRow
<1>7. Erased' = Erased
  BY <1>6 DEF Erased
<1>8. Status' = [Status EXCEPT ![t] = s]
  BY <1>5, <1>6 DEF Status
<1>9. Status[t] = tasks[t].status /\ tasks[t].status \in TaskStatus
  BY <1>5, LiveTask DEF Status, IndInv
<1>10. CASE s = tasks[t].status
  <2>1. Status' = Status
    BY <1>8, <1>9, <1>10 DEF Status
  <2> QED
    BY <1>7, <2>1 DEF Life!lifeVars, Status, Erased
<1>11. CASE s # tasks[t].status /\ tasks[t].state = "active"
                               /\ tasks[t].status = q.snap
  <2>1. q.status # None /\ s = q.status /\ TransitionAllowed(q.snap, s)
    BY <1>2, <1>3, <1>4, <1>11 DEF NewStatus, FromHeld
  <2>2. s \in VALID_TRANSITIONS[Status[t]] /\ s \in TaskStatus
    BY <1>9, <1>11, <2>1 DEF TransitionAllowed, Request
  <2>3. Life!VALID_TRANSITIONS = VALID_TRANSITIONS
    BY DEF Life!VALID_TRANSITIONS, VALID_TRANSITIONS
  <2>4. t \notin Erased /\ Status[t] # "none"
    BY <1>9, <1>11 DEF Erased, TaskStatus
  <2>5. Life!Move(t, s)
    BY <1>7, <1>8, <2>2, <2>3, <2>4 DEF Life!Move, Status, Erased
  <2> QED
    BY <2>2, <2>5
<1>12. CASE /\ s # tasks[t].status
            /\ tasks[t].state = "deleted" \/ tasks[t].status # q.snap
  <2>1. s = q.status
    BY <1>4, <1>12 DEF NewStatus
  <2>2. Writing(c, "update_task")
    BY <1>1, <1>2 DEF Writing
  <2> QED
    BY <1>1, <1>3, <1>4, <1>12, <2>1, <2>2 DEF StaleWrite
<1> QED
  BY <1>5, <1>10, <1>11, <1>12

LEMMA SoftDeleteTaskErases ==
  ASSUME IndInv, NEW c \in Client, SoftDeleteTask(c)
  PROVE  \E t \in Task : Life!Erase(t)
<1>1. PICK q \in Request : q = req[c]
  BY DEF IndInv
<1>2. q.stage = "write" /\ q.op = "delete_task" /\ q.task \in Task
      /\ tasks[q.task].state # "free" /\ tasks \in [Task -> TaskRow]
      /\ tasks' = [tasks EXCEPT ![q.task].state = "deleted"]
  BY <1>1 DEF SoftDeleteTask, Writing, IndInv, RequestOK, Shape, TaskOps,
    StoreOK, FromHeld
<1>3. PICK t \in Task : t = q.task
  BY <1>2
<1>4. /\ \A x \in Task : tasks'[x].status = tasks[x].status
      /\ \A x \in Task : x # t => tasks'[x] = tasks[x]
      /\ tasks'[t].state = "deleted"
  BY <1>2, <1>3 DEF TaskRow
<1>5. Status' = Status /\ Erased' = Erased \cup {t}
  BY <1>2, <1>3, <1>4 DEF Status, Erased
<1>6. Status[t] # "none"
  <2>1. tasks[t].status \in TaskStatus
    BY <1>2, <1>3, LiveTask DEF IndInv
  <2> QED
    BY <1>2, <1>3, <2>1 DEF Status, TaskStatus
<1> QED
  BY <1>5, <1>6 DEF Life!Erase, Status, Erased

\* However many writes to one task overlap, fail or are cut off by a restart, a
\* task is created in TODO, moves along VALID_TRANSITIONS and is left alone once
\* it is deleted, but for a PATCH that commits the status it checked against a
\* row changed since (tasks.py:105-107).
THEOREM StaleWritesAlone == Spec => OnlyStaleWritesDepart
<1>1. IndInv /\ [Next]_vars =>
        [Life!LifeNext \/ \E c \in Client : StaleWrite(c)]_(Life!lifeVars)
  <2> SUFFICES ASSUME IndInv, [Next]_vars
               PROVE  \/ Life!LifeNext \/ \E c \in Client : StaleWrite(c)
                      \/ UNCHANGED Life!lifeVars
    OBVIOUS
  <2>1. CASE UNCHANGED tasks
    BY <2>1 DEF Life!lifeVars
  <2>2. ASSUME NEW c \in Client,
               InsertTask(c) \/ SaveTask(c) \/ SoftDeleteTask(c)
        PROVE  Life!LifeNext \/ StaleWrite(c) \/ UNCHANGED Life!lifeVars
    <3>1. Life!TaskStatus = TaskStatus
      BY DEF Life!TaskStatus, TaskStatus
    <3> QED
      BY <2>2, <3>1, InsertTaskCreates, SaveTaskLives, SoftDeleteTaskErases
        DEF Life!LifeNext
  <2>3. \/ UNCHANGED tasks
        \/ \E c \in Client : InsertTask(c) \/ SaveTask(c) \/ SoftDeleteTask(c)
    BY DEF vars, Next, Arrive, Return, AccountDeleted, Restart, Serve,
      RejectToken, ReadUser, ReadProject, ReadTask, ListRows, InsertProject,
      SoftDeleteProject, InsertComment, Refresh, ViolateForeignKey, DbError,
      dbVars
  <2> QED
    BY <2>1, <2>2, <2>3
<1> QED
  BY <1>1, Invariance, PTL DEF Spec, OnlyStaleWritesDepart

------------------------------------------------------------------------------
(* How often a creation is counted.                                        *)

Counting == {"create_task", "create_project"}

\* The rows of the table that op inserts into, and how many it has counted.
Rows(op) == IF op = "create_task"
              THEN {t \in Task : tasks[t].state # "free"}
              ELSE {p \in Project : projects[p].state # "free"}
Count(op) == IF op = "create_task" THEN counters.tasks ELSE counters.projects

\* The handler of c has inserted a row and not counted it.
Pending(c, op) == req[c].stage = "refresh" /\ req[c].op = op
Uncounted(op) == {x \in Rows(op) : \E c \in Client : /\ Pending(c, op)
                                                     /\ req[c].row = x}
Counted(op) == Rows(op) \ Uncounted(op)

\* No two handlers are about to count one row.
OneEach(op) ==
  \A c, d \in Client :
    Pending(c, op) /\ Pending(d, op) /\ req[c].row = req[d].row => c = d

CountInv ==
  \A op \in Counting : OneEach(op) /\ Count(op) <= Cardinality(Counted(op))

LEMMA RowsFinite ==
  ASSUME NEW op
  PROVE  /\ IsFiniteSet(Rows(op)) /\ IsFiniteSet(Rows(op)')
         /\ IsFiniteSet(Counted(op)) /\ IsFiniteSet(Counted(op)')
<1>1. /\ Rows(op) \subseteq Task \/ Rows(op) \subseteq Project
      /\ Rows(op)' \subseteq Task \/ Rows(op)' \subseteq Project
  BY DEF Rows
<1>2. IsFiniteSet(Rows(op)) /\ IsFiniteSet(Rows(op)')
  BY <1>1, FS_Subset, FiniteAssumption
<1>3. Counted(op) \subseteq Rows(op) /\ Counted(op)' \subseteq Rows(op)'
  BY DEF Counted
<1> QED
  BY <1>2, <1>3, FS_Subset

LEMMA PendingRow ==
  ASSUME IndInv, NEW c \in Client, NEW op \in Counting, Pending(c, op)
  PROVE  req[c].row \in Rows(op)
<1>1. PICK q \in Request : q = req[c] /\ Committed(q) /\ q.stage = "refresh"
                           /\ q.op = op
  BY DEF IndInv, RequestOK, Pending
<1> QED
  BY <1>1 DEF Committed, Done, Rows, Counting

\* Nothing counted is lost while the numbers stand.
LEMMA CountsStand ==
  ASSUME IndInv, CountInv, NEW op \in Counting, Count(op)' = Count(op),
         Counted(op) \subseteq Counted(op)'
  PROVE  Count(op)' <= Cardinality(Counted(op)')
<1>1. Cardinality(Counted(op)) <= Cardinality(Counted(op)')
  BY RowsFinite, FS_Subset
<1>2. Count(op) \in Nat
  BY DEF IndInv, StoreOK, Counters, Count
<1>3. Cardinality(Counted(op)) \in Nat /\ Cardinality(Counted(op)') \in Nat
  BY RowsFinite, FS_CardinalityType
<1>4. Count(op) <= Cardinality(Counted(op))
  BY DEF CountInv
<1> QED
  BY <1>1, <1>2, <1>3, <1>4

\* One request moves to r, which may have inserted a row that was free.
LEMMA CountMoves ==
  ASSUME IndInv, CountInv, Grows, UNCHANGED counters,
         NEW c \in Client, NEW r, MovesTo(c, r),
         r.stage = "refresh" => r.row \notin Rows(r.op) \/ r.op \notin Counting
  PROVE  CountInv'
<1> SUFFICES ASSUME NEW op \in Counting
             PROVE  OneEach(op)' /\ Count(op)' <= Cardinality(Counted(op)')
  BY DEF CountInv
<1>1. ASSUME NEW d \in Client, d # c PROVE req'[d] = req[d]
  BY <1>1 DEF MovesTo, IndInv
<1>2. req'[c] = r
  BY DEF MovesTo, IndInv
<1>3. ASSUME NEW d \in Client, d # c, Pending(d, op)'
      PROVE  Pending(d, op) /\ req'[d].row = req[d].row
             /\ req'[d].row \in Rows(op)
  BY <1>1, <1>3, PendingRow DEF Pending
<1>4. Pending(c, op)' => req'[c].row \notin Rows(op)
  BY <1>2 DEF Pending
<1>5. OneEach(op)'
  <2> SUFFICES ASSUME NEW d \in Client, NEW e \in Client,
                      Pending(d, op)', Pending(e, op)',
                      req'[d].row = req'[e].row, d # e
               PROVE  FALSE
    BY DEF OneEach
  <2>1. d # c /\ e # c
    BY <1>3, <1>4
  <2> QED
    BY <1>3, <2>1 DEF CountInv, OneEach
<1>6. Counted(op) \subseteq Counted(op)'
  <2> SUFFICES ASSUME NEW x \in Rows(op), x \notin Uncounted(op)
               PROVE  x \in Rows(op)' /\ x \notin Uncounted(op)'
    BY DEF Counted
  <2>1. x \in Rows(op)'
    BY DEF Grows, Rows
  <2>2. ASSUME NEW d \in Client, Pending(d, op)' PROVE req'[d].row # x
    BY <1>3, <1>4, <2>2 DEF Uncounted
  <2> QED
    BY <2>1, <2>2 DEF Uncounted
<1>7. Count(op)' = Count(op)
  BY DEF Count
<1> QED
  BY <1>5, <1>6, <1>7, CountsStand

LEMMA CountAnswer ==
  ASSUME IndInv, CountInv, NEW c \in Client, NEW code, NEW seen,
         Answer(c, code, seen), UNCHANGED <<dbVars, held, counters>>
  PROVE  CountInv'
<1>1. PICK q \in Request : q = req[c]
  BY DEF IndInv
<1>2. PICK r : r = Answered(q, code, seen)
  OBVIOUS
<1>3. MovesTo(c, r) /\ r.stage = "answered"
  BY <1>1, <1>2 DEF Answer, Answered, MovesTo, IndInv, Request
<1>4. Grows
  BY DEF Grows, dbVars
<1> QED
  BY <1>3, <1>4, CountMoves

LEMMA CountGoto ==
  ASSUME IndInv, CountInv, NEW c \in Client, NEW stage, stage # "refresh",
         Goto(c, stage), UNCHANGED <<dbVars, held, counters>>
  PROVE  CountInv'
<1>1. PICK q \in Request : q = req[c]
  BY DEF IndInv
<1>2. PICK r : r = At(q, stage)
  OBVIOUS
<1>3. MovesTo(c, r) /\ r.stage = stage
  BY <1>1, <1>2 DEF Goto, At, MovesTo, IndInv, Request
<1>4. Grows
  BY DEF Grows, dbVars
<1> QED
  BY <1>3, <1>4, CountMoves

LEMMA CountCommit ==
  ASSUME IndInv, CountInv, Grows, UNCHANGED counters,
         NEW c \in Client, NEW row, NEW code, NEW next,
         Commit(c, row, next, code),
         next = "refresh" => row \notin Rows(req[c].op)
                             \/ req[c].op \notin Counting
  PROVE  CountInv'
<1>1. PICK q \in Request : q = req[c]
  BY DEF IndInv
<1>2. PICK stage, answer :
        /\ stage \in {next, "answered"}
        /\ req' = [req EXCEPT ![c] = Written(@, row, stage, answer)]
  BY DEF Commit
<1>3. PICK r : r = Written(q, row, stage, answer)
  OBVIOUS
<1>4. MovesTo(c, r)
  BY <1>1, <1>2, <1>3 DEF MovesTo, IndInv
<1>5. r.op = q.op /\ r.row = row /\ r.stage = stage
  BY <1>3 DEF Written, Request
<1> QED
  BY <1>1, <1>2, <1>4, <1>5, CountMoves

LEMMA WritesGrow ==
  ASSUME IndInv, NEW c \in Client,
         \/ InsertProject(c) \/ SoftDeleteProject(c) \/ InsertComment(c)
         \/ InsertTask(c) \/ SaveTask(c) \/ SoftDeleteTask(c)
  PROVE  Grows
<1>1. /\ projects \in [Project -> ProjectRow] /\ tasks \in [Task -> TaskRow]
      /\ comments \in [Comment -> CommentRow]
      /\ held \in [Task -> SUBSET TaskStatus] /\ HeldOK
  BY DEF IndInv, StoreOK
<1>2. CASE InsertProject(c)
  BY <1>1, <1>2 DEF InsertProject, Grows
<1>3. CASE SoftDeleteProject(c)
  BY <1>1, <1>3 DEF SoftDeleteProject, Grows, ProjectRow
<1>4. CASE InsertComment(c)
  BY <1>1, <1>4 DEF InsertComment, Grows
<1>5. CASE InsertTask(c)
  BY <1>1, <1>5 DEF InsertTask, Grows, HeldOK
<1>6. CASE SaveTask(c)
  <2>1. PICK t, s : /\ tasks' = [tasks EXCEPT ![t].status = s]
                    /\ held' = [held EXCEPT ![t] = @ \cup {s}]
                    /\ UNCHANGED <<projects, comments>>
    BY <1>6 DEF SaveTask
  <2> QED
    BY <1>1, <2>1 DEF Grows, TaskRow
<1>7. CASE SoftDeleteTask(c)
  <2>1. PICK t : /\ tasks' = [tasks EXCEPT ![t].state = "deleted"]
                 /\ UNCHANGED <<projects, comments, held>>
    BY <1>7 DEF SoftDeleteTask
  <2> QED
    BY <1>1, <2>1 DEF Grows, TaskRow
<1> QED
  BY <1>2, <1>3, <1>4, <1>5, <1>6, <1>7

LEMMA WritesCount ==
  ASSUME IndInv, CountInv, NEW c \in Client,
         \/ InsertProject(c) \/ SoftDeleteProject(c) \/ InsertComment(c)
         \/ InsertTask(c) \/ SaveTask(c) \/ SoftDeleteTask(c)
  PROVE  CountInv'
<1>1. Grows
  BY WritesGrow
<1>2. UNCHANGED counters
  BY DEF InsertProject, SoftDeleteProject, InsertComment, InsertTask, SaveTask,
    SoftDeleteTask
<1>3. CASE InsertProject(c)
  <2>1. PICK p \in Project : projects[p].state = "free"
                             /\ Commit(c, p, "refresh", 0)
    BY <1>3 DEF InsertProject
  <2>2. p \notin Rows(req[c].op)
    BY <1>3, <2>1 DEF InsertProject, Writing, Rows
  <2> QED
    BY <1>1, <1>2, <2>1, <2>2, CountCommit
<1>4. CASE InsertTask(c)
  <2>1. PICK t \in Task : tasks[t].state = "free"
                          /\ Commit(c, t, "refresh", 0)
    BY <1>4 DEF InsertTask
  <2>2. t \notin Rows(req[c].op)
    BY <1>4, <2>1 DEF InsertTask, Writing, Rows
  <2> QED
    BY <1>1, <1>2, <2>1, <2>2, CountCommit
<1>5. CASE InsertComment(c) \/ SaveTask(c)
  <2>1. PICK row : Commit(c, row, "refresh", 0)
    BY <1>5 DEF InsertComment, SaveTask
  <2>2. req[c].op \notin Counting
    BY <1>5 DEF InsertComment, SaveTask, Writing, Counting
  <2> QED
    BY <1>1, <1>2, <2>1, <2>2, CountCommit
<1>6. CASE SoftDeleteProject(c) \/ SoftDeleteTask(c)
  <2>1. PICK row : Commit(c, row, "answered", 204)
    BY <1>6 DEF SoftDeleteProject, SoftDeleteTask
  <2> QED
    BY <1>1, <1>2, <2>1, CountCommit
<1> QED
  BY <1>3, <1>4, <1>5, <1>6

\* The steps that answer or go on, and count nothing.
LEMMA ReadsCount ==
  ASSUME IndInv, CountInv, NEW c \in Client,
         \/ RejectToken(c) \/ ReadUser(c) \/ ReadProject(c) \/ ReadTask(c)
         \/ ListRows(c) \/ ViolateForeignKey(c) \/ DbError(c)
  PROVE  CountInv'
<1>1. UNCHANGED <<dbVars, held, counters>>
  BY DEF RejectToken, ReadUser, ReadProject, ReadTask, ListRows,
    ViolateForeignKey, DbError
<1>2. CASE \E code, seen : Answer(c, code, seen)
  BY <1>1, <1>2, CountAnswer
<1>3. CASE \E stage : stage # "refresh" /\ Goto(c, stage)
  BY <1>1, <1>3, CountGoto
<1>4. CASE \E old : req' = [req EXCEPT ![c] = Checked(@, old)]
  <2>1. PICK q \in Request : q = req[c]
    BY DEF IndInv
  <2>2. PICK r, old : r = Checked(q, old) /\ req' = [req EXCEPT ![c] = r]
    BY <1>4, <2>1 DEF IndInv
  <2>3. MovesTo(c, r) /\ r.stage = "write"
    BY <2>2 DEF MovesTo, Checked, Request
  <2>4. Grows
    BY <1>1 DEF Grows, dbVars
  <2> QED
    BY <1>1, <2>3, <2>4, CountMoves
<1>5. FirstStage(req[c].op) # "refresh"
  BY DEF FirstStage
<1> QED
  BY <1>2, <1>3, <1>4, <1>5 DEF RejectToken, ReadUser, ReadProject, ReadTask,
    ApplyStatus, ListRows, ViolateForeignKey, DbError

\* The row counted is one that no other handler will count.
LEMMA RefreshCount ==
  ASSUME IndInv, CountInv, NEW c \in Client, Refresh(c)
  PROVE  CountInv'
<1>1. PICK q \in Request : q = req[c] /\ q.stage = "refresh"
  BY DEF IndInv, Refresh
<1>2. PICK r : r = req'[c] /\ MovesTo(c, r) /\ r.stage = "answered"
  <2>1. PICK code, seen : Answer(c, code, seen)
    BY DEF Refresh
  <2>2. PICK r : r = Answered(q, code, seen)
    OBVIOUS
  <2>3. r.stage = "answered"
    BY <2>2 DEF Answered, Request
  <2> QED
    BY <1>1, <2>1, <2>2, <2>3 DEF Answer, MovesTo, IndInv
<1> SUFFICES ASSUME NEW op \in Counting
             PROVE  OneEach(op)' /\ Count(op)' <= Cardinality(Counted(op)')
  BY DEF CountInv
<1>3. ASSUME NEW d \in Client
      PROVE  Pending(d, op)' <=> d # c /\ Pending(d, op)
  BY <1>2 DEF Pending, MovesTo, IndInv
<1>4. ASSUME NEW d \in Client, d # c PROVE req'[d].row = req[d].row
  BY <1>2, <1>4 DEF MovesTo, IndInv
<1>5. Rows(op)' = Rows(op)
  BY DEF Refresh, dbVars, Rows
<1>6. OneEach(op)'
  BY <1>3, <1>4 DEF CountInv, OneEach
<1>7. CASE q.op # op
  <2>1. Counted(op)' = Counted(op)
    <3>1. \A d \in Client : Pending(d, op) => d # c
      BY <1>1, <1>7 DEF Pending
    <3>2. Uncounted(op)' = Uncounted(op)
      BY <1>3, <1>4, <1>5, <3>1 DEF Uncounted
    <3> QED
      BY <1>5, <3>2 DEF Counted
  <2>2. Count(op)' = Count(op)
    BY <1>1, <1>7 DEF Refresh, Count, Counting, IndInv, StoreOK, Counters
  <2> QED
    BY <1>6, <2>1, <2>2, CountsStand
<1>8. CASE q.op = op
  <2>1. Pending(c, op) /\ q.row \in Rows(op)
    BY <1>1, <1>8, PendingRow DEF Pending
  <2>2. Uncounted(op)' = Uncounted(op) \ {q.row}
    <3>1. ASSUME NEW d \in Client, d # c, Pending(d, op)
          PROVE  req[d].row # q.row
      BY <1>1, <2>1, <3>1 DEF CountInv, OneEach
    <3> QED
      BY <1>1, <1>3, <1>4, <1>5, <3>1 DEF Uncounted
  <2>3. Counted(op)' = Counted(op) \cup {q.row} /\ q.row \notin Counted(op)
    BY <1>1, <1>5, <2>1, <2>2 DEF Counted, Uncounted
  <2>4. Cardinality(Counted(op)') = Cardinality(Counted(op)) + 1
    BY <2>3, RowsFinite, FS_AddElement
  <2>5. Count(op)' = Count(op) + 1 /\ Count(op) \in Nat
    BY <1>1, <1>8 DEF Refresh, Count, Counting, IndInv, StoreOK, Counters
  <2>6. Cardinality(Counted(op)) \in Nat
    BY RowsFinite, FS_CardinalityType
  <2>7. Count(op) <= Cardinality(Counted(op))
    BY DEF CountInv
  <2> QED
    BY <1>6, <2>4, <2>5, <2>6, <2>7
<1> QED
  BY <1>7, <1>8

LEMMA RestartCount ==
  ASSUME IndInv, CountInv, Restart
  PROVE  CountInv'
<1> SUFFICES ASSUME NEW op \in Counting
             PROVE  OneEach(op)' /\ Count(op)' <= Cardinality(Counted(op)')
  BY DEF CountInv
<1>1. ASSUME NEW c \in Client PROVE ~Pending(c, op)'
  BY DEF Restart, Pending, Idle
<1>2. Count(op)' = 0
  BY DEF Restart, Count, NoCounts
<1>3. Cardinality(Counted(op)') \in Nat
  BY RowsFinite, FS_CardinalityType
<1> QED
  BY <1>1, <1>2, <1>3 DEF OneEach

LEMMA InitCount == Init => CountInv
<1> SUFFICES ASSUME Init, NEW op \in Counting
             PROVE  OneEach(op) /\ Count(op) <= Cardinality(Counted(op))
  BY DEF CountInv
<1>1. OneEach(op)
  BY DEF Init, Idle, OneEach, Pending
<1>2. Count(op) = 0
  BY DEF Init, NoCounts, Count
<1>3. Cardinality(Counted(op)) \in Nat
  BY RowsFinite, FS_CardinalityType
<1> QED
  BY <1>1, <1>2, <1>3

LEMMA NextCount ==
  ASSUME IndInv, CountInv, [Next]_vars
  PROVE  CountInv'
<1>1. ASSUME NEW c \in Client, Serve(c) PROVE CountInv'
  BY <1>1, WritesCount, ReadsCount, RefreshCount DEF Serve
<1>2. ASSUME NEW c \in Client, Arrive(c) \/ Return(c) PROVE CountInv'
  <2>1. PICK r : MovesTo(c, r) /\ r.stage # "refresh"
    BY <1>2 DEF Arrive, Arrived, Return, Idle, MovesTo
  <2>2. Grows /\ UNCHANGED counters
    BY <1>2 DEF Arrive, Return, Grows, dbVars
  <2> QED
    BY <2>1, <2>2, CountMoves
<1>3. CASE Restart
  BY <1>3, RestartCount
<1>4. CASE UNCHANGED <<projects, tasks, req, counters>>
  BY <1>4 DEF CountInv, OneEach, Count, Counted, Uncounted, Pending, Rows
<1> QED
  BY <1>1, <1>2, <1>3, <1>4 DEF Next, AccountDeleted, vars

\* What the metrics say was created was created: a creation is counted after
\* its commit, once, and never for a row somebody else inserted
\* (routers/tasks.py, routers/projects.py: counter.inc() after create).
THEOREM NothingOvercounted == Spec => []NeverOvercounts
<1>1. IndInv /\ CountInv => NeverOvercounts
  <2> SUFFICES ASSUME IndInv, CountInv, NEW op \in Counting
               PROVE  Count(op) <= Cardinality(Rows(op))
    BY DEF Counting, Count, Rows, NeverOvercounts
  <2>1. Cardinality(Counted(op)) <= Cardinality(Rows(op))
    BY RowsFinite, FS_Subset DEF Counted
  <2>2. /\ Cardinality(Counted(op)) \in Nat /\ Cardinality(Rows(op)) \in Nat
        /\ Count(op) \in Nat
    BY RowsFinite, FS_CardinalityType DEF IndInv, StoreOK, Counters, Count
  <2>3. Count(op) <= Cardinality(Counted(op))
    BY DEF CountInv
  <2> QED
    BY <2>1, <2>2, <2>3
<1>2. Init => CountInv
  BY InitCount
<1>3. IndInv /\ CountInv /\ [Next]_vars => CountInv'
  BY NextCount
<1> QED
  BY <1>1, <1>2, <1>3, Invariance, PTL DEF Spec
=============================================================================
