------------------------------ MODULE LoadTest ------------------------------
(***************************************************************************)
(* The users of locustfile.py, all at one address, against the API.  A     *)
(* user registers and logs in, through the rate limiter, and then browses  *)
(* or manages tasks, or logs out and begins again.  A user that manages    *)
(* tasks goes by its own notes of them, and changes the notes when it is   *)
(* answered.  An answer may be an error, whether the request took effect   *)
(* or not.  The rate limiter is module RateLimiter.                        *)
(***************************************************************************)
EXTENDS TaskRules, Naturals, Sequences

CONSTANTS
  User,       \* users of the load test
  Class,      \* Class[u]: what u does: browse, write or verify
  Task,       \* ids of tasks
  SeedTasks,  \* how many tasks a browsing user begins with
  Pace,       \* the least time a verifying user waits, in ticks of the clock
  Host,       \* the address of all of them
  Max, Window, Second, Horizon, Never   \* those of RateLimiter

ASSUME LoadAssumption ==
  /\ Class \in [User -> {"browse", "write", "verify"}]
  /\ SeedTasks \in Nat
  /\ Pace \in Nat /\ Window * Second <= Max * Pace  \* 60 s, 10 times 6 s

VARIABLES
  stage,     \* what a user does next
  wake,      \* when it does it, at the earliest
  project,   \* has it got a project?
  left,      \* how many tasks it has still to begin with
  notes,     \* the tasks that it knows, and their status as it knows it
  answer,    \* the last answer it got
  status,    \* the tasks of the API
  unheard,   \* history: tasks whose last change a user has not been told
  who,       \* history: whose login each entry of the limiter's log is
  now, buckets, log, refused   \* those of RateLimiter

Limit == INSTANCE RateLimiter WITH Address <- {Host}

ASSUME LimiterAssumption == Limit!LimitAssumption

api == <<status, unheard>>
limiter == <<now, buckets, log, refused>>
vars == <<stage, wake, project, left, notes, answer, api, who, limiter>>

Init ==
  /\ stage = [u \in User |-> "register"]
  /\ wake = [u \in User |-> 0]
  /\ project = [u \in User |-> FALSE]
  /\ left = [u \in User |-> 0]
  /\ notes = [u \in User |-> [t \in Task |-> "none"]]
  /\ answer = [u \in User |-> "none"]
  /\ status = [t \in Task |-> "none"]
  /\ unheard = {} /\ who = <<>>
  /\ Limit!Init

Active(t) == status[t] \in TaskStatus

Known(u) == {t \in Task : notes[u][t] # "none"}

Answered(u, a) == answer' = [answer EXCEPT ![u] = a]

Notes(u, t, s) == notes' = [notes EXCEPT ![u][t] = s]

Goes(u, s) == stage' = [stage EXCEPT ![u] = s]

------------------------------------------------------------------------------
(* Register and log in.                                                    *)

\* Mutant: it waits a tick less.
RestShort(u) == now + Pace

\* When u comes back: it waits after what it did, and that took some time.
Rest(u) == now + Pace + 1

\* A verifying user waits.  For the others on_start is interrupted, and locust
\* runs it again at once.
BeginAgain(u) ==
  /\ Goes(u, "register")
  /\ wake' = [wake EXCEPT ![u] = IF Class[u] = "verify" THEN Rest(u) ELSE @]

Register(u) ==
  /\ stage[u] = "register" /\ wake[u] <= now
  /\ \/ Answered(u, "ok") /\ Goes(u, "login") /\ UNCHANGED wake
     \/ Answered(u, "error") /\ BeginAgain(u)
  /\ UNCHANGED <<project, left, notes, api, who, limiter>>

AfterLogin(u) ==
  CASE Class[u] = "browse" -> "project"
    [] Class[u] = "write"  -> "ready"
    [] Class[u] = "verify" -> "call"

Login(u) ==
  /\ stage[u] = "login"
  /\ \/ /\ Limit!Admit(Host)
        /\ who' = Append(who, u)
        /\ \/ Answered(u, "ok") /\ Goes(u, AfterLogin(u)) /\ UNCHANGED wake
           \/ Answered(u, "error") /\ BeginAgain(u)
     \/ /\ Limit!Refuse(Host)
        /\ Answered(u, "limited") /\ BeginAgain(u)
        /\ UNCHANGED who
  /\ UNCHANGED <<project, left, notes, api>>

------------------------------------------------------------------------------
(* Requests about tasks.                                                   *)

\* POST /projects: the id is known if the answer is 201.
CreateProject(u) ==
  \/ Answered(u, "ok") /\ project' = [project EXCEPT ![u] = TRUE]
  \/ Answered(u, "error") /\ UNCHANGED project

CreateTask(u) ==
  \/ \E t \in Task :
       /\ status[t] = "none"
       /\ status' = [status EXCEPT ![t] = "TODO"]
       /\ \/ Answered(u, "ok") /\ Notes(u, t, "TODO")
          \/ Answered(u, "error") /\ UNCHANGED notes
       /\ UNCHANGED unheard
  \/ Answered(u, "error") /\ UNCHANGED <<notes, api>>

\* A request about t that changes nothing.
Read(u, t) ==
  /\ \/ Answered(u, IF Active(t) THEN "ok" ELSE "refused")
     \/ Answered(u, "error")
  /\ UNCHANGED <<project, notes, api>>

\* Mutant: the user notes the new status whatever the answer is.
ChangeUnchecked(u, t, granted, s, n) ==
  /\ \/ /\ granted
        /\ status' = [status EXCEPT ![t] = s]
        /\ \/ Answered(u, "ok") /\ unheard' = unheard \ {t}
           \/ Answered(u, "error") /\ unheard' = unheard \cup {t}
     \/ ~granted /\ Answered(u, "refused") /\ UNCHANGED api
     \/ Answered(u, "error") /\ UNCHANGED api
  /\ Notes(u, t, n)
  /\ UNCHANGED project

\* A request that makes the status of t s, if it is granted: the user notes n
\* when it is told so.  An error may mean that it took effect, or not.
Change(u, t, granted, s, n) ==
  /\ \/ /\ granted
        /\ status' = [status EXCEPT ![t] = s]
        /\ \/ Answered(u, "ok") /\ Notes(u, t, n) /\ unheard' = unheard \ {t}
           \/ /\ Answered(u, "error") /\ UNCHANGED notes
              /\ unheard' = unheard \cup {t}
     \/ ~granted /\ Answered(u, "refused") /\ UNCHANGED <<notes, api>>
     \/ Answered(u, "error") /\ UNCHANGED <<notes, api>>
  /\ UNCHANGED project

Patch(u, t, s) ==
  Change(u, t, Active(t) /\ TransitionAllowed(status[t], s), s, s)

------------------------------------------------------------------------------
(* BrowseTasks.                                                            *)

\* on_start, after the login: a project and its tasks.
FirstProject(u) ==
  /\ stage[u] = "project"
  /\ CreateProject(u)
  /\ IF project'[u] /\ SeedTasks > 0
     THEN Goes(u, "seed") /\ left' = [left EXCEPT ![u] = SeedTasks]
     ELSE Goes(u, "ready") /\ UNCHANGED left
  /\ UNCHANGED <<wake, notes, api, who, limiter>>

\* Mutant: the loop runs once more.
FirstTaskOneMore(u) ==
  /\ stage[u] = "seed"
  /\ CreateTask(u)
  /\ left' = [left EXCEPT ![u] = @ - 1]
  /\ IF left[u] = 0 THEN Goes(u, "ready") ELSE UNCHANGED stage
  /\ UNCHANGED <<wake, project, who, limiter>>

FirstTask(u) ==
  /\ stage[u] = "seed"
  /\ CreateTask(u)
  /\ left' = [left EXCEPT ![u] = @ - 1]
  /\ IF left[u] = 1 THEN Goes(u, "ready") ELSE UNCHANGED stage
  /\ UNCHANGED <<wake, project, who, limiter>>

\* GETs of lists, of the project, of a task, of its comments, of /health.
Browse(u) ==
  /\ stage[u] = "ready" /\ Class[u] = "browse"
  /\ \/ \E a \in {"ok", "error"} : Answered(u, a) /\ UNCHANGED <<project, notes, api>>
     \/ project[u] /\ \E t \in Known(u) : Read(u, t)
  /\ UNCHANGED <<stage, wake, left, who, limiter>>

------------------------------------------------------------------------------
(* CreateAndManageTasks.                                                   *)

\* Mutant: the review is left out.
NextStatusShort == [TODO |-> "IN_PROGRESS", IN_PROGRESS |-> "DONE"]

\* advance_task_status follows one path through the statuses.
NextStatus ==
  [TODO |-> "IN_PROGRESS", IN_PROGRESS |-> "IN_REVIEW", IN_REVIEW |-> "DONE"]

Advance(u) ==
  \E t \in Known(u) :
    /\ notes[u][t] \in DOMAIN NextStatus
    /\ Patch(u, t, NextStatus[notes[u][t]])

Cancel(u) ==
  \E t \in Known(u) :
    /\ notes[u][t] \in {"TODO", "IN_PROGRESS", "IN_REVIEW"}
    /\ Patch(u, t, "CANCELLED")

\* add_comment, list_comments
Comment(u) == \E t \in Known(u) : Read(u, t)

\* delete_task takes a task that is done or cancelled off the notes.
Delete(u) ==
  \E t \in Known(u) :
    /\ notes[u][t] \in {"DONE", "CANCELLED"}
    /\ Change(u, t, Active(t), "deleted", "none")

Manage(u) ==
  /\ stage[u] = "ready" /\ Class[u] = "write"
  /\ \/ CreateProject(u) /\ UNCHANGED <<notes, api>>
     \/ project[u] /\ CreateTask(u) /\ UNCHANGED project
     \/ Advance(u) \/ Cancel(u) \/ Comment(u) \/ Delete(u)
  /\ UNCHANGED <<stage, wake, left, who, limiter>>

------------------------------------------------------------------------------
(* AuthVerifyUser.                                                         *)

\* A call, the disclosure page and the logout; answers are not looked at.
Verify(u) ==
  /\ \E a \in {"ok", "error"} : Answered(u, a)
  /\ \/ stage[u] = "call" /\ Goes(u, "disclosure") /\ UNCHANGED wake
     \/ stage[u] = "disclosure" /\ Goes(u, "logout") /\ UNCHANGED wake
     \/ stage[u] = "logout" /\ BeginAgain(u)
  /\ UNCHANGED <<project, left, notes, api, who, limiter>>

------------------------------------------------------------------------------

Tick ==
  /\ Limit!Tick
  /\ UNCHANGED <<stage, wake, project, left, notes, answer, api, who>>

Next ==
  \/ \E u \in User :
       \/ Register(u) \/ Login(u)
       \/ FirstProject(u) \/ FirstTask(u) \/ Browse(u)
       \/ Manage(u) \/ Verify(u)
  \/ Tick

Spec == Init /\ [][Next]_vars

------------------------------------------------------------------------------
(* Properties.                                                             *)

TypeOK ==
  /\ stage \in [User -> {"register", "login", "project", "seed", "ready",
                         "call", "disclosure", "logout"}]
  /\ wake \in [User -> Nat]
  /\ project \in [User -> BOOLEAN]
  /\ left \in [User -> 0..SeedTasks]
  /\ notes \in [User -> [Task -> TaskStatus \cup {"none"}]]
  /\ answer \in [User -> {"none", "ok", "refused", "limited", "error"}]
  /\ status \in [Task -> TaskStatus \cup {"none", "deleted"}]
  /\ unheard \subseteq Task
  /\ who \in Seq(User)
  /\ Limit!TypeOK

\* The notes are never ahead of the API: they are right, or one change that
\* the user asked for and was not told of behind.
NotesAreClose ==
  \A u \in User : \A t \in Known(u) :
    \/ status[t] = notes[u][t]
    \/ t \in unheard /\ (IF notes[u][t] \in Terminal
                         THEN status[t] = "deleted"
                         ELSE status[t] \in {"CANCELLED", NextStatus[notes[u][t]]})

\* A refusal (404 or 422) is never the user's own doing: it comes only after
\* an answer that was lost, and so a load without errors has no failures.
RefusedAfterLossOnly ==
  \A u \in User : answer[u] = "refused" => Known(u) \cap unheard # {}

\* "Rate limited to one register/login cycle per 6 seconds to stay under 10
\* logins/min": who verifies is never refused for its own logins alone, only
\* when others at the address have used up some of the window.
OwnPaceIsSafe ==
  \A u \in User :
    Class[u] = "verify" /\ answer[u] = "limited" =>
      \E i \in DOMAIN who : who[i] # u /\ Len(who) < i + Max
=============================================================================
