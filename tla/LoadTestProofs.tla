--------------------------- MODULE LoadTestProofs ---------------------------
(***************************************************************************)
(* Proofs about LoadTest, for any users of the three classes, any tasks,   *)
(* and any limit and pace that LoadAssumption allows.  What is known of    *)
(* the limiter is taken from RateLimiterProofs.                            *)
(***************************************************************************)
EXTENDS LoadTest, SequenceTheorems, TLAPS

R == INSTANCE RateLimiterProofs WITH Address <- {Host}

------------------------------------------------------------------------------
(* The inductive invariant.                                                *)

Stages == {"register", "login", "project", "seed", "ready", "call",
           "disclosure", "logout"}
Answers == {"none", "ok", "refused", "limited", "error"}
Statuses == TaskStatus \cup {"none", "deleted"}
Noted == TaskStatus \cup {"none"}

\* What the status of a task may be when its user heard of x last.
Lag(x) == IF x \in Terminal THEN {"deleted"} ELSE {"CANCELLED", NextStatus[x]}

Close(u, t) ==
  \/ status[t] = notes[u][t]
  \/ t \in unheard /\ status[t] \in Lag(notes[u][t])

\* What the status of t may be when its user has noted n.
Explained(n, t) ==
  n # "none" => status[t] = n \/ (t \in unheard /\ status[t] \in Lag(n))

\* A task is known to the user that created it, and to nobody else.
Apart == \A u, v \in User : u # v => Known(u) \cap Known(v) = {}

Heard == \A u \in User : answer[u] = "refused" => Known(u) \cap unheard # {}

\* The part about tasks.
NotesInv ==
  /\ notes \in [User -> [Task -> Noted]]
  /\ answer \in [User -> Answers]
  /\ status \in [Task -> Statuses]
  /\ unheard \subseteq Task
  /\ \A u \in User : \A t \in Known(u) : Close(u, t)
  /\ Apart
  /\ Heard

\* The part about the methods that users are in.
StageInv ==
  /\ stage \in [User -> Stages]
  /\ wake \in [User -> Nat]
  /\ project \in [User -> BOOLEAN]
  /\ left \in [User -> 0..SeedTasks]
  /\ \A u \in User : stage[u] = "seed" => left[u] # 0

\* The least time between the first and the last of n + 1 logins of a user.
Spacing(n) == n * (Pace + 1)

Entry(i) == log[Host][i]

\* Logins of a verifying user that no other login separates are spaced.
Paced ==
  \A v \in User : Class[v] = "verify" =>
    \A i, j \in 1..Len(who) :
      i <= j /\ (\A k \in i..j : who[k] = v) =>
        Entry(i) + Spacing(j - i) <= Entry(j)

\* A verifying user that is to register or log in has waited since its last
\* login, or is waiting.
Rested ==
  \A v \in User : Class[v] = "verify" =>
    \A i \in 1..Len(who) : who[i] = v =>
      /\ stage[v] = "register" => Entry(i) + Pace + 1 <= wake[v]
      /\ stage[v] = "login" => Entry(i) + Pace + 1 <= now

\* The part about logins.
PaceInv ==
  /\ R!IInv
  /\ who \in Seq(User) /\ Len(who) = Len(log[Host])
  /\ Paced
  /\ Rested
  /\ OwnPaceIsSafe

IndInv == NotesInv /\ StageInv /\ PaceInv

------------------------------------------------------------------------------
(* Statuses.                                                               *)

LEMMA Workflow ==
  /\ Terminal = {"DONE", "CANCELLED"}
  /\ DOMAIN NextStatus = {"TODO", "IN_PROGRESS", "IN_REVIEW"}
  /\ NextStatus["TODO"] = "IN_PROGRESS"
  /\ NextStatus["IN_PROGRESS"] = "IN_REVIEW"
  /\ NextStatus["IN_REVIEW"] = "DONE"
<1>1. /\ VALID_TRANSITIONS["TODO"] = {"IN_PROGRESS", "CANCELLED"}
      /\ VALID_TRANSITIONS["IN_PROGRESS"] = {"IN_REVIEW", "TODO", "CANCELLED"}
      /\ VALID_TRANSITIONS["IN_REVIEW"] = {"IN_PROGRESS", "DONE", "CANCELLED"}
      /\ VALID_TRANSITIONS["DONE"] = {} /\ VALID_TRANSITIONS["CANCELLED"] = {}
  BY DEF VALID_TRANSITIONS, TaskStatus
<1>2. Terminal = {"DONE", "CANCELLED"}
  BY <1>1 DEF Terminal, TaskStatus
<1> QED
  BY <1>2 DEF NextStatus

\* A change that the notes allow is granted when the notes are right.
LEMMA NotedIsGranted ==
  ASSUME NEW x \in {"TODO", "IN_PROGRESS", "IN_REVIEW"},
         NEW s \in {"CANCELLED", NextStatus[x]}
  PROVE  /\ s \in TaskStatus
         /\ s \in Lag(x)
         /\ x \in TaskStatus /\ TransitionAllowed(x, s)
  BY Workflow DEF Lag, TransitionAllowed, VALID_TRANSITIONS, TaskStatus

LEMMA LagIsAStatus ==
  ASSUME NEW x \in TaskStatus
  PROVE  Lag(x) \subseteq (TaskStatus \cup {"deleted"}) \ {"none"}
  BY Workflow DEF Lag, TaskStatus

LEMMA NotesProperties == IndInv => NotesAreClose /\ RefusedAfterLossOnly
<1> SUFFICES ASSUME IndInv PROVE NotesAreClose /\ RefusedAfterLossOnly
  OBVIOUS
<1>1. \A u \in User : \A t \in Known(u) : Close(u, t)
  BY DEF IndInv, NotesInv
<1>2. NotesAreClose
  BY <1>1, Zenon DEF NotesAreClose, Close, Lag
<1> QED
  BY <1>2 DEF IndInv, NotesInv, Heard, RefusedAfterLossOnly

------------------------------------------------------------------------------
(* The notes.                                                              *)

LEMMA KnownIs ==
  ASSUME NEW u \in User, NEW t
  PROVE  t \in Known(u) <=> t \in Task /\ notes[u][t] # "none"
  BY DEF Known

\* A user got an answer that is no refusal, and nothing about tasks changed.
LEMMA OnlyAnswered ==
  ASSUME NotesInv, NEW u \in User, NEW a \in Answers \ {"refused"},
         Answered(u, a), UNCHANGED <<notes, api>>
  PROVE  NotesInv'
<1>1. /\ answer' = [answer EXCEPT ![u] = a]
      /\ notes' = notes /\ status' = status /\ unheard' = unheard
      /\ answer \in [User -> Answers]
  BY DEF Answered, api, NotesInv
<1>2. answer' \in [User -> Answers] /\ \A v \in User :
        answer'[v] = "refused" => answer[v] = "refused"
  BY <1>1
<1>3. \A v \in User : Known(v)' = Known(v)
  BY <1>1 DEF Known
<1>4. Heard'
  BY <1>1, <1>2, <1>3 DEF Heard, NotesInv
<1>5. Apart' /\ \A v \in User : \A t \in Known(v)' : Close(v, t)'
  BY <1>1, <1>3 DEF Apart, Close, NotesInv
<1> QED
  BY <1>1, <1>2, <1>4, <1>5 DEF NotesInv

LEMMA NothingAsked ==
  ASSUME NotesInv, UNCHANGED <<notes, answer, api>>
  PROVE  NotesInv'
<1>1. notes' = notes /\ answer' = answer /\ status' = status /\ unheard' = unheard
  BY DEF api
<1>2. \A v \in User : Known(v)' = Known(v)
  BY <1>1 DEF Known
<1>3. Apart' /\ Heard' /\ \A v \in User : \A t \in Known(v)' : Close(v, t)'
  BY <1>1, <1>2 DEF Apart, Heard, Close, NotesInv
<1> QED
  BY <1>1, <1>3 DEF NotesInv

\* A user notes n of task t, and only the status of t may have changed.
LEMMA NoteTaken ==
  ASSUME NotesInv, NEW u \in User, NEW t \in Task,
         \A v \in User \ {u} : t \notin Known(v),
         NEW n \in Noted, notes' = [notes EXCEPT ![u][t] = n],
         status' \in [Task -> Statuses],
         \A x \in Task \ {t} : status'[x] = status[x],
         unheard' \subseteq Task, unheard \ {t} \subseteq unheard',
         Explained(n, t)',
         NEW a \in Answers, Answered(u, a),
         a = "refused" => n # "none" /\ t \in unheard'
  PROVE  NotesInv'
<1>1. /\ notes \in [User -> [Task -> Noted]] /\ answer \in [User -> Answers]
      /\ answer' = [answer EXCEPT ![u] = a]
      /\ \A v \in User : \A x \in Known(v) : Close(v, x)
      /\ Apart /\ Heard
  BY DEF NotesInv, Answered
<1>2. /\ notes' \in [User -> [Task -> Noted]] /\ answer' \in [User -> Answers]
      /\ notes'[u][t] = n /\ answer'[u] = a
      /\ \A x \in Task \ {t} : notes'[u][x] = notes[u][x]
      /\ \A v \in User \ {u} : notes'[v] = notes[v] /\ answer'[v] = answer[v]
  BY <1>1
<1>3. \A v \in User : \A x \in Task \ {t} : notes'[v][x] = notes[v][x]
  BY <1>2
<1>4. \A v \in User \ {u} : Known(v)' = Known(v) /\ t \notin Known(v)
  BY <1>2 DEF Known
<1>5. Known(u)' \ {t} = Known(u) \ {t}
  BY <1>3 DEF Known
<1>6. \A v \in User : \A x \in Known(v)' : Close(v, x)'
  <2> SUFFICES ASSUME NEW v \in User, NEW x \in Known(v)' PROVE Close(v, x)'
    OBVIOUS
  <2>1. CASE x = t
    <3>1. v = u /\ n # "none"
      BY <2>1, <1>2, <1>4 DEF Known
    <3> QED BY <2>1, <3>1, <1>2 DEF Close, Explained
  <2>2. CASE x # t
    <3>1. x \in Known(v) /\ x \in Task
      BY <2>2, <1>4, <1>5 DEF Known
    <3>2. Close(v, x) /\ notes'[v][x] = notes[v][x] /\ status'[x] = status[x]
      BY <2>2, <3>1, <1>1, <1>3
    <3>3. x \in unheard => x \in unheard'
      BY <2>2
    <3> QED BY <3>2, <3>3 DEF Close
  <2> QED BY <2>1, <2>2
<1>7. Apart'
  <2> SUFFICES ASSUME NEW v \in User, NEW w \in User, v # w
               PROVE  Known(v)' \cap Known(w)' = {}
    BY DEF Apart
  <2>1. Known(v) \cap Known(w) = {}
    BY <1>1 DEF Apart
  <2>2. Known(v)' \subseteq Known(v) \cup {t} /\ Known(w)' \subseteq Known(w) \cup {t}
    BY <1>4, <1>5
  <2>3. t \notin Known(v)' \/ t \notin Known(w)'
    BY <1>4
  <2> QED BY <2>1, <2>2, <2>3
<1>8. Heard'
  <2> SUFFICES ASSUME NEW v \in User, answer'[v] = "refused"
               PROVE  Known(v)' \cap unheard' # {}
    BY DEF Heard
  <2>1. CASE v = u
    <3>1. n # "none" /\ t \in unheard'
      BY <2>1, <1>2
    <3>2. t \in Known(u)'
      BY <3>1, <1>2 DEF Known
    <3> QED BY <2>1, <3>1, <3>2
  <2>2. CASE v # u
    <3>1. PICK x \in Known(v) : x \in unheard
      BY <2>2, <1>1, <1>2 DEF Heard
    <3>2. x # t /\ x \in Known(v)'
      BY <2>2, <3>1, <1>4
    <3> QED BY <3>1, <3>2
  <2> QED BY <2>1, <2>2
<1> QED
  BY <1>2, <1>6, <1>7, <1>8 DEF NotesInv

\* What holds of a task that a user knows.
LEMMA KnownTask ==
  ASSUME NotesInv, NEW u \in User, NEW t \in Known(u)
  PROVE  /\ t \in Task /\ notes[u][t] \in TaskStatus /\ Close(u, t)
         /\ \A v \in User \ {u} : t \notin Known(v)
         /\ notes = [notes EXCEPT ![u][t] = notes[u][t]]
<1>1. t \in Task /\ notes[u][t] # "none" /\ notes \in [User -> [Task -> Noted]]
  BY DEF Known, NotesInv
<1>2. notes[u][t] \in TaskStatus
  BY <1>1 DEF Noted
<1>3. Close(u, t) /\ \A v \in User \ {u} : t \notin Known(v)
  BY DEF NotesInv, Apart
<1> QED
  BY <1>1, <1>2, <1>3

\* A change that is within the lag of the notes, and is granted if they are
\* right, keeps them close.
LEMMA ChangeKeeps ==
  ASSUME NotesInv, NEW u \in User, NEW t \in Known(u),
         NEW granted \in BOOLEAN, NEW s \in Lag(notes[u][t]),
         NEW n \in Noted, n # "none" => n = s,
         status[t] = notes[u][t] => granted,
         Change(u, t, granted, s, n)
  PROVE  NotesInv'
<1> DEFINE o == notes[u][t]
<1>1. /\ t \in Task /\ o \in TaskStatus /\ Close(u, t)
      /\ \A v \in User \ {u} : t \notin Known(v)
      /\ notes = [notes EXCEPT ![u][t] = o]
  BY KnownTask
<1>2. status \in [Task -> Statuses] /\ unheard \subseteq Task
  BY DEF NotesInv
<1>3. s \in Statuses /\ o \in Noted /\ o # "none"
  BY <1>1, LagIsAStatus DEF Statuses, Noted, TaskStatus
<1>4. CASE /\ status' = [status EXCEPT ![t] = s]
           /\ Answered(u, "ok") /\ Notes(u, t, n) /\ unheard' = unheard \ {t}
  <2>1. /\ notes' = [notes EXCEPT ![u][t] = n]
        /\ status' \in [Task -> Statuses] /\ status'[t] = s
        /\ \A x \in Task \ {t} : status'[x] = status[x]
        /\ unheard' \subseteq Task /\ unheard \ {t} \subseteq unheard'
    BY <1>1, <1>2, <1>3, <1>4 DEF Notes
  <2>2. Explained(n, t)'
    BY <2>1 DEF Explained
  <2> QED
    BY <1>1, <1>4, <2>1, <2>2, NoteTaken DEF Answers
<1>5. CASE /\ status' = [status EXCEPT ![t] = s]
           /\ Answered(u, "error") /\ UNCHANGED notes
           /\ unheard' = unheard \cup {t}
  <2>1. /\ notes' = [notes EXCEPT ![u][t] = o]
        /\ status' \in [Task -> Statuses] /\ status'[t] = s
        /\ \A x \in Task \ {t} : status'[x] = status[x]
        /\ unheard' \subseteq Task /\ unheard \ {t} \subseteq unheard'
        /\ t \in unheard' /\ status'[t] \in Lag(o)
    BY <1>1, <1>2, <1>3, <1>5
  <2>2. Explained(o, t)'
    BY <2>1 DEF Explained
  <2> QED
    BY <1>1, <1>3, <1>5, <2>1, <2>2, NoteTaken DEF Answers
<1>6. CASE ~granted /\ Answered(u, "refused") /\ UNCHANGED <<notes, api>>
  <2>1. t \in unheard /\ status[t] \in Lag(o)
    BY <1>1, <1>6 DEF Close
  <2>2. notes' = [notes EXCEPT ![u][t] = o] /\ status' = status /\ unheard' = unheard
    BY <1>1, <1>6 DEF api
  <2>3. Explained(o, t)'
    BY <2>1, <2>2 DEF Explained
  <2> QED
    BY <1>1, <1>2, <1>3, <1>6, <2>1, <2>2, <2>3, NoteTaken DEF Answers
<1>7. CASE Answered(u, "error") /\ UNCHANGED <<notes, api>>
  BY <1>7, OnlyAnswered DEF Answers
<1> QED
  BY <1>4, <1>5, <1>6, <1>7 DEF Change

\* A user creates a task: nobody knows its id before.
LEMMA CreateKeeps ==
  ASSUME NotesInv, NEW u \in User, CreateTask(u)
  PROVE  NotesInv'
<1>1. CASE Answered(u, "error") /\ UNCHANGED <<notes, api>>
  BY <1>1, OnlyAnswered DEF Answers
<1>2. CASE \E t \in Task :
             /\ status[t] = "none"
             /\ status' = [status EXCEPT ![t] = "TODO"]
             /\ \/ Answered(u, "ok") /\ Notes(u, t, "TODO")
                \/ Answered(u, "error") /\ UNCHANGED notes
             /\ UNCHANGED unheard
  <2>1. PICK t \in Task :
             /\ status[t] = "none"
             /\ status' = [status EXCEPT ![t] = "TODO"]
             /\ \/ Answered(u, "ok") /\ Notes(u, t, "TODO")
                \/ Answered(u, "error") /\ UNCHANGED notes
             /\ UNCHANGED unheard
    BY <1>2
  <2>2. \A v \in User : t \notin Known(v)
    <3> SUFFICES ASSUME NEW v \in User, t \in Known(v) PROVE FALSE
      OBVIOUS
    <3>1. notes[v][t] \in TaskStatus /\ Close(v, t)
      BY KnownTask
    <3>2. "none" \notin TaskStatus /\ "none" \notin Lag(notes[v][t])
      BY <3>1, LagIsAStatus DEF TaskStatus
    <3> QED BY <2>1, <3>1, <3>2 DEF Close
  <2>3. /\ notes \in [User -> [Task -> Noted]]
        /\ status \in [Task -> Statuses] /\ unheard \subseteq Task
    BY DEF NotesInv
  <2>4. /\ status' \in [Task -> Statuses] /\ status'[t] = "TODO"
        /\ \A x \in Task \ {t} : status'[x] = status[x]
        /\ unheard' \subseteq Task /\ unheard \ {t} \subseteq unheard'
    BY <2>1, <2>3 DEF Statuses, TaskStatus
  <2>5. CASE Answered(u, "ok") /\ Notes(u, t, "TODO")
    <3>1. notes' = [notes EXCEPT ![u][t] = "TODO"] /\ "TODO" \in Noted
      BY <2>5 DEF Notes, Noted, TaskStatus
    <3>2. Explained("TODO", t)'
      BY <2>4 DEF Explained
    <3> QED
      BY <2>2, <2>4, <2>5, <3>1, <3>2, NoteTaken DEF Answers
  <2>6. CASE Answered(u, "error") /\ UNCHANGED notes
    <3>1. notes[u][t] = "none"
      BY <2>2 DEF Known
    <3>2. notes' = [notes EXCEPT ![u][t] = "none"] /\ "none" \in Noted
      BY <2>3, <2>6, <3>1 DEF Noted
    <3>3. Explained("none", t)'
      BY DEF Explained
    <3> QED
      BY <2>2, <2>4, <2>6, <3>2, <3>3, NoteTaken DEF Answers
  <2> QED
    BY <2>1, <2>5, <2>6
<1> QED
  BY <1>1, <1>2 DEF CreateTask

LEMMA ReadKeeps ==
  ASSUME NotesInv, NEW u \in User, NEW t \in Known(u), Read(u, t)
  PROVE  NotesInv'
<1> DEFINE o == notes[u][t]
<1>1. /\ t \in Task /\ o \in TaskStatus /\ Close(u, t)
      /\ \A v \in User \ {u} : t \notin Known(v)
      /\ notes = [notes EXCEPT ![u][t] = o]
  BY KnownTask
<1>2. notes' = notes /\ status' = status /\ unheard' = unheard
  BY DEF Read, api
<1>3. CASE Answered(u, "ok") \/ Answered(u, "error")
  BY <1>2, <1>3, OnlyAnswered DEF Answers, api
<1>4. CASE Answered(u, "refused") /\ ~Active(t)
  <2>1. t \in unheard /\ status[t] \in Lag(o)
    BY <1>1, <1>4 DEF Close, Active
  <2>2. Explained(o, t)'
    BY <1>2, <2>1 DEF Explained
  <2>3. status \in [Task -> Statuses] /\ unheard \subseteq Task
    BY DEF NotesInv
  <2>4. o \in Noted /\ o # "none"
    BY <1>1 DEF Noted, TaskStatus
  <2> QED
    BY <1>1, <1>2, <1>4, <2>1, <2>2, <2>3, <2>4, NoteTaken DEF Answers
<1> QED
  BY <1>3, <1>4 DEF Read

LEMMA PatchKeeps ==
  ASSUME NotesInv, NEW u \in User, NEW t \in Known(u),
         notes[u][t] \in {"TODO", "IN_PROGRESS", "IN_REVIEW"},
         NEW s \in {"CANCELLED", NextStatus[notes[u][t]]}, Patch(u, t, s)
  PROVE  NotesInv'
<1> DEFINE granted == Active(t) /\ TransitionAllowed(status[t], s)
<1>1. /\ s \in TaskStatus /\ s \in Lag(notes[u][t])
      /\ notes[u][t] \in TaskStatus /\ TransitionAllowed(notes[u][t], s)
  BY NotedIsGranted
<1>2. granted \in BOOLEAN
  BY DEF Active, TransitionAllowed
<1>3. status[t] = notes[u][t] => granted
  BY <1>1 DEF Active
<1>4. s \in Noted
  BY <1>1 DEF Noted
<1>5. Change(u, t, granted, s, s)
  BY DEF Patch
<1> HIDE DEF granted
<1> QED
  BY <1>1, <1>2, <1>3, <1>4, <1>5, ChangeKeeps

LEMMA DeleteKeeps ==
  ASSUME NotesInv, NEW u \in User, Delete(u)
  PROVE  NotesInv'
<1>1. PICK t \in Known(u) : /\ notes[u][t] \in {"DONE", "CANCELLED"}
                            /\ Change(u, t, Active(t), "deleted", "none")
  BY DEF Delete
<1>2. "deleted" \in Lag(notes[u][t]) /\ "none" \in Noted /\ Active(t) \in BOOLEAN
  BY <1>1, Workflow DEF Lag, Noted, Active
<1>3. status[t] = notes[u][t] => Active(t)
  BY <1>1 DEF Active, TaskStatus
<1> QED
  BY <1>1, <1>2, <1>3, ChangeKeeps

LEMMA ManageKeeps ==
  ASSUME NotesInv, NEW u \in User, Manage(u)
  PROVE  NotesInv'
<1>1. CASE CreateProject(u) /\ UNCHANGED <<notes, api>>
  BY <1>1, OnlyAnswered DEF CreateProject, Answers
<1>2. CASE CreateTask(u)
  BY <1>2, CreateKeeps
<1>3. CASE Advance(u)
  <2>1. PICK t \in Known(u) : /\ notes[u][t] \in DOMAIN NextStatus
                              /\ Patch(u, t, NextStatus[notes[u][t]])
    BY <1>3 DEF Advance
  <2> QED BY <2>1, Workflow, PatchKeeps
<1>4. CASE Cancel(u)
  BY <1>4, PatchKeeps DEF Cancel
<1>5. CASE Comment(u)
  BY <1>5, ReadKeeps DEF Comment
<1>6. CASE Delete(u)
  BY <1>6, DeleteKeeps
<1> QED
  BY <1>1, <1>2, <1>3, <1>4, <1>5, <1>6 DEF Manage

LEMMA NotesStep ==
  ASSUME NotesInv, [Next]_vars
  PROVE  NotesInv'
<1>1. CASE UNCHANGED vars
  BY <1>1, NothingAsked DEF vars
<1>2. CASE Tick
  BY <1>2, NothingAsked DEF Tick
<1>3. ASSUME NEW u \in User, Register(u) \/ Login(u) \/ Verify(u)
      PROVE  NotesInv'
  <2>1. UNCHANGED <<notes, api>>
    BY <1>3, Zenon DEF Register, Login, Verify
  <2>2. \E a \in Answers \ {"refused"} : Answered(u, a)
    BY <1>3 DEF Register, Login, Verify, Answers
  <2> QED BY <2>1, <2>2, OnlyAnswered
<1>4. ASSUME NEW u \in User, FirstProject(u)
      PROVE  NotesInv'
  BY <1>4, OnlyAnswered DEF FirstProject, CreateProject, Answers
<1>5. ASSUME NEW u \in User, FirstTask(u)
      PROVE  NotesInv'
  BY <1>5, CreateKeeps DEF FirstTask
<1>6. ASSUME NEW u \in User, Browse(u)
      PROVE  NotesInv'
  <2>1. CASE \E a \in {"ok", "error"} :
               Answered(u, a) /\ UNCHANGED <<project, notes, api>>
    BY <2>1, OnlyAnswered DEF Answers
  <2>2. CASE \E t \in Known(u) : Read(u, t)
    BY <2>2, ReadKeeps
  <2> QED BY <1>6, <2>1, <2>2 DEF Browse
<1>7. ASSUME NEW u \in User, Manage(u)
      PROVE  NotesInv'
  BY <1>7, ManageKeeps
<1> QED
  BY <1>1, <1>2, <1>3, <1>4, <1>5, <1>6, <1>7 DEF Next

------------------------------------------------------------------------------
(* The methods that users are in.                                          *)

\* A user goes on to another method, and may wait.
LEMMA StageMoves ==
  ASSUME StageInv, NEW u \in User, NEW s \in Stages, Goes(u, s),
         wake' \in [User -> Nat], project' \in [User -> BOOLEAN],
         left' \in [User -> 0..SeedTasks],
         s = "seed" => left'[u] # 0,
         \A v \in User \ {u} : left'[v] = left[v]
  PROVE  StageInv'
<1>1. stage' = [stage EXCEPT ![u] = s] /\ stage \in [User -> Stages]
  BY DEF Goes, StageInv
<1>2. stage' \in [User -> Stages] /\ stage'[u] = s
      /\ \A v \in User \ {u} : stage'[v] = stage[v]
  BY <1>1
<1> QED
  BY <1>2 DEF StageInv

LEMMA NobodyMoves ==
  ASSUME StageInv, UNCHANGED <<stage, wake, left>>, project' \in [User -> BOOLEAN]
  PROVE  StageInv'
  BY DEF StageInv

\* A user begins again; one that verifies waits before it does.
LEMMA BeginAgainMoves ==
  ASSUME StageInv, NEW u \in User, BeginAgain(u), now \in Nat
  PROVE  wake' \in [User -> Nat]
<1>1. wake \in [User -> Nat] /\ Rest(u) \in Nat
  BY LoadAssumption DEF StageInv, Rest
<1> QED
  BY <1>1 DEF BeginAgain

LEMMA StageStep ==
  ASSUME StageInv, now \in Nat, [Next]_vars
  PROVE  StageInv'
<1>1. /\ stage \in [User -> Stages] /\ wake \in [User -> Nat]
      /\ project \in [User -> BOOLEAN] /\ left \in [User -> 0..SeedTasks]
      /\ SeedTasks \in Nat
  BY LoadAssumption DEF StageInv
<1>2. CASE UNCHANGED vars
  BY <1>1, <1>2, NobodyMoves DEF vars
<1>3. CASE Tick
  BY <1>1, <1>3, NobodyMoves DEF Tick
<1>4. ASSUME NEW u \in User, BeginAgain(u), UNCHANGED <<project, left>>
      PROVE  StageInv'
  BY <1>1, <1>4, BeginAgainMoves, StageMoves DEF BeginAgain, Stages
<1>5. ASSUME NEW u \in User, Register(u)
      PROVE  StageInv'
  BY <1>1, <1>4, <1>5, StageMoves DEF Register, Stages
<1>6. ASSUME NEW u \in User, Login(u)
      PROVE  StageInv'
  <2>1. AfterLogin(u) \in Stages /\ AfterLogin(u) # "seed"
    BY LoadAssumption DEF AfterLogin, Stages
  <2> QED BY <1>1, <1>4, <1>6, <2>1, StageMoves DEF Login
<1>7. ASSUME NEW u \in User, FirstProject(u)
      PROVE  StageInv'
  <2>1. project' \in [User -> BOOLEAN] /\ wake' = wake
    BY <1>1, <1>7 DEF FirstProject, CreateProject
  <2>2. CASE SeedTasks > 0 /\ Goes(u, "seed")
             /\ left' = [left EXCEPT ![u] = SeedTasks]
    <3>1. left' \in [User -> 0..SeedTasks] /\ left'[u] # 0
          /\ \A v \in User \ {u} : left'[v] = left[v]
      BY <1>1, <2>2
    <3> QED BY <1>1, <2>1, <2>2, <3>1, StageMoves DEF Stages
  <2>3. CASE Goes(u, "ready") /\ UNCHANGED left
    BY <1>1, <2>1, <2>3, StageMoves DEF Stages
  <2> QED BY <1>7, <2>2, <2>3 DEF FirstProject
<1>8. ASSUME NEW u \in User, FirstTask(u)
      PROVE  StageInv'
  <2>1. /\ stage[u] = "seed" /\ left' = [left EXCEPT ![u] = @ - 1]
        /\ wake' = wake /\ project' = project
        /\ IF left[u] = 1 THEN Goes(u, "ready") ELSE UNCHANGED stage
    BY <1>8 DEF FirstTask
  <2>2. left[u] \in 0..SeedTasks /\ left[u] # 0
    BY <1>1, <2>1 DEF StageInv
  <2>3. left[u] - 1 \in 0..SeedTasks
    BY <1>1, <2>2
  <2>4. left' \in [User -> 0..SeedTasks] /\ left'[u] = left[u] - 1
        /\ \A v \in User \ {u} : left'[v] = left[v]
    BY <1>1, <2>1, <2>3
  <2>5. CASE left[u] = 1
    BY <1>1, <2>1, <2>4, <2>5, StageMoves DEF Stages
  <2>6. CASE left[u] # 1
    <3>1. stage' = stage /\ left'[u] # 0
      BY <1>1, <2>1, <2>2, <2>4, <2>6
    <3> QED BY <1>1, <2>1, <2>4, <3>1 DEF StageInv
  <2> QED BY <2>5, <2>6
<1>9. ASSUME NEW u \in User, Browse(u)
      PROVE  StageInv'
  BY <1>1, <1>9, NobodyMoves DEF Browse, Read
<1>10. ASSUME NEW u \in User, Manage(u)
       PROVE  StageInv'
  <2>1. project' \in [User -> BOOLEAN]
    BY <1>1, <1>10 DEF Manage, CreateProject, Advance, Cancel, Comment, Delete,
         Patch, Change, Read
  <2> QED BY <1>1, <1>10, <2>1, NobodyMoves DEF Manage
<1>11. ASSUME NEW u \in User, Verify(u)
       PROVE  StageInv'
  BY <1>1, <1>4, <1>11, StageMoves DEF Verify, Stages
<1> QED
  BY <1>2, <1>3, <1>5, <1>6, <1>7, <1>8, <1>9, <1>10, <1>11 DEF Next

------------------------------------------------------------------------------
(* The limiter.                                                            *)

LEMMA LimiterAssumed ==
  /\ R!LimitAssumption
  /\ Max \in Nat \ {0} /\ Window \in Nat /\ Second \in Nat \ {0}
  /\ R!Width = Window * Second /\ R!Width \in Nat
<1>1. R!LimitAssumption
  BY LimiterAssumption DEF Limit!LimitAssumption, R!LimitAssumption
<1>2. Max \in Nat \ {0} /\ Window \in Nat /\ Second \in Nat \ {0}
  BY <1>1 DEF R!LimitAssumption
<1>3. Window * Second \in Nat
  BY <1>2, SMT
<1> QED
  BY <1>1, <1>2, <1>3 DEF R!Width

LEMMA SameLimiter ==
  /\ Limit!Admit(Host) => R!Admit(Host)
  /\ Limit!Refuse(Host) => R!Refuse(Host)
  /\ Limit!Tick => R!Tick
  /\ Limit!Init => R!Init
  /\ R!TypeOK <=> Limit!TypeOK
<1>1. Limit!Admit(Host) => R!Admit(Host)
  BY DEF Limit!Admit, R!Admit, Limit!Outdated, R!Outdated, Limit!Kept, R!Kept,
    Limit!Width, R!Width
<1>2. Limit!Refuse(Host) => R!Refuse(Host)
  BY DEF Limit!Refuse, R!Refuse, Limit!Outdated, R!Outdated, Limit!Kept, R!Kept,
    Limit!Width, R!Width, Limit!RetryAfter, R!RetryAfter
<1>3. /\ Limit!Tick => R!Tick
      /\ Limit!Init => R!Init
      /\ R!TypeOK <=> Limit!TypeOK
  BY DEF Limit!Tick, R!Tick, Limit!Init, R!Init, Limit!TypeOK, R!TypeOK,
    Limit!Refusal, R!Refusal
<1> QED
  BY <1>1, <1>2, <1>3

\* What the invariant of the limiter says of the log of Host.
LEMMA LogProperties ==
  ASSUME R!IInv
  PROVE  /\ now \in Nat /\ log[Host] \in Seq(Nat) /\ Len(log[Host]) \in Nat
         /\ \A i \in 1..Len(log[Host]) : Entry(i) \in Nat /\ Entry(i) <= now
<1>1. R!TypeOK /\ R!Consistent(buckets[Host], log[Host], now)
  BY DEF R!IInv, R!Sound
<1>2. now \in Nat /\ log[Host] \in Seq(Nat)
  BY <1>1 DEF R!TypeOK
<1>3. Len(log[Host]) \in Nat /\ \A i \in 1..Len(log[Host]) : log[Host][i] \in Nat
  BY <1>2, LenProperties, ElementOfSeq
<1> QED
  BY <1>1, <1>2, <1>3 DEF R!Consistent, Entry

LEMMA AdmitFacts ==
  ASSUME R!IInv, Limit!Admit(Host)
  PROVE  R!IInv' /\ now' = now /\ log'[Host] = Append(log[Host], now)
<1>1. R!Admit(Host) /\ R!LimitAssumption /\ R!TypeOK
  BY SameLimiter, LimiterAssumed DEF R!IInv
<1>2. R!OnlyFor(Host) /\ log'[Host] = Append(log[Host], now)
  BY <1>1, R!AdmitEffect
<1>3. R!IInv'
  BY <1>1, R!AdmitInvariant
<1> QED
  BY <1>2, <1>3 DEF R!OnlyFor

\* A refusal means that the last Max logins are within the window.
LEMMA RefuseFacts ==
  ASSUME R!IInv, Limit!Refuse(Host)
  PROVE  /\ R!IInv' /\ now' = now /\ log' = log
         /\ Max <= Len(log[Host])
         /\ now <= Entry(Len(log[Host]) - Max + 1) + R!Width
<1>1. R!Refuse(Host) /\ R!LimitAssumption /\ R!TypeOK
  BY SameLimiter, LimiterAssumed DEF R!IInv
<1> DEFINE b == buckets[Host]
           l == log[Host]
<1>2. R!Consistent(b, l, now)
  BY DEF R!IInv, R!Sound
<1>3. b \in Seq(Nat) /\ Len(b) \in Nat /\ Len(l) \in Nat /\ Len(b) <= Len(l)
      /\ Len(b) <= Max
      /\ \A i \in 1..Len(b) : b[i] \in Nat /\ b[i] = l[Len(l) - Len(b) + i]
  BY <1>1, <1>2, R!TypeOfAddress, LogProperties DEF R!Consistent
<1>4. \A i \in 1..Len(b) : b[i] <= now
  <2>1. ASSUME NEW m \in Nat, NEW n \in Nat, m <= n, NEW i \in 1..m
        PROVE  n - m + i \in 1..n
    BY <2>1, SMT
  <2>2. \A i \in 1..Len(b) : Len(l) - Len(b) + i \in 1..Len(l)
    BY <1>3, <2>1
  <2> QED BY <1>3, <2>2, LogProperties DEF Entry
<1>5. Len(b) = Max /\ now <= b[1] + R!Width /\ R!OnlyFor(Host) /\ log' = log
  BY <1>1, <1>4, R!RefuseEffect
<1>6. R!IInv'
  BY <1>1, R!RefuseInvariant
<1>7. 1 \in 1..Len(b)
  BY <1>5, LimiterAssumed
<1>8. b[1] = l[Len(l) - Max + 1]
  BY <1>3, <1>5, <1>7
<1> QED
  BY <1>3, <1>5, <1>6, <1>8 DEF Entry, R!OnlyFor

LEMMA TickFacts ==
  ASSUME R!IInv, Limit!Tick
  PROVE  R!IInv' /\ now' = now + 1 /\ log' = log
<1>1. R!Tick /\ R!LimitAssumption
  BY SameLimiter, LimiterAssumed
<1>2. R!IInv'
  BY <1>1, R!TickInvariant
<1> QED
  BY <1>1, <1>2 DEF R!Tick

LEMMA NothingLimited ==
  ASSUME R!IInv, UNCHANGED limiter
  PROVE  R!IInv'
<1>1. UNCHANGED R!vars
  BY DEF limiter, R!vars
<1> QED
  BY <1>1, LimiterAssumed, R!StepInvariant

------------------------------------------------------------------------------
(* The pace of the logins.                                                 *)

LEMMA SpacingAdds ==
  /\ Pace \in Nat
  /\ Spacing(0) = 0
  /\ \A n \in Nat : Spacing(n) \in Nat /\ Spacing(n + 1) = Spacing(n) + Pace + 1
<1>1. Pace \in Nat
  BY LoadAssumption
<1>2. ASSUME NEW n \in Nat
      PROVE  n * (Pace + 1) \in Nat
             /\ (n + 1) * (Pace + 1) = n * (Pace + 1) + Pace + 1
  BY <1>1, SMT
<1>3. 0 * (Pace + 1) = 0
  BY <1>1, SMT
<1> QED
  BY <1>1, <1>2, <1>3 DEF Spacing

\* The assumption on the pace: Max logins of a user take more than a window.
LEMMA SpacingSuffices ==
  /\ Max - 1 \in Nat
  /\ R!Width < Spacing(Max - 1) + Pace + 1
<1>1. Max \in Nat \ {0} /\ Pace \in Nat
  BY LimiterAssumed, LoadAssumption
<1>2. R!Width \in Nat /\ R!Width <= Max * Pace
  BY LimiterAssumed, LoadAssumption
<1>3. Max - 1 \in Nat /\ (Max - 1) + 1 = Max
  BY <1>1, SMT
<1>4. Max * (Pace + 1) = Max * Pace + Max /\ Max * Pace \in Nat
  BY <1>1, SMT
<1>5. Spacing(Max) = Spacing(Max - 1) + Pace + 1
  BY <1>3, SpacingAdds
<1>6. Spacing(Max) = Max * Pace + Max
  BY <1>4 DEF Spacing
<1> DEFINE p == Max * Pace
<1> HIDE DEF p
<1>7. R!Width <= p /\ p \in Nat /\ Spacing(Max - 1) + Pace + 1 = p + Max
  BY <1>2, <1>4, <1>5, <1>6 DEF p
<1> QED
  BY <1>1, <1>2, <1>3, <1>7

\* What user v may do without a login: it waits if it is to begin again, and
\* it registers when it has waited.
Eases(v) ==
  \/ stage'[v] = stage[v] /\ wake'[v] = wake[v]
  \/ stage'[v] \notin {"register", "login"}
  \/ /\ stage'[v] = "register"
     /\ Class[v] = "verify" => wake'[v] = now + Pace + 1
  \/ stage'[v] = "login" /\ stage[v] = "register" /\ wake[v] <= now

LEMMA LogStands ==
  ASSUME PaceInv, StageInv, R!IInv', log' = log, who' = who,
         now' \in {now, now + 1}, \A v \in User : Eases(v)
  PROVE  /\ who' \in Seq(User) /\ Len(who') = Len(log'[Host])
         /\ Paced' /\ Rested'
<1>1. /\ who \in Seq(User) /\ Len(who) = Len(log[Host]) /\ R!IInv
      /\ Paced /\ Rested
  BY DEF PaceInv
<1>2. /\ now \in Nat /\ Pace \in Nat
      /\ \A i \in 1..Len(who) : Entry(i) \in Nat /\ Entry(i) <= now
      /\ wake \in [User -> Nat]
  BY <1>1, LogProperties, LoadAssumption DEF StageInv
<1>3. \A i : Entry(i)' = Entry(i)
  BY DEF Entry
<1>4. Paced'
  BY <1>1, <1>3 DEF Paced
<1>5. Rested'
  <2> SUFFICES ASSUME NEW v \in User, Class[v] = "verify",
                      NEW i \in 1..Len(who), who[i] = v
               PROVE  /\ stage'[v] = "register" => Entry(i) + Pace + 1 <= wake'[v]
                      /\ stage'[v] = "login" => Entry(i) + Pace + 1 <= now'
    BY <1>3 DEF Rested
  <2>1. /\ stage[v] = "register" => Entry(i) + Pace + 1 <= wake[v]
        /\ stage[v] = "login" => Entry(i) + Pace + 1 <= now
    BY <1>1 DEF Rested
  <2>2. Entry(i) \in Nat /\ Entry(i) <= now /\ now <= now' /\ now' \in Nat
        /\ wake[v] \in Nat
    BY <1>2
  <2>3. Eases(v)
    OBVIOUS
  <2>4. CASE stage'[v] = stage[v] /\ wake'[v] = wake[v]
    BY <1>2, <2>1, <2>2, <2>4
  <2>5. CASE stage'[v] \notin {"register", "login"}
    BY <2>5
  <2>6. CASE stage'[v] = "register" /\ wake'[v] = now + Pace + 1
    BY <1>2, <2>2, <2>6
  <2>7. CASE stage'[v] = "login" /\ stage[v] = "register" /\ wake[v] <= now
    BY <1>2, <2>1, <2>2, <2>7
  <2> QED
    BY <2>3, <2>4, <2>5, <2>6, <2>7 DEF Eases
<1> QED
  BY <1>1, <1>4, <1>5

\* Nobody logs in.
LEMMA PaceStands ==
  ASSUME PaceInv, StageInv, R!IInv', log' = log, who' = who,
         now' \in {now, now + 1}, \A v \in User : Eases(v),
         \A v \in User : answer'[v] = "limited" => answer[v] = "limited"
  PROVE  PaceInv'
<1>1. OwnPaceIsSafe
  BY DEF PaceInv
<1>2. OwnPaceIsSafe'
  BY <1>1 DEF OwnPaceIsSafe
<1> QED
  BY <1>2, LogStands DEF PaceInv

\* The user that moves, and all others.
LEMMA OthersEase ==
  ASSUME StageInv, NEW u \in User, NEW s \in Stages, Goes(u, s),
         wake' = wake \/ \E t : wake' = [wake EXCEPT ![u] = t]
  PROVE  /\ stage'[u] = s
         /\ \A v \in User \ {u} : Eases(v)
         /\ wake' = wake => wake'[u] = wake[u]
  BY DEF StageInv, Goes, Eases

LEMMA BeginAgainEases ==
  ASSUME StageInv, NEW u \in User, BeginAgain(u)
  PROVE  \A v \in User : Eases(v)
<1>1. wake \in [User -> Nat] /\ "register" \in Stages
  BY DEF StageInv, Stages
<1>2. /\ Goes(u, "register")
      /\ wake' = [wake EXCEPT ![u] = IF Class[u] = "verify" THEN Rest(u) ELSE @]
  BY DEF BeginAgain
<1>3. stage'[u] = "register" /\ \A v \in User \ {u} : Eases(v)
  BY <1>1, <1>2, OthersEase
<1>4. Class[u] = "verify" => wake'[u] = now + Pace + 1
  BY <1>1, <1>2 DEF Rest
<1>5. Eases(u)
  BY <1>3, <1>4 DEF Eases
<1> QED
  BY <1>3, <1>5

LEMMA AnsweredIs ==
  ASSUME NotesInv, NEW u \in User, NEW a, Answered(u, a)
  PROVE  answer'[u] = a /\ \A v \in User \ {u} : answer'[v] = answer[v]
  BY DEF NotesInv, Answered

LEMMA AdmittedKeeps ==
  ASSUME IndInv, NEW u \in User, stage[u] = "login",
         Limit!Admit(Host), who' = Append(who, u),
         \/ /\ Answered(u, "ok") /\ Goes(u, AfterLogin(u)) /\ UNCHANGED wake
         \/ Answered(u, "error") /\ BeginAgain(u)
  PROVE  PaceInv'
<1>1. /\ who \in Seq(User) /\ Len(who) = Len(log[Host]) /\ R!IInv
      /\ Paced /\ Rested /\ OwnPaceIsSafe
      /\ StageInv /\ NotesInv /\ Pace \in Nat
  BY LoadAssumption DEF PaceInv, IndInv
<1>2. R!IInv' /\ now' = now /\ log'[Host] = Append(log[Host], now)
  BY <1>1, AdmitFacts
<1>0. PICK n \in Nat : n = Len(who)
  BY <1>1, LenProperties
<1>3. /\ now \in Nat /\ log[Host] \in Seq(Nat) /\ n \in Nat
      /\ \A i \in 1..n : Entry(i) \in Nat /\ Entry(i) <= now
  BY <1>0, <1>1, LogProperties
<1>4. /\ who' \in Seq(User) /\ Len(who') = n + 1 /\ who'[n + 1] = u
      /\ \A i \in 1..n : who'[i] = who[i]
  BY <1>0, <1>1, AppendProperties
<1>5. /\ Len(log'[Host]) = n + 1 /\ Entry(n + 1)' = now
      /\ \A i \in 1..n : Entry(i)' = Entry(i)
  BY <1>0, <1>1, <1>2, <1>3, AppendProperties DEF Entry
<1>6. ASSUME NEW i \in 1..(n + 1) PROVE i \in 1..n \/ i = n + 1
  BY <1>3
<1>7. Paced'
  <2> SUFFICES ASSUME NEW v \in User, Class[v] = "verify",
                      NEW i \in 1..(n + 1), NEW j \in 1..(n + 1), i <= j,
                      \A k \in i..j : who'[k] = v
               PROVE  Entry(i)' + Spacing(j - i) <= Entry(j)'
    BY <1>4 DEF Paced
  <2>1. CASE j \in 1..n
    <3>1. i \in 1..n /\ \A k \in i..j : k \in 1..n
      BY <1>3, <2>1
    <3>2. \A k \in i..j : who[k] = v
      BY <1>4, <3>1
    <3>3. Entry(i) + Spacing(j - i) <= Entry(j)
      BY <1>0, <1>1, <2>1, <3>1, <3>2 DEF Paced
    <3> QED BY <1>5, <2>1, <3>1, <3>3
  <2>2. CASE j = n + 1 /\ i = n + 1
    <3>1. j - i = 0 /\ Spacing(0) = 0
      BY <1>3, <2>2, SpacingAdds
    <3>2. Entry(i)' = now /\ Entry(j)' = now
      BY <1>5, <2>2
    <3> QED BY <1>3, <3>1, <3>2
  <2>3. CASE j = n + 1 /\ i \in 1..n
    <3>1. n \in 1..n /\ i <= n /\ n + 1 \in i..j /\ \A k \in i..n : k \in i..j /\ k \in 1..n
      BY <1>3, <2>3
    <3>2. v = u /\ who[n] = u /\ \A k \in i..n : who[k] = u
      BY <1>4, <3>1
    <3>3. Entry(i) + Spacing(n - i) <= Entry(n)
      BY <1>0, <1>1, <2>3, <3>1, <3>2 DEF Paced
    <3>4. Entry(n) + Pace + 1 <= now
      BY <1>0, <1>1, <3>1, <3>2 DEF Rested
    <3>5. n - i \in Nat /\ j - i = (n - i) + 1
      BY <1>3, <2>3, <3>1
    <3>6. Spacing(n - i) \in Nat /\ Spacing(j - i) = Spacing(n - i) + Pace + 1
      BY <3>5, SpacingAdds
    <3>7. Entry(i) \in Nat /\ Entry(n) \in Nat
      BY <1>3, <2>3, <3>1
    <3>8. Entry(i) + Spacing(j - i) <= now
      BY <1>1, <1>3, <3>3, <3>4, <3>6, <3>7
    <3> QED BY <1>5, <2>3, <3>8
  <2> QED BY <1>6, <2>1, <2>2, <2>3
<1>8. Class[u] = "verify" =>
        \/ stage'[u] \notin {"register", "login"}
        \/ stage'[u] = "register" /\ wake'[u] = now + Pace + 1
  <2>1. CASE Goes(u, AfterLogin(u)) /\ UNCHANGED wake
    <3>1. Class[u] = "verify" => AfterLogin(u) = "call"
      BY DEF AfterLogin
    <3> QED BY <1>1, <2>1, <3>1 DEF Goes, StageInv
  <2>2. CASE BeginAgain(u)
    BY <1>1, <2>2 DEF BeginAgain, Goes, StageInv, Rest
  <2> QED BY <2>1, <2>2
<1>9. \A v \in User \ {u} : stage'[v] = stage[v] /\ wake'[v] = wake[v]
  BY <1>1 DEF BeginAgain, Goes, StageInv
<1>10. Rested'
  <2> SUFFICES ASSUME NEW v \in User, Class[v] = "verify",
                      NEW i \in 1..(n + 1), who'[i] = v
               PROVE  /\ stage'[v] = "register" => Entry(i)' + Pace + 1 <= wake'[v]
                      /\ stage'[v] = "login" => Entry(i)' + Pace + 1 <= now
    BY <1>2, <1>4 DEF Rested
  <2>1. CASE v = u
    <3>1. Entry(i)' \in Nat /\ Entry(i)' <= now
      BY <1>3, <1>5, <1>6
    <3> QED BY <1>1, <1>3, <1>8, <2>1, <3>1
  <2>2. CASE v # u
    <3>1. i \in 1..n /\ who[i] = v
      BY <1>4, <1>6, <2>2
    <3>2. /\ stage[v] = "register" => Entry(i) + Pace + 1 <= wake[v]
          /\ stage[v] = "login" => Entry(i) + Pace + 1 <= now
      BY <1>0, <1>1, <3>1 DEF Rested
    <3> QED BY <1>5, <1>9, <2>2, <3>1, <3>2
  <2> QED BY <2>1, <2>2
<1>11. OwnPaceIsSafe'
  <2> SUFFICES ASSUME NEW v \in User, Class[v] = "verify", answer'[v] = "limited"
               PROVE  \E i \in 1..(n + 1) : who'[i] # v /\ n + 1 < i + Max
    BY <1>4 DEF OwnPaceIsSafe
  <2>1. v # u
    BY <1>1, AnsweredIs
  <2>2. n + 1 \in 1..(n + 1) /\ n + 1 < n + 1 + Max
    BY <1>3, LimiterAssumed
  <2> QED BY <1>4, <2>1, <2>2
<1> QED
  BY <1>2, <1>4, <1>5, <1>7, <1>10, <1>11 DEF PaceInv

LEMMA RefusedKeeps ==
  ASSUME IndInv, NEW u \in User, stage[u] = "login",
         Limit!Refuse(Host), who' = who, Answered(u, "limited"), BeginAgain(u)
  PROVE  PaceInv'
<1>1. /\ who \in Seq(User) /\ Len(who) = Len(log[Host]) /\ R!IInv
      /\ Paced /\ Rested /\ OwnPaceIsSafe
      /\ PaceInv /\ StageInv /\ NotesInv /\ Pace \in Nat
  BY LoadAssumption DEF PaceInv, IndInv
<1> DEFINE n == Len(who)
<1>2. /\ R!IInv' /\ now' = now /\ log' = log
      /\ Max <= n /\ now <= Entry(n - Max + 1) + R!Width
  BY <1>1, RefuseFacts
<1>3. /\ now \in Nat /\ n \in Nat /\ Max \in Nat \ {0}
      /\ \A i \in 1..n : Entry(i) \in Nat
  BY <1>1, LogProperties, LimiterAssumed
<1>4. /\ who' \in Seq(User) /\ Len(who') = Len(log'[Host])
      /\ Paced' /\ Rested'
  BY <1>1, <1>2, BeginAgainEases, LogStands
<1>5. ASSUME Class[u] = "verify"
      PROVE  \E i \in 1..n : who[i] # u /\ n < i + Max
  <2> DEFINE f == n - Max + 1
  <2>1. /\ f \in 1..n /\ n \in 1..n /\ f <= n /\ n - f = Max - 1
        /\ \A k \in f..n : k \in 1..n /\ n < k + Max
    BY <1>2, <1>3
  <2> HIDE DEF f, n
  <2> SUFFICES ASSUME \A i \in f..n : who[i] = u PROVE FALSE
    BY <2>1
  <2>2. Entry(f) + Spacing(Max - 1) <= Entry(n)
    BY <1>1, <1>5, <2>1 DEF Paced, n
  <2>3. who[n] = u
    BY <1>3, <2>1
  <2>4. Entry(n) + Pace + 1 <= now
    BY <1>1, <1>5, <2>1, <2>3 DEF Rested, n
  <2>5. R!Width < Spacing(Max - 1) + Pace + 1 /\ R!Width \in Nat
        /\ Spacing(Max - 1) \in Nat
    BY SpacingSuffices, SpacingAdds, LimiterAssumed
  <2>6. Entry(f) \in Nat /\ Entry(n) \in Nat
    BY <1>3, <2>1
  <2>7. now <= Entry(f) + R!Width
    BY <1>2 DEF f
  <2> QED BY <1>1, <1>3, <2>2, <2>4, <2>5, <2>6, <2>7
<1>6. OwnPaceIsSafe'
  <2> SUFFICES ASSUME NEW v \in User, Class[v] = "verify", answer'[v] = "limited"
               PROVE  \E i \in DOMAIN who : who[i] # v /\ Len(who) < i + Max
    BY DEF OwnPaceIsSafe
  <2>1. DOMAIN who = 1..n
    BY <1>1, LenProperties
  <2>2. CASE v = u
    BY <1>5, <2>1, <2>2
  <2>3. CASE v # u
    BY <1>1, <2>3, AnsweredIs DEF OwnPaceIsSafe
  <2> QED BY <2>2, <2>3
<1> QED
  BY <1>2, <1>4, <1>6 DEF PaceInv

\* A user moves without a login.
LEMMA QuietKeeps ==
  ASSUME IndInv, NEW u \in User, UNCHANGED <<limiter, who>>,
         \A v \in User : Eases(v),
         NEW a \in Answers \ {"limited"}, Answered(u, a)
  PROVE  PaceInv'
<1>1. PaceInv /\ StageInv /\ NotesInv /\ R!IInv
  BY DEF IndInv, PaceInv
<1>2. R!IInv' /\ now' = now /\ log' = log /\ who' = who
  BY <1>1, NothingLimited DEF limiter
<1>3. \A v \in User : answer'[v] = "limited" => answer[v] = "limited"
  BY <1>1, AnsweredIs
<1> QED
  BY <1>1, <1>2, <1>3, PaceStands

LEMMA PaceStep ==
  ASSUME IndInv, [Next]_vars
  PROVE  PaceInv'
<1>1. PaceInv /\ StageInv /\ NotesInv /\ R!IInv
  BY DEF IndInv, PaceInv
<1>2. /\ stage \in [User -> Stages] /\ wake \in [User -> Nat]
      /\ {"register", "login", "project", "seed", "ready", "call",
          "disclosure", "logout"} \subseteq Stages
      /\ {"ok", "error", "refused"} \subseteq Answers \ {"limited"}
  BY <1>1 DEF StageInv, Stages, Answers
<1>3. CASE UNCHANGED vars
  <2>1. \A v \in User : Eases(v)
    BY <1>3 DEF vars, Eases
  <2>2. R!IInv' /\ now' = now /\ log' = log /\ who' = who /\ answer' = answer
    BY <1>1, <1>3, NothingLimited DEF vars, limiter
  <2> QED BY <1>1, <2>1, <2>2, PaceStands
<1>4. CASE Tick
  <2>1. \A v \in User : Eases(v)
    BY <1>4 DEF Tick, Eases
  <2>2. R!IInv' /\ now' = now + 1 /\ log' = log /\ who' = who /\ answer' = answer
    BY <1>1, <1>4, TickFacts DEF Tick
  <2> QED BY <1>1, <2>1, <2>2, PaceStands
<1>5. ASSUME NEW u \in User, Register(u)
      PROVE  PaceInv'
  <2>1. UNCHANGED <<limiter, who>> /\ stage[u] = "register" /\ wake[u] <= now
    BY <1>5 DEF Register
  <2>2. CASE Answered(u, "ok") /\ Goes(u, "login") /\ UNCHANGED wake
    <3>1. stage'[u] = "login" /\ \A v \in User \ {u} : Eases(v)
      BY <1>1, <1>2, <2>2, OthersEase
    <3>2. Eases(u)
      BY <2>1, <3>1 DEF Eases
    <3> QED BY <1>2, <2>1, <2>2, <3>1, <3>2, QuietKeeps
  <2>3. CASE Answered(u, "error") /\ BeginAgain(u)
    BY <1>1, <1>2, <2>1, <2>3, BeginAgainEases, QuietKeeps
  <2> QED BY <1>5, <2>2, <2>3 DEF Register
<1>6. ASSUME NEW u \in User, Login(u)
      PROVE  PaceInv'
  BY <1>6, AdmittedKeeps, RefusedKeeps DEF Login
<1>7. ASSUME NEW u \in User, NEW s \in Stages \ {"register", "login"},
             Goes(u, s), UNCHANGED <<wake, limiter, who>>,
             NEW a \in Answers \ {"limited"}, Answered(u, a)
      PROVE  PaceInv'
  <2>1. stage'[u] = s /\ \A v \in User \ {u} : Eases(v)
    BY <1>1, <1>7, OthersEase
  <2>2. Eases(u)
    BY <2>1 DEF Eases
  <2> QED BY <1>7, <2>1, <2>2, QuietKeeps
<1>8. ASSUME NEW u \in User, UNCHANGED <<stage, wake, limiter, who>>,
             NEW a \in Answers \ {"limited"}, Answered(u, a)
      PROVE  PaceInv'
  <2>1. \A v \in User : Eases(v)
    BY <1>8 DEF Eases
  <2> QED BY <1>8, <2>1, QuietKeeps
<1>9. ASSUME NEW u \in User, FirstProject(u)
      PROVE  PaceInv'
  <2>1. PICK a \in {"ok", "error"} : Answered(u, a)
    BY <1>9 DEF FirstProject, CreateProject
  <2>2. \E s \in {"seed", "ready"} : Goes(u, s)
    BY <1>9 DEF FirstProject
  <2>3. UNCHANGED <<wake, limiter, who>>
    BY <1>9 DEF FirstProject
  <2> QED BY <1>2, <1>7, <2>1, <2>2, <2>3
<1>10. ASSUME NEW u \in User, FirstTask(u)
       PROVE  PaceInv'
  <2>1. PICK a \in {"ok", "error"} : Answered(u, a)
    BY <1>10 DEF FirstTask, CreateTask
  <2>2. Goes(u, "ready") \/ UNCHANGED stage
    BY <1>10 DEF FirstTask
  <2>3. UNCHANGED <<wake, limiter, who>>
    BY <1>10 DEF FirstTask
  <2> QED BY <1>2, <1>7, <1>8, <2>1, <2>2, <2>3
<1>11. ASSUME NEW u \in User, Browse(u) \/ Manage(u)
       PROVE  PaceInv'
  <2>1. PICK a \in {"ok", "error", "refused"} : Answered(u, a)
    BY <1>11 DEF Browse, Manage, Read, CreateProject, CreateTask, Advance,
         Cancel, Comment, Delete, Patch, Change
  <2>2. UNCHANGED <<stage, wake, limiter, who>>
    BY <1>11, Zenon DEF Browse, Manage
  <2> QED BY <1>2, <1>8, <2>1, <2>2
<1>12. ASSUME NEW u \in User, Verify(u)
       PROVE  PaceInv'
  <2>1. PICK a \in {"ok", "error"} : Answered(u, a)
    BY <1>12 DEF Verify
  <2>2. UNCHANGED <<limiter, who>>
    BY <1>12 DEF Verify
  <2>3. CASE BeginAgain(u)
    BY <1>1, <1>2, <2>1, <2>2, <2>3, BeginAgainEases, QuietKeeps
  <2>4. CASE (Goes(u, "disclosure") \/ Goes(u, "logout")) /\ UNCHANGED wake
    BY <1>2, <1>7, <2>1, <2>2, <2>4
  <2> QED BY <1>12, <2>3, <2>4 DEF Verify
<1> QED
  BY <1>3, <1>4, <1>5, <1>6, <1>9, <1>10, <1>11, <1>12 DEF Next

------------------------------------------------------------------------------
(* The theorems.                                                           *)

LEMMA InitOK == Init => IndInv
<1> SUFFICES ASSUME Init PROVE IndInv
  OBVIOUS
<1>1. NotesInv
  <2>1. /\ notes \in [User -> [Task -> Noted]] /\ answer \in [User -> Answers]
        /\ status \in [Task -> Statuses] /\ unheard \subseteq Task
    BY DEF Init, Noted, Answers, Statuses
  <2>2. \A u \in User : Known(u) = {} /\ answer[u] # "refused"
    BY DEF Init, Known
  <2> QED BY <2>1, <2>2 DEF NotesInv, Apart, Heard
<1>2. StageInv
  <2>1. 0 \in 0..SeedTasks
    BY LoadAssumption
  <2> QED BY <2>1 DEF Init, StageInv, Stages
<1>3. PaceInv
  <2>1. R!Init /\ R!IInv
    BY SameLimiter, LimiterAssumed, R!InitInvariant DEF Init
  <2>2. log[Host] = <<>> /\ who = <<>>
    BY <2>1 DEF R!Init, Init
  <2>3. who \in Seq(User) /\ Len(who) = 0 /\ Len(log[Host]) = 0
    BY <2>2, EmptySeq
  <2>4. \A i : i \notin 1..Len(who)
    BY <2>3
  <2>5. Paced /\ Rested
    BY <2>4 DEF Paced, Rested
  <2>6. OwnPaceIsSafe
    BY DEF Init, OwnPaceIsSafe
  <2> QED BY <2>1, <2>3, <2>5, <2>6 DEF PaceInv
<1> QED
  BY <1>1, <1>2, <1>3 DEF IndInv

LEMMA NextOK == IndInv /\ [Next]_vars => IndInv'
<1> SUFFICES ASSUME IndInv, [Next]_vars PROVE IndInv'
  OBVIOUS
<1>1. NotesInv /\ StageInv /\ now \in Nat
  BY LogProperties DEF IndInv, PaceInv
<1> QED
  BY <1>1, NotesStep, StageStep, PaceStep DEF IndInv

LEMMA Inductive == Spec => []IndInv
<1> QED
  BY InitOK, NextOK, PTL DEF Spec

\* Every reachable state has its type, whatever the users do.
THEOREM TypeCorrect == Spec => []TypeOK
<1>1. IndInv => TypeOK
  <2> SUFFICES ASSUME IndInv PROVE TypeOK
    OBVIOUS
  <2>1. Limit!TypeOK
    BY SameLimiter DEF IndInv, PaceInv, R!IInv
  <2> QED
    BY <2>1 DEF IndInv, NotesInv, StageInv, PaceInv, TypeOK, Stages, Answers,
      Statuses, Noted
<1> QED
  BY <1>1, Inductive, PTL

\* The notes of a user (tasks_state) are right, or one unheard change behind.
THEOREM NotesFollow == Spec => []NotesAreClose
<1>1. IndInv => NotesAreClose
  BY NotesProperties
<1> QED
  BY <1>1, Inductive, PTL

\* A user is refused only after an answer that it never got.
THEOREM RefusalsAreExplained == Spec => []RefusedAfterLossOnly
<1>1. IndInv => RefusedAfterLossOnly
  BY NotesProperties
<1> QED
  BY <1>1, Inductive, PTL

\* wait_time keeps a verifying user within the limit, for any limit, window
\* and pace with Window * Second <= Max * Pace.
THEOREM PaceIsSafe == Spec => []OwnPaceIsSafe
<1>1. IndInv => OwnPaceIsSafe
  BY DEF IndInv, PaceInv
<1> QED
  BY <1>1, Inductive, PTL

------------------------------------------------------------------------------
(* The limiter, seen by the users of the load test.                        *)

\* Only a login and the clock move the limiter.
LEMMA LimiterSteps == [Next]_vars => [R!Next]_R!vars
<1> SUFFICES ASSUME [Next]_vars PROVE [R!Next]_R!vars
  OBVIOUS
<1>1. UNCHANGED limiter => UNCHANGED R!vars
  BY DEF limiter, R!vars
<1>2. ASSUME NEW u \in User, Login(u) PROVE R!Next
  BY <1>2, SameLimiter DEF Login, R!Next
<1>3. ASSUME NEW u \in User,
             \/ Register(u) \/ FirstProject(u) \/ FirstTask(u) \/ Browse(u)
             \/ Manage(u) \/ Verify(u)
      PROVE  UNCHANGED limiter
  BY <1>3 DEF Register, FirstProject, FirstTask, Browse, Manage, Verify
<1>4. CASE Tick
  BY <1>4, SameLimiter DEF Tick, R!Next
<1>5. CASE UNCHANGED vars
  BY <1>1, <1>5 DEF vars
<1> QED
  BY <1>1, <1>2, <1>3, <1>4, <1>5 DEF Next

\* What the logins of all users together meet is the sliding window: the
\* limiter refuses one exactly when Max of theirs were let in within it,
\* whatever became of the answers.
THEOREM UsersMeetTheWindow == Spec => R!ImplementsWindow
<1>1. Init => R!Init
  BY SameLimiter DEF Init
<1>2. Spec => R!Spec
  BY <1>1, LimiterSteps, PTL DEF Spec, R!Spec
<1>3. R!Spec => R!ImplementsWindow
  BY LimiterAssumed, R!WindowIsImplemented
<1> QED
  BY <1>2, <1>3
=============================================================================
