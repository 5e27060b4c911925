---------------------------- MODULE TaskLifecycle ----------------------------
(***************************************************************************)
(* What the API promises about the life of a task, with no requests,       *)
(* sessions or failures in it: a task is created in TODO, moves only along *)
(* VALID_TRANSITIONS, and once it is deleted nothing about it changes.     *)
(***************************************************************************)
EXTENDS TaskRules

CONSTANT Task

VARIABLES status,   \* status[t]: the status of t, or "none" before creation
          erased    \* the tasks that have been deleted

lifeVars == <<status, erased>>

LifeInit ==
  /\ status = [t \in Task |-> "none"]
  /\ erased = {}

Create(t) ==
  /\ status[t] = "none"
  /\ status' = [status EXCEPT ![t] = "TODO"]
  /\ UNCHANGED erased

Move(t, s) ==
  /\ status[t] # "none"
  /\ t \notin erased
  /\ s \in VALID_TRANSITIONS[status[t]]
  /\ status' = [status EXCEPT ![t] = s]
  /\ UNCHANGED erased

Erase(t) ==
  /\ status[t] # "none"
  /\ erased' = erased \cup {t}
  /\ UNCHANGED status

LifeNext ==
  \E t \in Task :
    \/ Create(t)
    \/ \E s \in TaskStatus : Move(t, s)
    \/ Erase(t)

LifeSpec == LifeInit /\ [][LifeNext]_lifeVars
==============================================================================
