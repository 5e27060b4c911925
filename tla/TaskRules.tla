------------------------------ MODULE TaskRules ------------------------------
(***************************************************************************)
(* The status rules of a task: the statuses, the map of legal transitions  *)
(* and the check the service makes before it assigns a status.  They are   *)
(* shared by the API model, by the abstract life of a task and by the      *)
(* model of the board in the browser.                                      *)
(***************************************************************************)

TaskStatus == {"TODO", "IN_PROGRESS", "IN_REVIEW", "DONE", "CANCELLED"}

\* Mutant: work can be closed without a review.
QuickTransitions ==
  [TODO        |-> {"IN_PROGRESS", "CANCELLED"},
   IN_PROGRESS |-> {"IN_REVIEW", "TODO", "DONE", "CANCELLED"},
   IN_REVIEW   |-> {"IN_PROGRESS", "DONE", "CANCELLED"},
   DONE        |-> {},
   CANCELLED   |-> {}]

VALID_TRANSITIONS ==
  [TODO        |-> {"IN_PROGRESS", "CANCELLED"},
   IN_PROGRESS |-> {"IN_REVIEW", "TODO", "CANCELLED"},
   IN_REVIEW   |-> {"IN_PROGRESS", "DONE", "CANCELLED"},
   DONE        |-> {},
   CANCELLED   |-> {}]

\* validate_status_transition raises 422 exactly when this is FALSE.
TransitionAllowed(current, next) ==
  \/ current = next
  \/ next \in VALID_TRANSITIONS[current]

Terminal == {s \in TaskStatus : VALID_TRANSITIONS[s] = {}}
==============================================================================
