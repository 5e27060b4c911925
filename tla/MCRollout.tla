------------------------------ MODULE MCRollout -----------------------------
(* Rollout with an image of each revision and scripts run by hand.          *)
EXTENDS Rollout

CONSTANTS v1, v2, s1, s2

TasksFirst == <<"comments", "tasks", "users", "projects">>
Heads == [p \in Script |-> IF p = v1 THEN 1 ELSE 2]
==============================================================================
