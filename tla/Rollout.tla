------------------------------ MODULE Rollout -------------------------------
(***************************************************************************)
(* A deployment on Fly.io (publish.yml, fly.toml), one environment of it   *)
(* with its database: an image is deployed by a job of the workflow.  The  *)
(* release command brings the schema to the head of the image, then the    *)
(* traffic is switched, then the job checks what answers.  The database    *)
(* and the scripts on it are those of Schema; in a development environment *)
(* there are only they.                                                    *)
(***************************************************************************)
EXTENDS Schema

CONSTANTS
  Image  \* an image and the job that deploys it

ASSUME ImageAssumption == Image \subseteq Script

VARIABLES
  pipe,      \* the step of the job
  releases   \* the images that have taken the traffic, oldest first

rolloutVars == <<pipe, releases>>
vars == <<schemaVars, rolloutVars>>

Init ==
  /\ environment \in {"development", "production"}
  /\ SchemaInit
  /\ pipe = [i \in Image |-> "queued"]
  /\ releases = <<>>

Turns(i, s) == pipe' = [pipe EXCEPT ![i] = s]

\* Somebody runs a script.  In a deployment, migrations only.
RunByHand(p) ==
  /\ p \notin Image
  /\ \E j \in (IF environment = "development" THEN Jobs
               ELSE {"upgrade", "downgrade"}) : Begin(p, j)
  /\ UNCHANGED <<environment, database, serving, downgraded, rolloutVars>>

\* flyctl deploy: the release command is run with the new image.  (It succeeds
\* only in an image that holds alembic.ini and the revisions; the Dockerfile of
\* this commit copies neither, so what it builds always takes BreakOff.)
Deploy(i) ==
  /\ environment = "production"
  /\ pipe[i] = "queued"
  /\ Begin(i, "upgrade")
  /\ Turns(i, "release")
  /\ UNCHANGED <<environment, database, serving, downgraded, releases>>

\* A script goes on.  A release command that ends well lets the deploy go on.
Proceed(p) ==
  /\ Work(p)
  /\ IF p \in Image /\ step'[p] = "idle" THEN Turns(p, "switch") ELSE UNCHANGED pipe
  /\ UNCHANGED <<environment, releases>>

\* Mutant: the deploy goes on all the same.
BreakOffIgnored(p) ==
  /\ Fail(p)
  /\ IF p \in Image THEN Turns(p, "switch") ELSE UNCHANGED pipe
  /\ UNCHANGED <<environment, releases>>

\* A script fails.  If it is a release command the deploy is aborted, and the
\* old image keeps the traffic.
BreakOff(p) ==
  /\ Fail(p)
  /\ IF p \in Image THEN Turns(p, "failed") ELSE UNCHANGED pipe
  /\ UNCHANGED <<environment, releases>>

SwitchTraffic(i) ==
  /\ pipe[i] = "switch"
  /\ serving' = i
  /\ releases' = Append(releases, i)
  /\ Turns(i, "health")
  /\ UNCHANGED <<environment, database, downgraded, scripts>>

\* /health answers 200, whoever it is that answers.
Healthy(i) ==
  /\ pipe[i] = "health"
  /\ Turns(i, "smoke")
  /\ UNCHANGED <<schemaVars, releases>>

\* curl fails.  The shell of a step stops at the first command that fails,
\* here at the assignment of STATUS: the loop ends, and so does the job.
Unreachable(i) ==
  /\ pipe[i] = "health"
  /\ Turns(i, "unhealthy")
  /\ UNCHANGED <<schemaVars, releases>>

\* Mutant: nothing tells whether there is a release before this one.
RollBackFirst(i) ==
  /\ pipe[i] = "health"
  /\ Turns(i, "unhealthy")
  /\ releases' = SubSeq(releases, 1, Len(releases) - 1)
  /\ serving' = IF releases' = <<>> THEN "nobody" ELSE releases'[Len(releases')]
  /\ UNCHANGED <<environment, database, downgraded, scripts>>

\* Twelve answers that are neither 200 nor an error (a redirect, say): the
\* release before this one takes the traffic.
RollBack(i) ==
  /\ pipe[i] = "health"
  /\ Turns(i, "unhealthy")
  /\ IF 1 < Len(releases)
     THEN /\ releases' = SubSeq(releases, 1, Len(releases) - 1)
          /\ serving' = releases'[Len(releases')]
     ELSE UNCHANGED <<releases, serving>>
  /\ UNCHANGED <<environment, database, downgraded, scripts>>

\* k6 against the URL of the environment; a failure fails the job.
SmokeTest(i) ==
  /\ pipe[i] = "smoke"
  /\ Turns(i, "succeeded") \/ Turns(i, "failed")
  /\ UNCHANGED <<schemaVars, releases>>

Job(i) ==
  \/ SwitchTraffic(i)
  \/ Healthy(i) \/ Unreachable(i) \/ RollBack(i)
  \/ SmokeTest(i)

Next ==
  \/ \E p \in Script : RunByHand(p) \/ Proceed(p) \/ BreakOff(p)
  \/ UseApi /\ UNCHANGED <<environment, rolloutVars>>
  \/ \E i \in Image : Deploy(i) \/ Job(i)

\* A statement that can run runs and ends, a lock or an index entry that is
\* free is given to one who waits for it, a circle of waiting scripts is noticed.
\* Nobody has to begin anything, and no job has to go on.
ProceedOrRaise(p) ==
  step[p] # "idle" /\ (Proceed(p) \/ (Doomed(p) /\ BreakOff(p)))

Fairness == \A p \in Script : WF_vars(ProceedOrRaise(p))

Spec == Init /\ [][Next]_vars /\ Fairness

------------------------------------------------------------------------------
(* Properties.                                                             *)

TypeOK ==
  /\ environment \in {"development", "production"}
  /\ tables \in 0..Latest /\ stamp \in 0..Latest
  /\ demo \in [by : Script \cup {"api", None}, deleted : BOOLEAN]
  /\ samples \subseteq Script \X Sample
  /\ serving \in Script \cup {None} /\ downgraded \in BOOLEAN
  /\ job \in [Script -> Jobs \cup {"none"}]
  /\ step \in [Script -> {"idle", "begun", "altering", "created", "inserting"}]
  /\ saw \in [Script -> 0..Latest] /\ work \in [Script -> 0..Latest]
  /\ got \in [Script -> 0..All]
  /\ written \in [Script -> SUBSET (Sample \cup {User})]
  /\ pipe \in [Image -> {"queued", "release", "switch", "health", "smoke",
                         "unhealthy", "failed", "succeeded"}]
  /\ releases \in Seq(Image)

\* What answers requests finds the tables that it was written for, whichever
\* jobs overlap and whatever fails, unless somebody took a revision back.
CodeMeetsSchema ==
  serving # None /\ ~downgraded => HeadOf(serving) <= tables

\* No script is kept from ending by others, by the locks they hold or the rows
\* they have inserted: once nobody begins a script any more, all of them end.
\* (While others keep beginning, who comes first is up to PostgreSQL.)
ScriptsEnd ==
  <>[][\A p \in Script : step[p] = "idle" => step'[p] = "idle"]_vars =>
    <>[](\A p \in Script : step[p] = "idle")
==============================================================================
