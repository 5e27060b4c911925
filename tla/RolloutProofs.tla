--------------------------- MODULE RolloutProofs ----------------------------
(***************************************************************************)
(* Proofs about Rollout and Schema, for any number of images, jobs and     *)
(* scripts, whatever revisions their code has.                             *)
(***************************************************************************)
EXTENDS Rollout, TLAPS

Migrations == {"upgrade", "downgrade"}
Steps == {"idle", "begun", "altering", "created", "inserting"}
Pipes == {"queued", "release", "switch", "health", "smoke", "unhealthy",
          "failed", "succeeded"}

------------------------------------------------------------------------------
(* The inductive invariant.                                                *)

\* The rows that a seed has written, flush by flush.
Flush1 == {User} \cup ProjectRow(1)
Flush2 == Flush1 \cup ProjectRow(2) \cup TaskRows(1)

\* How many tables a seed has come to with the rows that it has written.
Reached(rows) == IF rows = Flush2 THEN 3 ELSE IF rows = Flush1 THEN 2 ELSE 1

\* The locks of p at each step.  Who has begun to alter or to create finds, as
\* long as it holds a lock, the tables that it found.
HoldsOK(p) ==
  /\ step[p] \in {"idle", "begun", "created"} => got[p] = 0
  /\ step[p] = "altering" => got[p] # 0 /\ Fits(p)
  /\ step[p] = "inserting" => got[p] = Reached(written[p])

\* Who alters or creates shares no table with anybody else.
Apart ==
  \A p, q \in Script : p # q /\ ~Reading(p) => Locked(p) \cap Locked(q) = {}

LocksOK == Apart /\ \A p \in Script : HoldsOK(p)

\* What a script does fits the environment, and the step that it is at.  What
\* it saw as it began is still there, unless somebody took a revision back.
JobOK(p) ==
  /\ step[p] # "idle" =>
       /\ environment = "production" => job[p] \in Migrations
       /\ p \in Image => environment = "production" /\ job[p] = "upgrade"
  /\ step[p] = "altering" =>
       job[p] \in Migrations \/ (job[p] \in {"start", "seed"} /\ saw[p] = 0)
  /\ step[p] \in {"created", "inserting"} => job[p] = "seed"
  /\ step[p] = "begun" =>
       /\ job[p] \in Migrations => work[p] = saw[p]
       /\ ~downgraded => saw[p] <= tables

\* Who serves, or may come to serve, finds its tables.
Met ==
  ~downgraded =>
    /\ environment = "development" => tables \in {0, Latest}
    /\ serving # None => HeadOf(serving) <= tables
    /\ \A i \in Image : pipe[i] = "switch" => HeadOf(i) <= tables
    /\ \A k \in 1..Len(releases) : HeadOf(releases[k]) <= tables

\* The rows of a seed that is under way are the only ones of their kind.
SeedOK(p) ==
  /\ written[p] \in {{}, {User}, Flush1, Flush2}
  /\ written[p] # {} =>
       /\ step[p] = "inserting" /\ demo.by = None
       /\ \A q \in Script \ {p} : written[q] = {}

IndInv ==
  /\ TypeOK
  /\ StampMatches
  /\ LocksOK
  /\ \A p \in Script : JobOK(p)
  /\ Met
  /\ \A p \in Script : SeedOK(p)
  /\ DemoWhole

------------------------------------------------------------------------------
(* What is known of the scripts, and of one that begins, goes on or ends.  *)

ScriptsOK ==
  /\ job \in [Script -> Jobs \cup {"none"}]
  /\ step \in [Script -> Steps]
  /\ saw \in [Script -> 0..Latest] /\ work \in [Script -> 0..Latest]
  /\ got \in [Script -> 0..All]
  /\ written \in [Script -> SUBSET (Sample \cup {User})]

RowsOK ==
  /\ tables \in 0..Latest /\ stamp \in 0..Latest
  /\ demo \in [by : Script \cup {"api", None}, deleted : BOOLEAN]
  /\ samples \subseteq Script \X Sample
  /\ serving \in Script \cup {None} /\ downgraded \in BOOLEAN

PipesOK == pipe \in [Image -> Pipes] /\ releases \in Seq(Image)

\* The other scripts stand still.
Stands(p) ==
  \A q \in Script \ {p} :
    /\ job'[q] = job[q] /\ step'[q] = step[q] /\ saw'[q] = saw[q]
    /\ work'[q] = work[q] /\ got'[q] = got[q] /\ written'[q] = written[q]

Rests(p) ==
  /\ step'[p] = "idle" /\ job'[p] = "none"
  /\ saw'[p] = 0 /\ work'[p] = 0 /\ got'[p] = 0 /\ written'[p] = {}

LEMMA TypeParts ==
  TypeOK <=> /\ environment \in {"development", "production"}
             /\ RowsOK /\ ScriptsOK /\ PipesOK
BY DEF TypeOK, RowsOK, ScriptsOK, PipesOK, Steps, Pipes

LEMMA HeadType ==
  ASSUME NEW p \in Script PROVE HeadOf(p) \in 1..Latest
BY SchemaAssumption DEF HeadOf, Latest

LEMMA EndIs ==
  ASSUME ScriptsOK, NEW p \in Script, End(p)
  PROVE  ScriptsOK' /\ Stands(p) /\ Rests(p)
<1>1. job' \in [Script -> Jobs \cup {"none"}] /\ job'[p] = "none"
      /\ \A q \in Script \ {p} : job'[q] = job[q]
  BY DEF ScriptsOK, End
<1>2. step' \in [Script -> Steps] /\ step'[p] = "idle"
      /\ \A q \in Script \ {p} : step'[q] = step[q]
  BY DEF ScriptsOK, End, Steps
<1>3. saw' \in [Script -> 0..Latest] /\ saw'[p] = 0
      /\ \A q \in Script \ {p} : saw'[q] = saw[q]
  BY DEF ScriptsOK, End, Latest
<1>4. work' \in [Script -> 0..Latest] /\ work'[p] = 0
      /\ \A q \in Script \ {p} : work'[q] = work[q]
  BY DEF ScriptsOK, End, Latest
<1>5. written' \in [Script -> SUBSET (Sample \cup {User})] /\ written'[p] = {}
      /\ \A q \in Script \ {p} : written'[q] = written[q]
  BY DEF ScriptsOK, End
<1>6. got' \in [Script -> 0..All] /\ got'[p] = 0
      /\ \A q \in Script \ {p} : got'[q] = got[q]
  BY DEF ScriptsOK, End, All, Ascending
<1> QED BY <1>1, <1>2, <1>3, <1>4, <1>5, <1>6 DEF ScriptsOK, Stands, Rests

LEMMA GoesIs ==
  ASSUME ScriptsOK, NEW p \in Script, NEW s \in Steps, Goes(p, s)
  PROVE  /\ step' \in [Script -> Steps] /\ step'[p] = s
         /\ job' = job /\ saw' = saw
         /\ \A q \in Script \ {p} : step'[q] = step[q]
BY DEF ScriptsOK, Goes

LEMMA BeginIs ==
  ASSUME ScriptsOK, RowsOK, NEW p \in Script, NEW j \in Jobs, Begin(p, j)
  PROVE  /\ ScriptsOK' /\ Stands(p)
         /\ step'[p] = "begun" /\ job'[p] = j /\ work'[p] = stamp
         /\ saw'[p] = IF j \in {"start", "seed"} THEN tables ELSE stamp
         /\ got'[p] = got[p] /\ written'[p] = written[p]
<1>1. job' \in [Script -> Jobs \cup {"none"}] /\ job'[p] = j
      /\ \A q \in Script \ {p} : job'[q] = job[q]
  BY DEF ScriptsOK, Begin
<1>2. step' \in [Script -> Steps] /\ step'[p] = "begun"
      /\ \A q \in Script \ {p} : step'[q] = step[q]
  BY DEF ScriptsOK, Begin, Steps
<1>3. /\ saw' \in [Script -> 0..Latest]
      /\ saw'[p] = IF j \in {"start", "seed"} THEN tables ELSE stamp
      /\ \A q \in Script \ {p} : saw'[q] = saw[q]
  <2> DEFINE t == IF j \in {"start", "seed"} THEN tables ELSE stamp
  <2>1. t \in 0..Latest
    BY DEF RowsOK
  <2>2. saw' = [saw EXCEPT ![p] = t]
    BY DEF Begin
  <2> HIDE DEF t
  <2>3. /\ saw' \in [Script -> 0..Latest] /\ saw'[p] = t
        /\ \A q \in Script \ {p} : saw'[q] = saw[q]
    BY <2>1, <2>2 DEF ScriptsOK
  <2> QED BY <2>3 DEF t
<1>4. work' \in [Script -> 0..Latest] /\ work'[p] = stamp
      /\ \A q \in Script \ {p} : work'[q] = work[q]
  BY DEF ScriptsOK, RowsOK, Begin
<1>5. got' = got /\ written' = written
  BY DEF Begin
<1> QED BY <1>1, <1>2, <1>3, <1>4, <1>5 DEF ScriptsOK, Stands

------------------------------------------------------------------------------
(* The locks.                                                              *)

Tables == {"users", "projects", "tasks", "comments"}

\* Who alters comes to every table, and who fills does not come to others.
LEMMA Orders ==
  ASSUME NEW p \in Script
  PROVE  /\ \A i \in 1..3 : Order(p)[i] \in Tables
         /\ ~Reading(p) => \A t \in Tables : \E i \in 1..All : Order(p)[i] = t
<1>1. CASE Reading(p)
  <2>1. Order(p) = <<"users", "projects", "tasks">>
    BY <1>1 DEF Order
  <2> QED BY <1>1, <2>1 DEF Tables
<1>2. ASSUME ~Reading(p)
      PROVE  Order(p) \in {Ascending, Descending,
                           <<"comments", "tasks", "users", "projects">>,
                           <<"comments", "users", "tasks", "projects">>}
  BY <1>2, DropOrderAssumption DEF Order
<1>3. CASE ~Reading(p)
  <2>1. CASE Order(p) = <<"users", "projects", "tasks", "comments">>
    BY <2>1 DEF Tables, All, Ascending
  <2>2. CASE Order(p) = <<"comments", "tasks", "projects", "users">>
    BY <2>2 DEF Tables, All, Ascending
  <2>3. CASE Order(p) = <<"comments", "tasks", "users", "projects">>
    BY <2>3 DEF Tables, All, Ascending
  <2>4. CASE Order(p) = <<"comments", "users", "tasks", "projects">>
    BY <2>4 DEF Tables, All, Ascending
  <2> QED BY <1>2, <1>3, <2>1, <2>2, <2>3, <2>4 DEF Ascending, Descending
<1> QED BY <1>1, <1>3

LEMMA NoLocks ==
  ASSUME NEW p \in Script
  PROVE  /\ got[p] = 0 => Locked(p) = {}
         /\ got'[p] = 0 => Locked(p)' = {}
BY DEF Locked

\* A script that stands keeps its locks and takes none.
LEMMA SameLocks ==
  ASSUME NEW p \in Script, job'[p] = job[p], step'[p] = step[p],
         saw'[p] = saw[p], got'[p] = got[p]
  PROVE  Locked(p)' = Locked(p) /\ Reading(p)' = Reading(p)
<1>1. Reading(p)' = Reading(p)
  BY DEF Reading
<1>2. Order(p)' = Order(p)
  BY <1>1 DEF Order, Ascending, Descending
<1> QED BY <1>1, <1>2 DEF Locked

\* One more lock, for the table t.
LEMMA MoreLocks ==
  ASSUME NEW p \in Script, got[p] \in Nat, got'[p] = got[p] + 1,
         job'[p] = job[p], saw'[p] = saw[p], Reading(p)' = Reading(p)
  PROVE  Locked(p)' = Locked(p) \cup {Order(p)[got[p] + 1]}
<1>1. Order(p)' = Order(p)
  BY DEF Order, Ascending, Descending
<1>2. 1..(got[p] + 1) = (1..got[p]) \cup {got[p] + 1}
  OBVIOUS
<1> QED BY <1>1, <1>2 DEF Locked

\* The locks when only p moves.
LEMMA LocksMove ==
  ASSUME IndInv, NEW p \in Script, Stands(p), HoldsOK(p)',
         \A q \in Script \ {p} : step[q] = "altering" => tables' = tables,
         \A q \in Script \ {p} :
           ~Reading(p)' \/ ~Reading(q) => Locked(p)' \cap Locked(q) = {}
  PROVE  LocksOK'
<1>1. LocksOK
  BY DEF IndInv
<1>2. ASSUME NEW q \in Script \ {p}
      PROVE  Locked(q)' = Locked(q) /\ Reading(q)' = Reading(q)
  BY SameLocks DEF Stands
<1>3. ASSUME NEW q \in Script PROVE HoldsOK(q)'
  <2>1. CASE q = p
    BY <2>1
  <2>2. CASE q # p
    <3>1. HoldsOK(q) /\ step'[q] = step[q] /\ got'[q] = got[q]
          /\ job'[q] = job[q] /\ saw'[q] = saw[q] /\ written'[q] = written[q]
      BY <1>1, <2>2 DEF Stands, LocksOK
    <3>2. step[q] = "altering" => got'[q] # 0 /\ Fits(q)'
      BY <2>2, <3>1 DEF HoldsOK, Fits
    <3>3. Reached(written[q])' = Reached(written[q])
      BY <3>1 DEF Reached, Flush1, Flush2, User, ProjectRow, TaskRows
    <3> QED BY <3>1, <3>2, <3>3 DEF HoldsOK
  <2> QED BY <2>1, <2>2
<1>4. ASSUME NEW q \in Script, NEW r \in Script, q # r, ~Reading(q)'
      PROVE  Locked(q)' \cap Locked(r)' = {}
  <2>1. CASE q = p
    BY <1>2, <1>4, <2>1
  <2>2. CASE r = p
    BY <1>2, <1>4, <2>2
  <2>3. CASE q # p /\ r # p
    <3>1. Locked(q) \cap Locked(r) = {}
      BY <1>1, <1>2, <1>4, <2>3 DEF LocksOK, Apart
    <3> QED BY <1>2, <2>3, <3>1
  <2> QED BY <2>1, <2>2, <2>3
<1> QED BY <1>3, <1>4 DEF LocksOK, Apart

\* Who has all the locks is alone.
LEMMA HoldsAll ==
  ASSUME IndInv, NEW p \in Script, step[p] = "altering", got[p] = All
  PROVE  \A q \in Script \ {p} : step[q] \notin {"altering", "inserting"}
<1> SUFFICES ASSUME NEW q \in Script \ {p}, step[q] \in {"altering", "inserting"}
             PROVE  FALSE
  OBVIOUS
<1>1. ScriptsOK /\ LocksOK
  BY TypeParts DEF IndInv
<1>2. got[q] \in 0..All /\ got[q] # 0
  BY <1>1 DEF ScriptsOK, LocksOK, HoldsOK, Reached
<1>3. Order(q)[1] \in Locked(q) /\ Order(q)[1] \in Tables
  <2>1. 1 \in 1..got[q] /\ 1 \in 1..3
    BY <1>2 DEF All, Ascending
  <2> QED BY <2>1, Orders DEF Locked
<1>4. ~Reading(p)
  BY DEF Reading
<1>5. Tables \subseteq Locked(p)
  BY <1>4, Orders DEF Locked
<1> QED BY <1>1, <1>3, <1>4, <1>5 DEF LocksOK, Apart

------------------------------------------------------------------------------
(* The parts of the invariant, when a script begins, goes on or ends.      *)

\* Nothing of the environment or of the rows changes.
Calm ==
  /\ UNCHANGED <<environment, tables, stamp, demo, samples, serving, downgraded>>

LEMMA CalmRows ==
  ASSUME IndInv, Calm
  PROVE  RowsOK' /\ StampMatches' /\ DemoWhole'
<1>1. RowsOK /\ StampMatches /\ DemoWhole
  BY TypeParts DEF IndInv
<1>2. RowsOK'
  BY <1>1 DEF RowsOK, Calm
<1>3. StampMatches'
  BY <1>1 DEF StampMatches, Calm
<1>4. DemoWhole'
  BY <1>1 DEF DemoWhole, Calm
<1> QED BY <1>2, <1>3, <1>4

\* Met only asks for high tables.
LEMMA MetKept ==
  ASSUME IndInv, environment' = environment, tables' \in 0..Latest,
         UNCHANGED <<serving, releases>>,
         \A i \in Image : pipe'[i] = "switch" =>
           pipe[i] = "switch" \/ downgraded' \/ HeadOf(i) <= tables',
         ~downgraded' => tables' = Latest \/ (~downgraded /\ tables <= tables'),
         ~downgraded' /\ environment = "development" => tables' \in {0, Latest}
  PROVE  Met'
<1> SUFFICES ASSUME ~downgraded'
             PROVE  /\ serving # None => HeadOf(serving) <= tables'
                    /\ \A i \in Image : pipe'[i] = "switch" => HeadOf(i) <= tables'
                    /\ \A k \in 1..Len(releases) : HeadOf(releases[k]) <= tables'
  BY DEF Met, HeadOf
<1>1. RowsOK /\ PipesOK /\ Met
  BY TypeParts DEF IndInv
<1>2. ASSUME NEW q \in Script, ~downgraded => HeadOf(q) <= tables
      PROVE  HeadOf(q) <= tables'
  <2>1. HeadOf(q) \in 1..Latest
    BY HeadType
  <2> QED BY <1>1, <1>2, <2>1 DEF RowsOK, Latest
<1>3. serving # None => HeadOf(serving) <= tables'
  <2> SUFFICES ASSUME serving # None PROVE HeadOf(serving) <= tables'
    OBVIOUS
  <2>1. serving \in Script
    BY <1>1 DEF RowsOK
  <2> QED BY <1>1, <1>2, <2>1 DEF Met
<1>4. ASSUME NEW i \in Image, pipe'[i] = "switch" PROVE HeadOf(i) <= tables'
  <2>1. i \in Script
    BY ImageAssumption
  <2> QED BY <1>1, <1>2, <1>4, <2>1 DEF Met
<1>5. ASSUME NEW k \in 1..Len(releases) PROVE HeadOf(releases[k]) <= tables'
  <2>1. releases[k] \in Script
    BY <1>1, ImageAssumption DEF PipesOK
  <2> QED BY <1>1, <1>2, <2>1 DEF Met
<1> QED BY <1>3, <1>4, <1>5

LEMMA EndLocks ==
  ASSUME IndInv, NEW p \in Script, End(p),
         \A q \in Script \ {p} : step[q] = "altering" => tables' = tables
  PROVE  LocksOK'
<1>1. ScriptsOK
  BY TypeParts DEF IndInv
<1>2. Stands(p) /\ Rests(p)
  BY <1>1, EndIs
<1>3. HoldsOK(p)'
  BY <1>2 DEF HoldsOK, Rests
<1>4. Locked(p)' = {}
  BY <1>2, NoLocks DEF Rests
<1> QED BY <1>2, <1>3, <1>4, LocksMove

LEMMA EndJobOK ==
  ASSUME IndInv, NEW p \in Script, End(p), environment' = environment,
         \A q \in Script \ {p} :
           step[q] = "begun" /\ ~downgraded' => saw[q] <= tables'
  PROVE  \A q \in Script : JobOK(q)'
<1>1. ScriptsOK /\ \A q \in Script : JobOK(q)
  BY TypeParts DEF IndInv
<1>2. Stands(p) /\ Rests(p)
  BY <1>1, EndIs
<1> TAKE q \in Script
<1>3. CASE q = p
  BY <1>2, <1>3 DEF JobOK, Rests
<1>4. CASE q # p
  <2>1. /\ job'[q] = job[q] /\ step'[q] = step[q]
        /\ saw'[q] = saw[q] /\ work'[q] = work[q]
    BY <1>2, <1>4 DEF Stands
  <2> QED BY <1>1, <1>4, <2>1 DEF JobOK
<1> QED BY <1>3, <1>4

LEMMA EndSeedOK ==
  ASSUME IndInv, NEW p \in Script, End(p),
         \A q \in Script \ {p} : written[q] # {} => demo'.by = None
  PROVE  \A q \in Script : SeedOK(q)'
<1>1. ScriptsOK /\ \A q \in Script : SeedOK(q)
  BY TypeParts DEF IndInv
<1>2. Stands(p) /\ Rests(p)
  BY <1>1, EndIs
<1> TAKE q \in Script
<1>3. CASE q = p
  BY <1>2, <1>3 DEF SeedOK, Rests
<1>4. CASE q # p
  <2>1. written'[q] = written[q] /\ step'[q] = step[q]
    BY <1>2, <1>4 DEF Stands
  <2>2. \A r \in Script : written'[r] = written[r] \/ written'[r] = {}
    BY <1>2 DEF Stands, Rests
  <2>3. written[q] # {} => \A r \in Script \ {q} : written'[r] = {}
    BY <1>1, <2>2 DEF SeedOK
  <2>4. written[q] \in {{}, {User}, Flush1, Flush2}
        /\ (written[q] # {} => step[q] = "inserting" /\ demo'.by = None)
    BY <1>1, <1>4 DEF SeedOK
  <2>5. UNCHANGED <<{User}, Flush1, Flush2>>
    BY DEF User, Flush1, Flush2, ProjectRow, TaskRows
  <2> QED BY <2>1, <2>3, <2>4, <2>5 DEF SeedOK
<1> QED BY <1>3, <1>4

\* When no row changes, the scripts and the jobs are all there is to see to.
LEMMA CalmKeeps ==
  ASSUME IndInv, Calm, UNCHANGED releases, pipe' \in [Image -> Pipes],
         \A i \in Image : pipe'[i] = "switch" =>
           pipe[i] = "switch" \/ downgraded \/ HeadOf(i) <= tables,
         ScriptsOK', LocksOK',
         \A q \in Script : JobOK(q)', \A q \in Script : SeedOK(q)'
  PROVE  IndInv'
<1>1. environment \in {"development", "production"} /\ RowsOK /\ PipesOK /\ Met
  BY TypeParts DEF IndInv
<1>2. RowsOK' /\ StampMatches' /\ DemoWhole'
  BY CalmRows
<1>3. TypeOK'
  BY <1>1, <1>2 DEF Calm, TypeOK, RowsOK, ScriptsOK, PipesOK, Steps, Pipes
<1>4. Met'
  <2>1. /\ UNCHANGED <<environment, serving, releases>> /\ tables' = tables
        /\ downgraded' = downgraded
    BY DEF Calm
  <2>2. tables \in 0..Latest /\ tables <= tables
    BY <1>1 DEF RowsOK, Latest
  <2>3. ~downgraded /\ environment = "development" => tables \in {0, Latest}
    BY <1>1 DEF Met
  <2> QED BY <2>1, <2>2, <2>3, MetKept
<1> QED BY <1>2, <1>3, <1>4 DEF IndInv

\* A script ends, and no row has changed.
LEMMA Quits ==
  ASSUME IndInv, NEW p \in Script, End(p), Calm, UNCHANGED releases,
         pipe' \in [Image -> Pipes],
         \A i \in Image : pipe'[i] = "switch" =>
           pipe[i] = "switch" \/ downgraded \/ HeadOf(i) <= tables
  PROVE  IndInv'
<1>1. RowsOK /\ ScriptsOK /\ \A q \in Script : JobOK(q) /\ SeedOK(q)
  BY TypeParts DEF IndInv
<1>2. ScriptsOK'
  BY <1>1, EndIs
<1>3. LocksOK'
  BY EndLocks DEF Calm
<1>4. \A q \in Script : JobOK(q)'
  <2>1. \A q \in Script \ {p} : step[q] = "begun" /\ ~downgraded' => saw[q] <= tables'
    BY <1>1 DEF JobOK, Calm
  <2> QED BY <2>1, EndJobOK DEF Calm
<1>5. \A q \in Script : SeedOK(q)'
  <2>1. \A q \in Script \ {p} : written[q] # {} => demo'.by = None
    BY <1>1 DEF SeedOK, Calm
  <2> QED BY <2>1, EndSeedOK
<1> QED BY <1>2, <1>3, <1>4, <1>5, CalmKeeps

\* A script begins.
LEMMA Begins ==
  ASSUME IndInv, NEW p \in Script, NEW j \in Jobs, Begin(p, j), Calm,
         environment = "production" => j \in Migrations,
         p \in Image => environment = "production" /\ j = "upgrade",
         UNCHANGED releases, pipe' \in [Image -> Pipes],
         \A i \in Image : pipe'[i] = "switch" => pipe[i] = "switch"
  PROVE  IndInv'
<1>1. /\ RowsOK /\ ScriptsOK /\ StampMatches /\ LocksOK
      /\ \A q \in Script : JobOK(q) /\ SeedOK(q)
  BY TypeParts DEF IndInv
<1>2. /\ ScriptsOK' /\ Stands(p)
      /\ step'[p] = "begun" /\ job'[p] = j /\ work'[p] = stamp
      /\ saw'[p] = IF j \in {"start", "seed"} THEN tables ELSE stamp
      /\ got'[p] = got[p] /\ written'[p] = written[p]
  BY <1>1, BeginIs
<1>3. LocksOK'
  <2>1. got'[p] = 0
    BY <1>1, <1>2 DEF LocksOK, HoldsOK, Begin
  <2>2. HoldsOK(p)'
    BY <1>2, <2>1 DEF HoldsOK
  <2>3. Locked(p)' = {}
    BY <2>1, NoLocks
  <2> QED BY <1>2, <2>2, <2>3, LocksMove DEF Calm
<1>4. ASSUME NEW q \in Script PROVE JobOK(q)'
  <2>1. CASE q = p
    <3>1. saw'[p] <= tables
      BY <1>1, <1>2 DEF RowsOK, StampMatches, Latest
    <3>2. j \in Migrations => work'[p] = saw'[p]
      BY <1>2 DEF Migrations
    <3> QED BY <1>2, <2>1, <3>1, <3>2 DEF JobOK, Calm
  <2>2. CASE q # p
    BY <1>1, <1>2, <2>2 DEF JobOK, Stands, Calm
  <2> QED BY <2>1, <2>2
<1>5. ASSUME NEW q \in Script PROVE SeedOK(q)'
  <2>1. \A r \in Script : written'[r] = written[r]
    BY <1>2 DEF Stands
  <2>2. step[p] = "idle"
    BY DEF Begin
  <2>3. written[q] # {} => q # p /\ step'[q] = step[q]
    BY <1>1, <1>2, <2>2 DEF SeedOK, Stands
  <2> QED BY <1>1, <2>1, <2>3 DEF SeedOK, Calm, Flush1, Flush2, User, ProjectRow, TaskRows
<1> QED BY <1>2, <1>3, <1>4, <1>5, CalmKeeps

------------------------------------------------------------------------------
(* The projects of seed.py.                                                *)

LEMMA TwoProjects ==
  /\ Len(PROJECTS) = 2 /\ DOMAIN PROJECTS = {1, 2}
  /\ \A n \in {1, 2} : DOMAIN PROJECTS[n] = 1..6
<1>1. Len(PROJECTS) = 2 /\ DOMAIN PROJECTS = {1, 2}
  BY DEF PROJECTS
<1>2. DOMAIN PROJECTS[1] = 1..6 /\ DOMAIN PROJECTS[2] = 1..6
  BY DEF PROJECTS
<1> QED BY <1>1, <1>2

LEMMA Rows ==
  /\ \A n \in {1, 2} : TaskRows(n) = {<<n, i>> : i \in 1..6}
  /\ Sample = (Flush2 \ {User}) \cup TaskRows(2)
<1>1. \A n \in {1, 2} : TaskRows(n) = {<<n, i>> : i \in 1..6}
  BY TwoProjects DEF TaskRows
<1>2. Sample = (ProjectRow(1) \cup TaskRows(1)) \cup (ProjectRow(2) \cup TaskRows(2))
  BY TwoProjects DEF Sample
<1>3. User \notin ProjectRow(1) \cup ProjectRow(2) \cup TaskRows(1)
  BY <1>1 DEF User, ProjectRow
<1> QED BY <1>1, <1>2, <1>3 DEF Flush1, Flush2

\* Which rows tell the flushes apart.
LEMMA Flushes ==
  /\ User # <<1, 0>> /\ User # <<2, 0>>
  /\ User \in Flush1 /\ <<1, 0>> \in Flush1 /\ <<2, 0>> \notin Flush1
  /\ User \in Flush2 /\ <<1, 0>> \in Flush2 /\ <<2, 0>> \in Flush2
  /\ {User} \subseteq Sample \cup {User} /\ Flush1 \subseteq Sample \cup {User}
  /\ Flush2 \subseteq Sample \cup {User}
<1>1. User # <<1, 0>> /\ User # <<2, 0>>
  BY DEF User
<1>2. User \in Flush1 /\ <<1, 0>> \in Flush1 /\ <<2, 0>> \notin Flush1
  BY <1>1 DEF Flush1, ProjectRow
<1>3. User \in Flush2 /\ <<1, 0>> \in Flush2 /\ <<2, 0>> \in Flush2
  BY <1>2 DEF Flush2, ProjectRow
<1>4. Flush1 \subseteq Flush2 /\ Flush2 \subseteq Sample \cup {User}
  BY Rows DEF Flush2
<1> QED BY <1>1, <1>2, <1>3, <1>4

\* A whole set of sample data has tasks of every status but CANCELLED.
LEMMA Statuses ==
  ASSUME NEW p \in Script, NEW s \in TaskStatus \ {"CANCELLED"}
  PROVE  \E row \in {p} \X Sample :
           row[2][2] # 0 /\ PROJECTS[row[2][1]][row[2][2]] = s
<1>1. \E i \in 1..6 : PROJECTS[1][i] = s
  <2>1. /\ PROJECTS[1][1] = "DONE" /\ PROJECTS[1][3] = "IN_REVIEW"
        /\ PROJECTS[1][4] = "IN_PROGRESS" /\ PROJECTS[1][5] = "TODO"
    BY DEF PROJECTS
  <2> QED BY <2>1 DEF TaskStatus
<1>2. PICK i \in 1..6 : PROJECTS[1][i] = s
  BY <1>1
<1>3. <<1, i>> \in Sample /\ i # 0
  <2>1. <<1, i>> \in TaskRows(1)
    BY TwoProjects DEF TaskRows
  <2> QED BY <2>1, TwoProjects DEF Sample
<1> DEFINE row == <<p, <<1, i>>>>
<1>4. row \in {p} \X Sample /\ row[2][2] = i /\ row[2][1] = 1
  BY <1>3
<1> QED BY <1>2, <1>3, <1>4

------------------------------------------------------------------------------
(* What a script does.                                                     *)

\* One more lock, for a statement that alters or creates.
LEMMA LockNextKeeps ==
  ASSUME IndInv, NEW p \in Script, LockNext(p), step[p] \in {"begun", "altering"},
         step[p] = "begun" => Fits(p),
         step'[p] = "altering", UNCHANGED <<job, saw, tables>>, Stands(p)
  PROVE  LocksOK'
<1>1. ScriptsOK /\ LocksOK
  BY TypeParts DEF IndInv
<1>2. got[p] \in Nat /\ got'[p] = got[p] + 1
  BY <1>1 DEF ScriptsOK, LockNext
<1>3. ~Reading(p) /\ Reading(p)' = Reading(p)
  BY DEF Reading
<1>4. HoldsOK(p)'
  <2>1. Fits(p)'
    BY <1>1 DEF LocksOK, HoldsOK, Fits
  <2> QED BY <1>2, <2>1 DEF HoldsOK
<1>5. Locked(p)' = Locked(p) \cup {Order(p)[got[p] + 1]}
  BY <1>2, <1>3, MoreLocks
<1>6. \A q \in Script \ {p} : Locked(p) \cap Locked(q) = {}
  BY <1>1, <1>3 DEF LocksOK, Apart
<1>7. \A q \in Script \ {p} : Order(p)[got[p] + 1] \notin Locked(q)
  BY DEF LockNext, MayAlter
<1> QED BY <1>4, <1>5, <1>6, <1>7, LocksMove

\* A statement that alters or creates has run, or waits no longer.
LEMMA AltersOn ==
  ASSUME IndInv, NEW p \in Script, step[p] \in {"begun", "altering"},
         step[p] = "begun" => Fits(p),
         job[p] \in Migrations \/ (job[p] \in {"start", "seed"} /\ saw[p] = 0),
         Goes(p, "altering"), Calm, UNCHANGED <<written, pipe, releases>>,
         LockNext(p) \/ (got[p] = All /\ got' = got),
         work' \in [Script -> 0..Latest],
         \A q \in Script \ {p} : work'[q] = work[q]
  PROVE  IndInv'
<1>1. /\ RowsOK /\ ScriptsOK /\ PipesOK /\ LocksOK
      /\ \A q \in Script : JobOK(q) /\ SeedOK(q)
  BY TypeParts DEF IndInv
<1>3. /\ step' \in [Script -> Steps] /\ step'[p] = "altering"
      /\ job' = job /\ saw' = saw
      /\ \A q \in Script \ {p} : step'[q] = step[q]
  BY <1>1, GoesIs DEF Steps
<1>4. /\ got' \in [Script -> 0..All]
      /\ \A q \in Script \ {p} : got'[q] = got[q]
  <2>1. CASE LockNext(p)
    BY <1>1, <2>1 DEF LockNext, ScriptsOK, All, Ascending
  <2>2. CASE got' = got
    BY <1>1, <2>2 DEF ScriptsOK
  <2> QED BY <2>1, <2>2
<1>6. ScriptsOK' /\ Stands(p)
  BY <1>1, <1>3, <1>4 DEF ScriptsOK, Stands
<1>7. LocksOK'
  <2>1. CASE LockNext(p)
    BY <1>3, <1>6, <2>1, LockNextKeeps DEF Calm
  <2>2. CASE got[p] = All /\ got' = got
    <3>1. step[p] = "altering"
      BY <1>1, <2>2 DEF LocksOK, HoldsOK, All, Ascending
    <3>2. Locked(p)' = Locked(p) /\ Reading(p)' = Reading(p) /\ ~Reading(p)
      BY <1>3, <2>2, <3>1, SameLocks DEF Reading
    <3>3. HoldsOK(p)'
      BY <1>1, <1>3, <2>2, <3>1 DEF LocksOK, HoldsOK, Fits, Calm
    <3>4. \A q \in Script \ {p} : Locked(p)' \cap Locked(q) = {}
      BY <1>1, <3>2 DEF LocksOK, Apart
    <3> QED BY <1>6, <3>3, <3>4, LocksMove DEF Calm
  <2> QED BY <2>1, <2>2
<1>8. ASSUME NEW q \in Script PROVE JobOK(q)'
  <2>1. CASE q = p
    BY <1>1, <1>3, <2>1 DEF JobOK, Calm
  <2>2. CASE q # p
    BY <1>1, <1>3, <2>2 DEF JobOK, Calm
  <2> QED BY <2>1, <2>2
<1>9. ASSUME NEW q \in Script PROVE SeedOK(q)'
  <2>1. written[q] # {} => step'[q] = step[q]
    BY <1>1, <1>3 DEF SeedOK
  <2> QED BY <1>1, <2>1
       DEF SeedOK, Calm, Flush1, Flush2, User, ProjectRow, TaskRows
<1> QED BY <1>1, <1>6, <1>7, <1>8, <1>9, CalmKeeps DEF PipesOK

LEMMA AlterKeeps ==
  ASSUME IndInv, NEW p \in Script, NEW from \in 0..Latest, NEW to \in 0..Latest,
         Alter(p, from, to), job[p] \in Migrations,
         UNCHANGED <<environment, pipe, releases>>
  PROVE  IndInv'
<1>1. ScriptsOK
  BY TypeParts DEF IndInv
<1>2. Calm
  BY DEF Alter, Calm, database
<1>3. /\ work' \in [Script -> 0..Latest]
      /\ \A q \in Script \ {p} : work'[q] = work[q]
  BY <1>1 DEF Alter, ScriptsOK
<1> QED BY <1>2, <1>3, AltersOn DEF Alter

LEMMA CreateTableKeeps ==
  ASSUME IndInv, NEW p \in Script, CreateTable(p),
         UNCHANGED <<environment, pipe, releases>>
  PROVE  IndInv'
<1>1. ScriptsOK
  BY TypeParts DEF IndInv
<1>2. Calm
  BY DEF CreateTable, Calm, database
<1>3. work' \in [Script -> 0..Latest]
  BY <1>1 DEF CreateTable, ScriptsOK
<1>4. step[p] = "begun" => Fits(p)
  BY DEF CreateTable, Fits
<1> QED BY <1>2, <1>3, <1>4, AltersOn DEF CreateTable

LEMMA FindKeeps ==
  ASSUME IndInv, NEW p \in Script, FindDemoUser(p), Goes(p, "inserting"),
         got' = [got EXCEPT ![p] = 1],
         UNCHANGED <<work, written, environment, pipe, releases>>
  PROVE  IndInv'
<1>1. /\ RowsOK /\ ScriptsOK /\ PipesOK /\ LocksOK
      /\ \A q \in Script : JobOK(q) /\ SeedOK(q)
  BY TypeParts DEF IndInv
<1>2. Calm
  BY DEF FindDemoUser, Calm, database
<1>3. /\ step' \in [Script -> Steps] /\ step'[p] = "inserting"
      /\ job' = job /\ saw' = saw
      /\ \A q \in Script \ {p} : step'[q] = step[q]
  BY <1>1, GoesIs DEF Steps
<1>4. /\ got' \in [Script -> 0..All] /\ got'[p] = 1
      /\ \A q \in Script \ {p} : got'[q] = got[q]
  BY <1>1 DEF ScriptsOK, All, Ascending
<1>5. ScriptsOK' /\ Stands(p)
  BY <1>1, <1>3, <1>4 DEF ScriptsOK, Stands
<1>6. step[p] = "created" /\ MayRead(p, "users") /\ written[p] = {}
  BY <1>1 DEF FindDemoUser, SeedOK
<1>7. LocksOK'
  <2>1. HoldsOK(p)'
    <3>1. Reached(written[p])' = 1
      BY <1>6 DEF Reached, Flush1, Flush2
    <3> QED BY <1>3, <1>4, <3>1 DEF HoldsOK
  <2>2. Locked(p)' = {"users"}
    <3>1. Order(p)' = <<"users", "projects", "tasks">>
      BY <1>3 DEF Order, Reading
    <3>2. Order(p)'[1] = "users" /\ 1..got'[p] = {1}
      BY <1>4, <3>1
    <3> QED BY <3>2 DEF Locked
  <2>3. \A q \in Script \ {p} : ~Reading(q) => "users" \notin Locked(q)
    BY <1>6 DEF MayRead
  <2>4. Reading(p)'
    BY <1>3 DEF Reading
  <2> QED BY <1>2, <1>5, <2>1, <2>2, <2>3, <2>4, LocksMove DEF Calm
<1>8. ASSUME NEW q \in Script PROVE JobOK(q)'
  <2>1. CASE q = p
    BY <1>1, <1>2, <1>3, <1>6, <2>1 DEF JobOK, Calm
  <2>2. CASE q # p
    BY <1>1, <1>2, <1>3, <2>2 DEF JobOK, Calm
  <2> QED BY <2>1, <2>2
<1>9. ASSUME NEW q \in Script PROVE SeedOK(q)'
  <2>1. written[q] # {} => step'[q] = step[q]
    BY <1>1, <1>3, <1>6 DEF SeedOK
  <2> QED BY <1>1, <1>2, <2>1
       DEF SeedOK, Calm, Flush1, Flush2, User, ProjectRow, TaskRows
<1> QED BY <1>1, <1>2, <1>5, <1>7, <1>8, <1>9, CalmKeeps DEF PipesOK

\* A flush changes the rows inside one transaction, and may come to one more
\* table, which nobody alters.
LEMMA FlushKeeps ==
  ASSUME IndInv, NEW p \in Script, NEW rows \in {{User}, Flush1, Flush2},
         written' = [written EXCEPT ![p] = rows],
         step[p] = "inserting", demo.by = None,
         got' \in [Script -> 0..All],
         \A q \in Script \ {p} : written[q] = {} /\ got'[q] = got[q],
         got'[p] = Reached(rows),
         \/ got'[p] = got[p]
         \/ got'[p] = got[p] + 1 /\ MayRead(p, Order(p)[got[p] + 1]),
         Calm, UNCHANGED <<job, step, saw, work, pipe, releases>>
  PROVE  IndInv'
<1>1. /\ RowsOK /\ ScriptsOK /\ PipesOK /\ LocksOK
      /\ \A q \in Script : JobOK(q) /\ SeedOK(q)
  BY TypeParts DEF IndInv
<1>2. /\ written' \in [Script -> SUBSET (Sample \cup {User})]
      /\ written'[p] = rows /\ \A q \in Script \ {p} : written'[q] = {}
  BY <1>1, Flushes DEF ScriptsOK
<1>3. ScriptsOK' /\ Stands(p)
  BY <1>1, <1>2 DEF ScriptsOK, Stands
<1>4. LocksOK'
  <2>1. HoldsOK(p)'
    <3>1. Reached(written[p])' = Reached(rows)
      BY <1>2 DEF Reached, Flush1, Flush2, User, ProjectRow, TaskRows
    <3> QED BY <3>1 DEF HoldsOK
  <2>2. Reading(p) /\ Reading(p)'
    BY DEF Reading
  <2>3. \A q \in Script \ {p} : ~Reading(q) => Locked(p) \cap Locked(q) = {}
    BY <1>1 DEF LocksOK, Apart
  <2>4. CASE got'[p] = got[p]
    <3>1. Locked(p)' = Locked(p)
      BY <2>4, SameLocks
    <3> QED BY <1>3, <2>1, <2>2, <2>3, <3>1, LocksMove DEF Calm
  <2>5. CASE got'[p] = got[p] + 1 /\ MayRead(p, Order(p)[got[p] + 1])
    <3>1. got[p] \in Nat
      BY <1>1 DEF ScriptsOK
    <3>2. Locked(p)' = Locked(p) \cup {Order(p)[got[p] + 1]}
      BY <2>2, <2>5, <3>1, MoreLocks
    <3>3. \A q \in Script \ {p} : ~Reading(q) => Order(p)[got[p] + 1] \notin Locked(q)
      BY <2>5 DEF MayRead
    <3> QED BY <1>3, <2>1, <2>2, <2>3, <3>2, <3>3, LocksMove DEF Calm
  <2> QED BY <2>4, <2>5
<1>5. \A q \in Script : JobOK(q)'
  BY <1>1 DEF JobOK, Calm
<1>6. ASSUME NEW q \in Script PROVE SeedOK(q)'
  <2>1. CASE q = p
    BY <1>2, <2>1 DEF SeedOK, Calm, Flush1, Flush2, User, ProjectRow, TaskRows
  <2>2. CASE q # p
    BY <1>2, <2>2 DEF SeedOK
  <2> QED BY <2>1, <2>2
<1> QED BY <1>1, <1>3, <1>4, <1>5, <1>6, CalmKeeps DEF PipesOK

\* How far a seed has come, flush by flush.
LEMMA ReachedIs ==
  Reached({}) = 1 /\ Reached({User}) = 1 /\ Reached(Flush1) = 2 /\ Reached(Flush2) = 3
<1>1. {} # Flush1 /\ {} # Flush2 /\ {User} # Flush1 /\ {User} # Flush2 /\ Flush1 # Flush2
  BY Flushes
<1> QED BY <1>1 DEF Reached

LEMMA InsertUserKeeps ==
  ASSUME IndInv, NEW p \in Script, InsertUser(p),
         UNCHANGED <<environment, pipe, releases>>
  PROVE  IndInv'
<1>1. ScriptsOK /\ HoldsOK(p) /\ \A q \in Script : SeedOK(q)
  BY TypeParts DEF IndInv, LocksOK
<1>2. \A q \in Script : written[q] = {}
  BY <1>1, Flushes DEF SeedOK, InsertUser
<1>3. Calm
  BY DEF InsertUser, Calm, database
<1>4. got' \in [Script -> 0..All] /\ got' = got /\ got[p] = Reached({User})
  BY <1>1, ReachedIs DEF InsertUser, ScriptsOK, HoldsOK
<1> QED BY <1>2, <1>3, <1>4, FlushKeeps DEF InsertUser

LEMMA InsertProjectKeeps ==
  ASSUME IndInv, NEW p \in Script, NEW n \in DOMAIN PROJECTS, InsertProject(p, n),
         UNCHANGED <<environment, pipe, releases>>
  PROVE  IndInv'
<1>1. ScriptsOK /\ HoldsOK(p) /\ SeedOK(p)
  BY TypeParts DEF IndInv, LocksOK
<1>2. /\ User \in written[p] /\ <<n, 0>> \notin written[p]
      /\ n > 1 => <<n - 1, 0>> \in written[p]
      /\ MayRead(p, Order(p)[n + 1])
      /\ got' = [got EXCEPT ![p] = n + 1]
      /\ written' = [written EXCEPT ![p] = written[p] \cup ProjectRow(n)
                       \cup (IF n > 1 THEN TaskRows(n - 1) ELSE {})]
  BY DEF InsertProject
<1>3. /\ step[p] = "inserting" /\ demo.by = None
      /\ \A q \in Script \ {p} : written[q] = {}
      /\ written[p] \in {{User}, Flush1, Flush2}
      /\ got[p] = Reached(written[p])
  BY <1>1, <1>2 DEF SeedOK, HoldsOK
<1>4. Calm
  BY DEF InsertProject, Calm, database
<1>5. n \in {1, 2}
  BY TwoProjects
<1>6. /\ got' \in [Script -> 0..All] /\ got'[p] = n + 1
      /\ \A q \in Script \ {p} : got'[q] = got[q]
  BY <1>1, <1>2, <1>5 DEF ScriptsOK, All, Ascending
<1>7. CASE n = 1
  <2>1. written[p] = {User}
    BY <1>2, <1>3, <1>7, Flushes
  <2>2. written' = [written EXCEPT ![p] = Flush1]
    BY <1>2, <1>7, <2>1 DEF Flush1
  <2>3. got[p] = 1 /\ got'[p] = Reached(Flush1) /\ got'[p] = got[p] + 1
    BY <1>3, <1>6, <1>7, <2>1, ReachedIs
  <2>4. MayRead(p, Order(p)[got[p] + 1])
    BY <1>2, <1>7, <2>3
  <2> QED BY <1>3, <1>4, <1>6, <2>2, <2>3, <2>4, FlushKeeps DEF InsertProject
<1>8. CASE n = 2
  <2>1. <<1, 0>> \in written[p]
    BY <1>2, <1>8
  <2>2. written[p] = Flush1
    BY <1>2, <1>3, <1>8, <2>1, Flushes
  <2>3. written' = [written EXCEPT ![p] = Flush2]
    BY <1>2, <1>8, <2>2 DEF Flush2
  <2>4. got[p] = 2 /\ got'[p] = Reached(Flush2) /\ got'[p] = got[p] + 1
    BY <1>3, <1>6, <1>8, <2>2, ReachedIs
  <2>5. MayRead(p, Order(p)[got[p] + 1])
    BY <1>2, <1>8, <2>4
  <2> QED BY <1>3, <1>4, <1>6, <2>3, <2>4, <2>5, FlushKeeps DEF InsertProject
<1> QED BY <1>5, <1>7, <1>8

\* When p commits, what the tables were before, at the least, is there after.
LEMMA CommitMigrationKeeps ==
  ASSUME IndInv, NEW p \in Script, CommitMigration(p),
         UNCHANGED <<environment, releases>>,
         IF p \in Image THEN Turns(p, "switch") ELSE UNCHANGED pipe
  PROVE  IndInv'
<1>1. /\ environment \in {"development", "production"}
      /\ RowsOK /\ ScriptsOK /\ PipesOK /\ LocksOK /\ Met /\ DemoWhole
      /\ \A q \in Script : JobOK(q) /\ SeedOK(q)
  BY TypeParts DEF IndInv
<1>2. /\ step[p] = "altering" /\ got[p] = All /\ work[p] = Target(p)
      /\ Known(p) /\ job[p] \in Migrations
      /\ tables' = work[p] /\ stamp' = work[p]
      /\ demo' = Carried(work[p])
      /\ samples' = IF work[p] = 0 THEN {} ELSE samples
      /\ downgraded' = (job[p] = "downgrade" \/ (downgraded /\ work[p] < Latest))
      /\ End(p) /\ serving' = serving
  BY DEF CommitMigration, Migrates, Migrations
<1>3. work[p] \in 0..Latest /\ HeadOf(p) \in 1..Latest
  BY <1>1, HeadType DEF ScriptsOK
<1>4. ScriptsOK'
  BY <1>1, <1>2, EndIs
<1>5. RowsOK'
  <2>1. Carried(work[p]) \in [by : Script \cup {"api", None}, deleted : BOOLEAN]
    <3>1. NoAccount \in [by : Script \cup {"api", None}, deleted : BOOLEAN]
      BY DEF NoAccount
    <3>2. (demo.deleted /\ work[p] = Latest) \in BOOLEAN
      OBVIOUS
    <3>3. [demo EXCEPT !.deleted = demo.deleted /\ work[p] = Latest]
            \in [by : Script \cup {"api", None}, deleted : BOOLEAN]
      BY <1>1, <3>2 DEF RowsOK
    <3> QED BY <3>1, <3>3 DEF Carried
  <2>2. downgraded' \in BOOLEAN
    BY <1>2
  <2> QED BY <1>1, <1>2, <1>3, <2>1, <2>2 DEF RowsOK
<1>6. pipe' \in [Image -> Pipes]
  BY <1>1 DEF PipesOK, Turns, Pipes
<1>7. TypeOK'
  BY <1>1, <1>4, <1>5, <1>6 DEF TypeOK, RowsOK, ScriptsOK, PipesOK, Steps, Pipes
<1>8. StampMatches'
  BY <1>2 DEF StampMatches
<1>9. \A q \in Script \ {p} : step[q] \notin {"altering", "inserting"}
  BY <1>2, HoldsAll
<1>10. LocksOK'
  BY <1>2, <1>9, EndLocks
<1>11. ~downgraded' => work[p] = Latest \/ (~downgraded /\ tables <= work[p])
  <2> SUFFICES ASSUME ~downgraded', work[p] # Latest
               PROVE  ~downgraded /\ tables <= work[p]
    OBVIOUS
  <2>1. ~downgraded /\ job[p] = "upgrade"
    <3>1. work[p] < Latest
      BY <1>3 DEF Latest
    <3> QED BY <1>2, <3>1 DEF Migrations
  <2>2. work[p] = HeadOf(p) /\ saw[p] <= HeadOf(p)
    BY <1>2, <2>1 DEF Target, Known
  <2>3. tables = saw[p]
    BY <1>1, <1>2, <2>1 DEF LocksOK, HoldsOK, Fits
  <2> QED BY <2>1, <2>2, <2>3
<1>12. \A q \in Script : JobOK(q)'
  <2>1. ASSUME NEW q \in Script \ {p}, step[q] = "begun", ~downgraded'
        PROVE  saw[q] <= tables'
    <3>1. saw[q] \in 0..Latest /\ tables \in 0..Latest
      BY <1>1 DEF ScriptsOK, RowsOK
    <3>2. ~downgraded => saw[q] <= tables
      BY <1>1, <2>1 DEF JobOK
    <3> QED BY <1>2, <1>3, <1>11, <2>1, <3>1, <3>2 DEF Latest
  <2> QED BY <1>2, <2>1, EndJobOK
<1>13. Met'
  <2>1. ~downgraded' => job[p] = "upgrade" /\ work[p] = HeadOf(p)
    BY <1>2 DEF Target, Migrations
  <2>2. \A i \in Image : pipe'[i] = "switch" =>
          pipe[i] = "switch" \/ downgraded' \/ HeadOf(i) <= tables'
    <3>1. HeadOf(p) <= HeadOf(p)
      BY <1>3 DEF Latest
    <3> QED BY <1>1, <1>2, <2>1, <3>1 DEF PipesOK, Turns
  <2>3. ~downgraded' => tables' = Latest \/ (~downgraded /\ tables <= tables')
    BY <1>2, <1>11
  <2>4. ~downgraded' /\ environment = "development" => tables' \in {0, Latest}
    BY <1>2, <2>1 DEF HeadOf
  <2>5. tables' \in 0..Latest
    BY <1>2, <1>3
  <2> QED BY <1>2, <2>2, <2>3, <2>4, <2>5, MetKept
<1>14. \A q \in Script \ {p} : written[q] = {}
  BY <1>1, <1>9 DEF SeedOK
<1>15. \A q \in Script : SeedOK(q)'
  BY <1>2, <1>14, EndSeedOK
<1>16. DemoWhole'
  <2>1. CASE work[p] = 0
    <3>1. demo'.by = None /\ samples' = {}
      BY <1>2, <2>1 DEF Carried, NoAccount
    <3>2. None \notin Script
      BY SchemaAssumption
    <3> QED BY <3>1, <3>2 DEF DemoWhole
  <2>2. CASE work[p] # 0
    <3>1. demo'.by = demo.by /\ samples' = samples
      BY <1>1, <1>2, <2>2 DEF Carried, RowsOK
    <3> QED BY <1>1, <3>1 DEF DemoWhole
  <2> QED BY <2>1, <2>2
<1> QED BY <1>7, <1>8, <1>10, <1>12, <1>13, <1>15, <1>16 DEF IndInv

LEMMA NothingToMigrateKeeps ==
  ASSUME IndInv, NEW p \in Script, NothingToMigrate(p),
         UNCHANGED <<environment, releases>>,
         IF p \in Image THEN Turns(p, "switch") ELSE UNCHANGED pipe
  PROVE  IndInv'
<1>1. PipesOK /\ JobOK(p)
  BY TypeParts DEF IndInv
<1>2. Calm /\ End(p) /\ step[p] = "begun" /\ work[p] = Target(p)
      /\ job[p] \in Migrations
  BY DEF NothingToMigrate, Migrates, Migrations, Calm, database
<1>3. pipe' \in [Image -> Pipes]
  BY <1>1 DEF PipesOK, Turns, Pipes
<1>4. p \in Image => downgraded \/ HeadOf(p) <= tables
  BY <1>1, <1>2 DEF JobOK, Target
<1>5. \A i \in Image : pipe'[i] = "switch" =>
        pipe[i] = "switch" \/ downgraded \/ HeadOf(i) <= tables
  BY <1>1, <1>4 DEF PipesOK, Turns
<1> QED BY <1>2, <1>3, <1>5, Quits

LEMMA SeedersHaveNoPipe ==
  ASSUME IndInv, NEW p \in Script, step[p] # "idle", job[p] \in {"start", "seed"}
  PROVE  p \notin Image /\ environment = "development"
<1>1. JobOK(p) /\ environment \in {"development", "production"}
  BY TypeParts DEF IndInv
<1> QED BY <1>1 DEF JobOK, Migrations

\* What create_all commits: the tables are made, or stay as they are.
LEMMA CommitTablesKeeps ==
  ASSUME IndInv, NEW p \in Script, CommitTables(p), job[p] \in {"start", "seed"},
         UNCHANGED <<environment, releases, pipe>>
  PROVE  /\ tables' \in 0..Latest
         /\ StampMatches'
         /\ ~downgraded => tables' = Latest
         /\ tables # 0 => tables' = tables
         /\ tables # tables' => \A q \in Script \ {p} : step[q] # "altering"
<1>1. /\ RowsOK /\ StampMatches /\ Met /\ JobOK(p) /\ HoldsOK(p)
      /\ saw[p] \in 0..Latest
  BY TypeParts DEF IndInv, ScriptsOK, LocksOK
<1>2. environment = "development" /\ UNCHANGED <<stamp, environment>>
  BY SeedersHaveNoPipe DEF CommitTables
<1>3. HeadOf(p) = Latest
  BY <1>2 DEF HeadOf
<1>4. CASE step[p] = "altering" /\ got[p] = All /\ tables' = HeadOf(p)
  <2>1. tables = 0
    BY <1>1, <1>4 DEF HoldsOK, Fits, JobOK, Migrations
  <2>2. stamp = 0 /\ stamp' = 0
    BY <1>1, <1>2, <2>1 DEF StampMatches
  <2>3. \A q \in Script \ {p} : step[q] # "altering"
    BY <1>4, HoldsAll
  <2> QED BY <1>2, <1>3, <1>4, <2>1, <2>2, <2>3 DEF StampMatches, Latest
<1>5. CASE step[p] = "begun" /\ saw[p] # 0 /\ tables' = tables
  <2>1. StampMatches'
    BY <1>1, <1>2, <1>5 DEF StampMatches
  <2>2. ASSUME ~downgraded PROVE tables' = Latest
    <3>1. saw[p] <= tables /\ tables \in {0, Latest}
      BY <1>1, <1>2, <1>5, <2>2 DEF JobOK, Met
    <3> QED BY <1>1, <1>5, <3>1 DEF Latest
  <2> QED BY <1>1, <1>5, <2>1, <2>2 DEF RowsOK
<1> QED BY <1>4, <1>5 DEF CommitTables

LEMMA StartApiKeeps ==
  ASSUME IndInv, NEW p \in Script, StartApi(p),
         UNCHANGED <<environment, releases, pipe>>
  PROVE  IndInv'
<1>1. /\ environment \in {"development", "production"}
      /\ RowsOK /\ ScriptsOK /\ PipesOK /\ Met /\ DemoWhole
      /\ \A q \in Script : JobOK(q) /\ SeedOK(q)
  BY TypeParts DEF IndInv
<1>2. job[p] = "start" /\ CommitTables(p) /\ serving' = p /\ End(p)
  BY DEF StartApi
<1>3. UNCHANGED <<stamp, demo, samples, downgraded>>
  BY <1>2 DEF CommitTables
<1>4. /\ tables' \in 0..Latest /\ StampMatches'
      /\ ~downgraded => tables' = Latest
      /\ tables # 0 => tables' = tables
      /\ tables # tables' => \A q \in Script \ {p} : step[q] # "altering"
  BY <1>1, <1>2, CommitTablesKeeps
<1>5. ScriptsOK'
  BY <1>1, <1>2, EndIs
<1>6. RowsOK'
  BY <1>1, <1>2, <1>3, <1>4 DEF RowsOK
<1>7. TypeOK'
  BY <1>1, <1>5, <1>6 DEF TypeOK, RowsOK, ScriptsOK, PipesOK, Steps, Pipes
<1>8. LocksOK'
  BY <1>2, <1>4, EndLocks
<1>9. \A q \in Script : JobOK(q)'
  <2>1. ASSUME NEW q \in Script \ {p}, step[q] = "begun", ~downgraded'
        PROVE  saw[q] <= tables'
    BY <1>1, <1>3, <1>4, <2>1 DEF ScriptsOK, Latest
  <2> QED BY <1>2, <2>1, EndJobOK
<1>10. Met'
  <2> SUFFICES ASSUME ~downgraded'
               PROVE  /\ HeadOf(p) <= tables'
                      /\ \A i \in Image : pipe[i] = "switch" => HeadOf(i) <= tables'
                      /\ \A k \in 1..Len(releases) : HeadOf(releases[k]) <= tables'
                      /\ tables' \in {0, Latest}
    BY <1>2 DEF Met, HeadOf
  <2>1. tables' = Latest
    BY <1>3, <1>4
  <2>2. \A q \in Script : HeadOf(q) <= tables'
    BY <2>1, HeadType DEF Latest
  <2>3. \A k \in 1..Len(releases) : releases[k] \in Script
    BY <1>1, ImageAssumption DEF PipesOK
  <2> QED BY <2>1, <2>2, <2>3, ImageAssumption
<1>11. \A q \in Script : SeedOK(q)'
  BY <1>1, <1>2, <1>3, EndSeedOK DEF SeedOK
<1>12. DemoWhole'
  BY <1>1, <1>3 DEF DemoWhole
<1> QED BY <1>4, <1>7, <1>8, <1>9, <1>10, <1>11, <1>12 DEF IndInv

LEMMA EnsureTablesKeeps ==
  ASSUME IndInv, NEW p \in Script, EnsureTables(p),
         UNCHANGED <<environment, releases, pipe>>
  PROVE  IndInv'
<1>1. /\ environment \in {"development", "production"}
      /\ RowsOK /\ ScriptsOK /\ PipesOK /\ Met /\ DemoWhole /\ LocksOK
      /\ \A q \in Script : JobOK(q) /\ SeedOK(q)
  BY TypeParts DEF IndInv
<1>2. /\ job[p] = "seed" /\ CommitTables(p)
      /\ got' = [got EXCEPT ![p] = 0] /\ UNCHANGED <<serving, work, written>>
  BY DEF EnsureTables
<1>3. /\ UNCHANGED <<stamp, demo, samples, downgraded>>
      /\ step[p] \in {"begun", "altering"}
  BY <1>2 DEF CommitTables
<1>4. /\ tables' \in 0..Latest /\ StampMatches'
      /\ ~downgraded => tables' = Latest
      /\ tables # 0 => tables' = tables
      /\ tables # tables' => \A q \in Script \ {p} : step[q] # "altering"
  BY <1>1, <1>2, CommitTablesKeeps
<1>5. /\ step' \in [Script -> Steps] /\ step'[p] = "created"
      /\ job' = job /\ saw' = saw
      /\ \A q \in Script \ {p} : step'[q] = step[q]
  BY <1>1, GoesIs DEF EnsureTables, Steps
<1>6. ScriptsOK' /\ Stands(p) /\ got'[p] = 0
  <2>1. /\ got' \in [Script -> 0..All] /\ got'[p] = 0
        /\ \A q \in Script \ {p} : got'[q] = got[q]
    BY <1>1, <1>2 DEF ScriptsOK, All, Ascending
  <2> QED BY <1>1, <1>2, <1>5, <2>1 DEF ScriptsOK, Stands
<1>7. RowsOK'
  BY <1>1, <1>2, <1>3, <1>4 DEF RowsOK
<1>8. TypeOK'
  BY <1>1, <1>6, <1>7 DEF TypeOK, RowsOK, ScriptsOK, PipesOK, Steps, Pipes
<1>9. LocksOK'
  <2>1. HoldsOK(p)'
    BY <1>5, <1>6 DEF HoldsOK
  <2>2. Locked(p)' = {}
    BY <1>6, NoLocks
  <2> QED BY <1>4, <1>6, <2>1, <2>2, LocksMove
<1>10. ASSUME NEW q \in Script PROVE JobOK(q)'
  <2>1. CASE q = p
    BY <1>1, <1>2, <1>3, <1>5, <2>1 DEF JobOK
  <2>2. CASE q # p
    <3>1. step[q] = "begun" /\ ~downgraded' => saw[q] <= tables'
      BY <1>1, <1>3, <1>4 DEF ScriptsOK, Latest
    <3> QED BY <1>1, <1>2, <1>5, <2>2, <3>1 DEF JobOK
  <2> QED BY <2>1, <2>2
<1>11. Met'
  <2>1. ~downgraded' => tables' = Latest
    BY <1>3, <1>4
  <2> QED BY <1>2, <1>4, <2>1, MetKept
<1>12. ASSUME NEW q \in Script PROVE SeedOK(q)'
  <2>1. written[q] # {} => step'[q] = step[q]
    BY <1>1, <1>3, <1>5 DEF SeedOK
  <2> QED BY <1>1, <1>2, <1>3, <2>1
       DEF SeedOK, Flush1, Flush2, User, ProjectRow, TaskRows
<1>13. DemoWhole'
  BY <1>1, <1>3 DEF DemoWhole
<1> QED BY <1>4, <1>8, <1>9, <1>10, <1>11, <1>12, <1>13 DEF IndInv

\* What is committed is all of the sample data, and there was none before.
LEMMA CommitSeedKeeps ==
  ASSUME IndInv, NEW p \in Script, CommitSeed(p),
         UNCHANGED <<environment, releases, pipe>>
  PROVE  IndInv'
<1>1. /\ environment \in {"development", "production"}
      /\ RowsOK /\ ScriptsOK /\ PipesOK /\ Met /\ DemoWhole /\ StampMatches
      /\ \A q \in Script : JobOK(q) /\ SeedOK(q)
  BY TypeParts DEF IndInv
<1>2. /\ <<2, 0>> \in written[p]
      /\ demo' = [by |-> p, deleted |-> FALSE]
      /\ samples' = samples \cup
                      {<<p, r>> : r \in (written[p] \ {User}) \cup TaskRows(2)}
      /\ End(p)
      /\ UNCHANGED <<tables, stamp, serving, downgraded>>
  BY TwoProjects DEF CommitSeed
<1>3. /\ written[p] = Flush2 /\ demo.by = None
      /\ \A q \in Script \ {p} : written[q] = {}
  BY <1>1, <1>2, Flushes DEF SeedOK
<1>4. samples = {}
  BY <1>1, <1>3, SchemaAssumption DEF DemoWhole
<1>5. samples' = {p} \X Sample
  BY <1>2, <1>3, <1>4, Rows
<1>6. ScriptsOK'
  BY <1>1, <1>2, EndIs
<1>7. RowsOK'
  BY <1>1, <1>2, <1>5 DEF RowsOK
<1>8. TypeOK'
  BY <1>1, <1>6, <1>7 DEF TypeOK, RowsOK, ScriptsOK, PipesOK, Steps, Pipes
<1>9. StampMatches'
  BY <1>1, <1>2 DEF StampMatches
<1>10. LocksOK'
  BY <1>2, EndLocks
<1>11. \A q \in Script : JobOK(q)'
  <2>1. \A q \in Script \ {p} : step[q] = "begun" /\ ~downgraded' => saw[q] <= tables'
    BY <1>1, <1>2 DEF JobOK
  <2> QED BY <1>2, <2>1, EndJobOK
<1>12. Met'
  BY <1>1, <1>2 DEF Met, HeadOf
<1>13. \A q \in Script : SeedOK(q)'
  BY <1>2, <1>3, EndSeedOK
<1>14. DemoWhole'
  <2>1. demo'.by = p
    BY <1>2
  <2>2. \A s \in TaskStatus \ {"CANCELLED"} : \E row \in samples' :
          row[2][2] # 0 /\ PROJECTS[row[2][1]][row[2][2]] = s
    BY <1>5, Statuses
  <2>3. samples' = IF demo'.by \in Script THEN {demo'.by} \X Sample ELSE {}
    BY <1>5, <2>1
  <2> QED BY <2>2, <2>3 DEF DemoWhole, Sample, ProjectRow, TaskRows, PROJECTS, TaskStatus
<1> QED BY <1>8, <1>9, <1>10, <1>11, <1>12, <1>13, <1>14 DEF IndInv

LEMMA ProceedKeeps ==
  ASSUME IndInv, NEW p \in Script, Proceed(p)
  PROVE  IndInv'
<1>1. ScriptsOK /\ JobOK(p)
  BY TypeParts DEF IndInv
<1>2. /\ Work(p) /\ UNCHANGED <<environment, releases>>
      /\ IF p \in Image /\ step'[p] = "idle"
         THEN Turns(p, "switch") ELSE UNCHANGED pipe
  BY DEF Proceed
<1>3. ASSUME End(p)
      PROVE  IF p \in Image THEN Turns(p, "switch") ELSE UNCHANGED pipe
  <2>1. step'[p] = "idle"
    BY <1>1, <1>3, EndIs DEF Rests
  <2> QED BY <1>2, <2>1
<1>4. ASSUME step'[p] # "idle" \/ p \notin Image PROVE UNCHANGED pipe
  BY <1>2, <1>4
<1>5. ASSUME NEW from \in 0..Latest, NEW to \in 0..Latest, Alter(p, from, to),
             job[p] \in Migrations
      PROVE  IndInv'
  <2>1. step'[p] = "altering"
    BY <1>1, <1>5, GoesIs DEF Alter, Steps
  <2> QED BY <1>2, <1>4, <1>5, <2>1, AlterKeeps
<1>6. job[p] \in {"start", "seed"} /\ step[p] # "idle" => p \notin Image
  BY SeedersHaveNoPipe
<1>7. step[p] \in {"created", "inserting"} => p \notin Image
  BY <1>1 DEF JobOK
<1>8. CASE Upgrade001(p)
  BY <1>5, <1>8 DEF Upgrade001, Upgrading, Latest, Migrations
<1>9. CASE Upgrade002(p)
  BY <1>5, <1>9 DEF Upgrade002, Upgrading, Latest, Migrations
<1>10. CASE Downgrade002(p)
  BY <1>5, <1>10 DEF Downgrade002, Downgrading, Latest, Migrations
<1>11. CASE Downgrade001(p)
  BY <1>5, <1>11 DEF Downgrade001, Downgrading, Latest, Migrations
<1>12. CASE CommitMigration(p)
  BY <1>2, <1>3, <1>12, CommitMigrationKeeps DEF CommitMigration
<1>13. CASE NothingToMigrate(p)
  BY <1>2, <1>3, <1>13, NothingToMigrateKeeps DEF NothingToMigrate
<1>14. CASE StartApi(p)
  <2>1. job[p] = "start" /\ step[p] # "idle"
    BY <1>14 DEF StartApi, CommitTables
  <2> QED BY <1>2, <1>4, <1>6, <1>14, <2>1, StartApiKeeps
<1>15. CASE EnsureTables(p)
  <2>1. job[p] = "seed" /\ step[p] # "idle"
    BY <1>15 DEF EnsureTables, CommitTables
  <2> QED BY <1>2, <1>4, <1>6, <1>15, <2>1, EnsureTablesKeeps
<1>16. CASE FindDemoUser(p)
  <2>1. UNCHANGED pipe
    BY <1>4, <1>7, <1>16 DEF FindDemoUser
  <2>2. CASE End(p)
    <3>1. Calm
      BY <1>2, <1>16 DEF FindDemoUser, Calm, database
    <3>2. PipesOK
      BY TypeParts DEF IndInv
    <3> QED BY <1>2, <2>1, <2>2, <3>1, <3>2, Quits DEF PipesOK
  <2>3. CASE /\ Goes(p, "inserting") /\ got' = [got EXCEPT ![p] = 1]
             /\ UNCHANGED <<work, written>>
    BY <1>2, <1>16, <2>1, <2>3, FindKeeps
  <2> QED BY <1>16, <2>2, <2>3 DEF FindDemoUser
<1>21. CASE CreateTable(p)
  <2>1. step[p] # "idle" /\ job[p] \in {"start", "seed"}
    BY <1>21 DEF CreateTable
  <2> QED BY <1>2, <1>4, <1>6, <1>21, <2>1, CreateTableKeeps
<1>17. CASE InsertUser(p)
  <2>1. UNCHANGED pipe
    BY <1>4, <1>7, <1>17 DEF InsertUser
  <2> QED BY <1>2, <1>17, <2>1, InsertUserKeeps
<1>18. ASSUME written[p] # {} PROVE p \notin Image
  <2>1. step[p] = "inserting"
    BY <1>18 DEF IndInv, SeedOK
  <2> QED BY <1>7, <2>1
<1>19. CASE InsertNext(p)
  <2>1. PICK n \in DOMAIN PROJECTS : InsertProject(p, n)
    BY <1>19 DEF InsertNext
  <2>2. UNCHANGED pipe
    BY <1>4, <1>18, <2>1 DEF InsertProject
  <2> QED BY <1>2, <2>1, <2>2, InsertProjectKeeps
<1>20. CASE CommitSeed(p)
  <2>1. UNCHANGED pipe
    BY <1>4, <1>18, <1>20 DEF CommitSeed
  <2> QED BY <1>2, <1>20, <2>1, CommitSeedKeeps
<1> QED BY <1>2, <1>8, <1>9, <1>10, <1>11, <1>12, <1>13, <1>14, <1>15, <1>16,
           <1>17, <1>19, <1>20, <1>21 DEF Work

LEMMA BreakOffKeeps ==
  ASSUME IndInv, NEW p \in Script, BreakOff(p)
  PROVE  IndInv'
<1>1. PipesOK
  BY TypeParts DEF IndInv
<1>2. End(p) /\ Calm /\ UNCHANGED releases
  BY DEF BreakOff, Fail, Raise, Crash, Calm, database
<1>3. pipe' = pipe \/ Turns(p, "failed")
  BY DEF BreakOff
<1>4. pipe' \in [Image -> Pipes]
  BY <1>1, <1>3 DEF PipesOK, Turns, Pipes
<1>5. \A i \in Image : pipe'[i] = "switch" => pipe[i] = "switch"
  BY <1>1, <1>3 DEF PipesOK, Turns
<1> QED BY <1>2, <1>4, <1>5, Quits

LEMMA BeginningKeeps ==
  ASSUME IndInv, NEW p \in Script, RunByHand(p) \/ (p \in Image /\ Deploy(p))
  PROVE  IndInv'
<1>1. PipesOK /\ environment \in {"development", "production"}
  BY TypeParts DEF IndInv
<1>2. CASE RunByHand(p)
  <2>1. PICK j \in (IF environment = "development" THEN Jobs ELSE Migrations) :
          Begin(p, j)
    BY <1>2 DEF RunByHand, Migrations
  <2>2. j \in Jobs /\ (environment = "production" => j \in Migrations)
    BY <2>1 DEF Jobs, Migrations
  <2>3. Calm /\ p \notin Image /\ UNCHANGED <<pipe, releases>>
    BY <1>2 DEF RunByHand, Calm, database, rolloutVars
  <2> QED BY <1>1, <2>1, <2>2, <2>3, Begins DEF PipesOK
<1>3. CASE p \in Image /\ Deploy(p)
  <2>1. /\ environment = "production" /\ Begin(p, "upgrade")
        /\ Turns(p, "release") /\ UNCHANGED releases
    BY <1>3 DEF Deploy
  <2>2. Calm
    BY <1>3 DEF Deploy, Calm, database
  <2>3. pipe' \in [Image -> Pipes]
    BY <1>1, <2>1 DEF PipesOK, Turns, Pipes
  <2>4. \A i \in Image : pipe'[i] = "switch" => pipe[i] = "switch"
    BY <1>1, <2>1 DEF PipesOK, Turns
  <2>5. "upgrade" \in Jobs /\ "upgrade" \in Migrations
    BY DEF Jobs, Migrations
  <2> QED BY <2>1, <2>2, <2>3, <2>4, <2>5, Begins
<1> QED BY <1>2, <1>3

------------------------------------------------------------------------------
(* The API in use, and the jobs of the workflow.                           *)

\* What stands when the scripts do.
LEMMA ScriptsStand ==
  ASSUME IndInv, UNCHANGED <<environment, tables, stamp, downgraded, scripts>>
  PROVE  /\ ScriptsOK' /\ StampMatches' /\ LocksOK'
         /\ \A q \in Script : JobOK(q)'
         /\ demo'.by = demo.by => \A q \in Script : SeedOK(q)'
<1>1. /\ ScriptsOK /\ StampMatches /\ LocksOK
      /\ \A q \in Script : JobOK(q) /\ SeedOK(q)
  BY TypeParts DEF IndInv
<1>2. UNCHANGED <<job, step, saw, work, got, written>>
  BY DEF scripts
<1>3. ScriptsOK' /\ StampMatches'
  BY <1>1, <1>2 DEF ScriptsOK, StampMatches
<1>4. LocksOK'
  <2>1. \A q \in Script : Locked(q)' = Locked(q) /\ Reading(q)' = Reading(q)
    BY <1>2, SameLocks
  <2>2. \A q \in Script : HoldsOK(q)'
    BY <1>1, <1>2 DEF LocksOK, HoldsOK, Fits, Reached, Flush1, Flush2, User,
                      ProjectRow, TaskRows
  <2> QED BY <1>1, <2>1, <2>2 DEF LocksOK, Apart
<1>5. \A q \in Script : JobOK(q)'
  BY <1>1, <1>2 DEF JobOK
<1>6. ASSUME demo'.by = demo.by, NEW q \in Script PROVE SeedOK(q)'
  BY <1>1, <1>2, <1>6 DEF SeedOK, Flush1, Flush2, User, ProjectRow, TaskRows
<1> QED BY <1>3, <1>4, <1>5, <1>6

LEMMA UseApiKeeps ==
  ASSUME IndInv, UseApi, UNCHANGED <<environment, rolloutVars>>
  PROVE  IndInv'
<1>1. /\ environment \in {"development", "production"}
      /\ RowsOK /\ ScriptsOK /\ PipesOK /\ Met /\ DemoWhole
      /\ \A q \in Script : SeedOK(q)
  BY TypeParts DEF IndInv
<1>2. UNCHANGED <<environment, tables, stamp, samples, downgraded, scripts, pipe, releases>>
  BY DEF UseApi, StopApi, Register, DeleteAccount, database, rolloutVars
<1>3. /\ ScriptsOK' /\ StampMatches' /\ LocksOK'
      /\ \A q \in Script : JobOK(q)'
      /\ demo'.by = demo.by => \A q \in Script : SeedOK(q)'
  BY <1>2, ScriptsStand
<1>4. serving' \in {serving, None}
  BY DEF UseApi, StopApi, Register, DeleteAccount
<1>5. Met'
  BY <1>1, <1>2, <1>4 DEF Met, HeadOf
<1>6. /\ demo' \in [by : Script \cup {"api", None}, deleted : BOOLEAN]
      /\ \/ demo'.by = demo.by
         \/ /\ demo.by = None /\ demo'.by = "api"
            /\ \A q \in Script : User \notin written[q]
  <2>1. CASE StopApi
    BY <1>1, <2>1 DEF StopApi, database, RowsOK
  <2>2. CASE Register
    BY <2>2 DEF Register
  <2>3. CASE DeleteAccount
    BY <1>1, <2>3 DEF DeleteAccount, RowsOK
  <2> QED BY <2>1, <2>2, <2>3 DEF UseApi
<1>7. RowsOK'
  BY <1>1, <1>2, <1>4, <1>6 DEF RowsOK
<1>8. TypeOK'
  BY <1>1, <1>2, <1>3, <1>7 DEF TypeOK, RowsOK, ScriptsOK, PipesOK, Steps, Pipes
<1>9. \A q \in Script : SeedOK(q)'
  <2>1. CASE demo'.by = demo.by
    BY <1>3, <2>1
  <2>2. CASE \A q \in Script : User \notin written[q]
    <3>1. \A q \in Script : written[q] = {}
      BY <1>1, <2>2, Flushes DEF SeedOK
    <3>2. \A q \in Script : written'[q] = {}
      BY <1>2, <3>1 DEF scripts
    <3> QED BY <3>2 DEF SeedOK
  <2> QED BY <1>6, <2>1, <2>2
<1>10. DemoWhole'
  <2>1. CASE demo'.by = demo.by
    BY <1>1, <1>2, <2>1 DEF DemoWhole
  <2>2. CASE demo.by = None /\ demo'.by = "api"
    <3>1. samples' = {}
      BY <1>1, <1>2, <2>2, SchemaAssumption DEF DemoWhole
    <3> QED BY <2>2, <3>1, SchemaAssumption DEF DemoWhole
  <2> QED BY <1>6, <2>1, <2>2
<1> QED BY <1>3, <1>5, <1>8, <1>9, <1>10 DEF IndInv

LEMMA JobKeeps ==
  ASSUME IndInv, NEW i \in Image, Job(i)
  PROVE  IndInv'
<1>1. /\ environment \in {"development", "production"}
      /\ RowsOK /\ ScriptsOK /\ PipesOK /\ Met /\ DemoWhole
  BY TypeParts DEF IndInv
<1>2. UNCHANGED <<environment, tables, stamp, demo, samples, downgraded, scripts>>
  BY DEF Job, SwitchTraffic, Healthy, Unreachable, RollBack, SmokeTest,
         schemaVars, database
<1>3. /\ ScriptsOK' /\ StampMatches' /\ LocksOK'
      /\ \A q \in Script : JobOK(q)'
      /\ \A q \in Script : SeedOK(q)'
  BY <1>2, ScriptsStand
<1>4. PICK s \in Pipes \ {"switch"} : Turns(i, s)
  <2>1. \E s \in Pipes \ {"switch"} : Turns(i, s)
    BY DEF Job, SwitchTraffic, Healthy, Unreachable, RollBack, SmokeTest, Pipes
  <2> QED BY <2>1
<1>5. /\ pipe' \in [Image -> Pipes]
      /\ \A j \in Image : pipe'[j] = "switch" => pipe[j] = "switch"
  BY <1>1, <1>4 DEF PipesOK, Turns
<1>6. \/ /\ pipe[i] = "switch" /\ serving' = i /\ releases' = Append(releases, i)
      \/ /\ 1 < Len(releases)
         /\ releases' = SubSeq(releases, 1, Len(releases) - 1)
         /\ serving' = releases'[Len(releases')]
      \/ UNCHANGED <<serving, releases>>
  BY DEF Job, SwitchTraffic, Healthy, Unreachable, RollBack, SmokeTest, schemaVars
<1>7. /\ serving' \in Script \cup {None} /\ releases' \in Seq(Image)
      /\ serving' # None /\ serving' # serving =>
           \/ pipe[i] = "switch" /\ serving' = i
           \/ \E k \in 1..Len(releases) : serving' = releases[k]
      /\ \A k \in 1..Len(releases') :
           \/ pipe[i] = "switch" /\ releases'[k] = i
           \/ \E l \in 1..Len(releases) : releases'[k] = releases[l]
  <2>1. CASE UNCHANGED <<serving, releases>>
    BY <1>1, <2>1 DEF RowsOK, PipesOK
  <2>2. CASE /\ pipe[i] = "switch" /\ serving' = i
             /\ releases' = Append(releases, i)
    <3>1. /\ releases' \in Seq(Image) /\ Len(releases') = Len(releases) + 1
          /\ releases'[Len(releases) + 1] = i
          /\ \A k \in 1..Len(releases) : releases'[k] = releases[k]
          /\ Len(releases) \in Nat
      BY <1>1, <2>2 DEF PipesOK
    <3>2. \A k \in 1..Len(releases') :
            k = Len(releases) + 1 \/ k \in 1..Len(releases)
      BY <3>1
    <3> QED BY <2>2, <3>1, <3>2, ImageAssumption
  <2>3. CASE /\ 1 < Len(releases)
             /\ releases' = SubSeq(releases, 1, Len(releases) - 1)
             /\ serving' = releases'[Len(releases')]
    <3>1. Len(releases) \in Nat /\ releases \in Seq(Image)
      BY <1>1 DEF PipesOK
    <3>2. /\ releases' \in Seq(Image) /\ Len(releases') = Len(releases) - 1
          /\ \A k \in 1..(Len(releases) - 1) : releases'[k] = releases[k]
      BY <2>3, <3>1
    <3>3. /\ Len(releases') \in 1..Len(releases)
          /\ \A k \in 1..Len(releases') : k \in 1..Len(releases)
      BY <2>3, <3>1, <3>2
    <3>4. serving' = releases[Len(releases')] /\ serving' \in Image
      BY <2>3, <3>1, <3>2, <3>3
    <3> QED BY <3>2, <3>3, <3>4, ImageAssumption
  <2> QED BY <1>6, <2>1, <2>2, <2>3
<1>8. RowsOK' /\ DemoWhole'
  BY <1>1, <1>2, <1>7 DEF RowsOK, DemoWhole
<1>9. TypeOK'
  BY <1>1, <1>2, <1>3, <1>5, <1>7, <1>8
     DEF TypeOK, RowsOK, ScriptsOK, PipesOK, Steps, Pipes
<1>10. Met'
  <2> SUFFICES ASSUME ~downgraded
               PROVE  /\ environment = "development" => tables \in {0, Latest}
                      /\ serving' # None => HeadOf(serving') <= tables
                      /\ \A j \in Image : pipe'[j] = "switch" => HeadOf(j) <= tables
                      /\ \A k \in 1..Len(releases') : HeadOf(releases'[k]) <= tables
    BY <1>2 DEF Met, HeadOf
  <2>1. /\ environment = "development" => tables \in {0, Latest}
        /\ serving # None => HeadOf(serving) <= tables
        /\ \A j \in Image : pipe[j] = "switch" => HeadOf(j) <= tables
        /\ \A k \in 1..Len(releases) : HeadOf(releases[k]) <= tables
    BY <1>1 DEF Met
  <2> QED BY <1>5, <1>7, <2>1
<1> QED BY <1>3, <1>8, <1>9, <1>10 DEF IndInv

------------------------------------------------------------------------------
(* The invariant holds, and what follows from it.                          *)

LEMMA InitIndInv == Init => IndInv
<1> SUFFICES ASSUME Init PROVE IndInv
  OBVIOUS
<1>1. TypeOK
  <2>1. environment \in {"development", "production"} /\ RowsOK
    <3>1. NoAccount \in [by : Script \cup {"api", None}, deleted : BOOLEAN]
      BY DEF NoAccount
    <3>2. 0 \in 0..Latest /\ {} \subseteq Script \X Sample
      BY DEF Latest
    <3> QED BY <3>1, <3>2 DEF Init, SchemaInit, RowsOK
  <2>2. ScriptsOK
    BY DEF Init, SchemaInit, ScriptsOK, Steps, Latest, All, Ascending
  <2>3. PipesOK
    BY DEF Init, PipesOK, Pipes
  <2> QED BY <2>1, <2>2, <2>3, TypeParts
<1>2. StampMatches /\ LocksOK /\ Met
  <2>1. \A p \in Script : HoldsOK(p) /\ Locked(p) = {}
    BY NoLocks DEF Init, SchemaInit, HoldsOK
  <2> QED BY <2>1 DEF Init, SchemaInit, StampMatches, LocksOK, Apart, Met
<1>3. \A p \in Script : JobOK(p) /\ SeedOK(p)
  BY DEF Init, SchemaInit, JobOK, SeedOK
<1>4. DemoWhole
  BY SchemaAssumption DEF Init, SchemaInit, NoAccount, DemoWhole
<1> QED BY <1>1, <1>2, <1>3, <1>4 DEF IndInv

LEMMA NextIndInv == IndInv /\ [Next]_vars => IndInv'
<1> SUFFICES ASSUME IndInv, [Next]_vars PROVE IndInv'
  OBVIOUS
<1>1. ASSUME NEW p \in Script, RunByHand(p) \/ Proceed(p) \/ BreakOff(p)
      PROVE  IndInv'
  BY <1>1, BeginningKeeps, ProceedKeeps, BreakOffKeeps
<1>2. ASSUME NEW i \in Image, Deploy(i) \/ Job(i) PROVE IndInv'
  BY <1>2, ImageAssumption, BeginningKeeps, JobKeeps
<1>3. CASE UseApi /\ UNCHANGED <<environment, rolloutVars>>
  BY <1>3, UseApiKeeps
<1>4. CASE UNCHANGED vars
  <2>1. Calm /\ UNCHANGED <<scripts, pipe, releases>>
    BY <1>4 DEF vars, schemaVars, database, rolloutVars, Calm
  <2>2. PipesOK
    BY TypeParts DEF IndInv
  <2>3. /\ ScriptsOK' /\ LocksOK' /\ \A q \in Script : JobOK(q)'
        /\ \A q \in Script : SeedOK(q)'
    BY <2>1, ScriptsStand DEF Calm
  <2> QED BY <2>1, <2>2, <2>3, CalmKeeps DEF PipesOK
<1> QED BY <1>1, <1>2, <1>3, <1>4 DEF Next

LEMMA Invariance == Spec => []IndInv
BY InitIndInv, NextIndInv, PTL DEF Spec

\* Every variable of the database, of the scripts and of the jobs keeps its type.
THEOREM TypeCorrect == Spec => []TypeOK
<1>1. IndInv => TypeOK
  BY DEF IndInv
<1> QED BY <1>1, Invariance, PTL

\* alembic_version tells the truth, however many migrations run at a time and
\* wherever one of them stops (env.py runs a revision in one transaction).
THEOREM TheStampIsTrue == Spec => []StampMatches
<1>1. IndInv => StampMatches
  BY DEF IndInv
<1> QED BY <1>1, Invariance, PTL

\* What serves finds its tables, whichever jobs overlap and fail, as long as
\* nobody takes a revision back (fly.toml's release_command).
THEOREM CodeFindsItsTables == Spec => []CodeMeetsSchema
<1>1. IndInv => CodeMeetsSchema
  BY DEF IndInv, Met, CodeMeetsSchema
<1> QED BY <1>1, Invariance, PTL

\* The sample data of seed.py is there as a whole or not at all, and once.
THEOREM AllSampleDataOrNone == Spec => []DemoWhole
<1>1. IndInv => DemoWhole
  BY DEF IndInv
<1> QED BY <1>1, Invariance, PTL

------------------------------------------------------------------------------
(* Who waits for whom.                                                     *)

\* Following those who are waited for leads from a to b.
Leads(a, b) ==
  \A R \in SUBSET Script :
    WaitsFor(a) \subseteq R /\ (\A q \in R : WaitsFor(q) \subseteq R) => b \in R

LEMMA DeadlockedLeads ==
  ASSUME NEW p \in Script
  PROVE  Deadlocked(p) <=> WaitsFor(p) # {} /\ Leads(p, p)
BY DEF Deadlocked, Leads

LEMMA OneStepLeads ==
  ASSUME NEW a \in Script, NEW b \in WaitsFor(a)
  PROVE  b \in Script /\ Leads(a, b)
<1>1. b \in Script
  BY DEF WaitsFor
<1> QED BY <1>1 DEF Leads

LEMMA LeadsOn ==
  ASSUME NEW a \in Script, NEW b \in Script, NEW c \in Script,
         Leads(a, b), Leads(b, c)
  PROVE  Leads(a, c)
BY DEF Leads

\* Who leads anywhere waits for somebody.
LEMMA LeadsWaits ==
  ASSUME NEW a \in Script, NEW b \in Script, Leads(a, b)
  PROVE  WaitsFor(a) # {}
<1> SUFFICES ASSUME WaitsFor(a) = {} PROVE FALSE
  OBVIOUS
<1>1. {} \in SUBSET Script /\ \A q \in {} : WaitsFor(q) \subseteq {}
  OBVIOUS
<1> QED BY <1>1 DEF Leads

\* How far a script has come in the order of the tables; the row of the user
\* is between the tables of users and of projects.
Rank(p) == 2 * got[p] + (IF User \in written[p] THEN 1 ELSE 0)

\* Who takes the tables in their order waits for one who has come further.
LEMMA WaitsForFurther ==
  ASSUME IndInv, NEW p \in Script, NEW q \in WaitsFor(p),
         job[p] # "downgrade", job[q] # "downgrade"
  PROVE  Rank(p) < Rank(q)
<1>1. /\ ScriptsOK /\ LocksOK /\ q \in Script
      /\ HoldsOK(p) /\ HoldsOK(q) /\ SeedOK(p) /\ SeedOK(q)
  BY TypeParts DEF IndInv, LocksOK, WaitsFor
<1>2. got[p] \in 0..4 /\ got[q] \in 0..4
  BY <1>1 DEF ScriptsOK, All, Ascending
<1>3. CASE Reading(p) /\ written[p] = {}
  <2>1. User \in written[q]
    BY <1>3 DEF WaitsFor
  <2>2. step[q] = "inserting" /\ got[p] = 1
    BY <1>1, <1>3, <2>1, ReachedIs DEF SeedOK, HoldsOK, Reading
  <2>3. 1 <= got[q]
    BY <1>1, <2>2 DEF HoldsOK, Reached
  <2> QED BY <1>2, <1>3, <2>1, <2>2, <2>3 DEF Rank
<1>4. CASE ~(Reading(p) /\ written[p] = {})
  <2>1. /\ got[p] \in 1..(Len(Order(p)) - 1)
        /\ Order(p)[got[p] + 1] \in Locked(q)
    BY <1>4 DEF WaitsFor
  <2>2. /\ Order(p) \in {Ascending, <<"users", "projects", "tasks">>}
        /\ Order(q) \in {Ascending, <<"users", "projects", "tasks">>}
    BY DEF Order
  <2>3. PICK i \in 1..got[q] : Order(q)[i] = Order(p)[got[p] + 1]
    BY <2>1 DEF Locked
  <2>4. got[p] + 1 \in 1..4 /\ Order(p)[got[p] + 1] = Ascending[got[p] + 1]
    <3>1. CASE Order(p) = <<"users", "projects", "tasks">>
      <4>1. Len(Order(p)) = 3
        BY <3>1
      <4>2. got[p] \in {1, 2}
        BY <1>2, <2>1, <4>1
      <4> QED BY <3>1, <4>2 DEF Ascending
    <3>2. CASE Order(p) = Ascending
      <4>1. Len(Order(p)) = 4
        BY <3>2 DEF Ascending
      <4> QED BY <1>2, <2>1, <3>2, <4>1
    <3> QED BY <2>2, <3>1, <3>2
  <2>5. Reading(q) => got[q] \in 1..3
    BY <1>1 DEF HoldsOK, Reading, Reached
  <2>6. i \in 1..4 /\ Order(q)[i] = Ascending[i]
    <3>1. CASE Reading(q)
      BY <1>2, <2>3, <2>5, <3>1 DEF Order, Ascending
    <3>2. CASE ~Reading(q)
      BY <1>2, <2>2, <3>2 DEF Order, Ascending
    <3> QED BY <3>1, <3>2
  <2>7. i = got[p] + 1
    BY <2>3, <2>4, <2>6 DEF Ascending
  <2>8. got[p] + 1 <= got[q]
    BY <1>2, <2>7
  <2> QED BY <1>2, <2>8 DEF Rank
<1> QED BY <1>3, <1>4

LEMMA NoCircleWithoutDowngrade ==
  ASSUME IndInv, NEW p \in Script, Deadlocked(p),
         \A q \in Script : Deadlocked(q) => job[q] # "downgrade"
  PROVE  FALSE
<1> DEFINE R == {q \in Script : Leads(p, q) /\ (Leads(q, p) => Rank(p) < Rank(q))}
<1>1. Leads(p, p)
  BY DeadlockedLeads
<1>2. ASSUME NEW a \in Script, a = p \/ a \in R, NEW r \in WaitsFor(a)
      PROVE  r \in R
  <2>1. r \in Script /\ Leads(a, r)
    BY OneStepLeads
  <2>2. Leads(p, a)
    BY <1>1, <1>2
  <2>3. Leads(p, r)
    BY <2>1, <2>2, LeadsOn
  <2>4. ASSUME Leads(r, p) PROVE Rank(p) < Rank(r)
    <3>1. Leads(a, p)
      BY <2>1, <2>4, LeadsOn
    <3>2. Deadlocked(a)
      BY <2>2, <3>1, LeadsOn, LeadsWaits, DeadlockedLeads
    <3>3. Deadlocked(r)
      BY <2>1, <2>3, <2>4, LeadsOn, LeadsWaits, DeadlockedLeads
    <3>4. Rank(a) < Rank(r)
      BY <2>1, <3>2, <3>3, WaitsForFurther
    <3>5. a = p \/ Rank(p) < Rank(a)
      BY <1>2, <3>1
    <3>6. Rank(p) \in Nat /\ Rank(a) \in Nat /\ Rank(r) \in Nat
      <4>1. \A q \in Script : got[q] \in Nat
        BY TypeParts DEF IndInv, ScriptsOK
      <4> QED BY <2>1, <4>1 DEF Rank
    <3> QED BY <3>4, <3>5, <3>6
  <2> QED BY <2>1, <2>3, <2>4
<1>3. WaitsFor(p) \subseteq R /\ \A q \in R : WaitsFor(q) \subseteq R
  BY <1>2
<1>4. p \in R
  BY <1>1, <1>3 DEF Leads
<1>5. Rank(p) < Rank(p)
  BY <1>1, <1>4
<1>6. Rank(p) \in Nat
  <2>1. got[p] \in Nat
    BY TypeParts DEF IndInv, ScriptsOK
  <2> QED BY <2>1 DEF Rank
<1> QED BY <1>5, <1>6

\* Scripts keep each other from going on for good only where one takes a
\* revision back: the upgrades, create_all and seed.py take the tables in one
\* order, and the row of the demo user in between.
THEOREM OnlyDowngradesDeadlock == Spec => []DowngradesDeadlock
<1>1. IndInv => DowngradesDeadlock
  <2> SUFFICES ASSUME IndInv, NEW p \in Script, Deadlocked(p)
               PROVE  \E q \in Script : Deadlocked(q) /\ job[q] = "downgrade"
    BY DEF DowngradesDeadlock
  <2> QED BY NoCircleWithoutDowngrade
<1> QED BY <1>1, Invariance, PTL
==============================================================================
