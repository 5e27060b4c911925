------------------------ MODULE ConnectionPoolProofs ------------------------
(***************************************************************************)
(* Proofs about ConnectionPool, for any number of requests, any size of    *)
(* the pool and of its overflow, and any number of transactions.           *)
(***************************************************************************)
EXTENDS ConnectionPool, FiniteSetTheorems, TLAPS

------------------------------------------------------------------------------
(* The inductive invariant.                                                *)

Stages == {"none", "begin", "waiting", "woken", "connect", "query"}
Using == {"connect", "query"}

\* A line is one of requests that wait, each once.
IsLine(line) ==
  /\ line \in Seq(Client)
  /\ \A i \in 1..Len(line) : stage[line[i]] = "waiting"
  /\ \A i, j \in 1..Len(line) : line[i] = line[j] => i = j

\* The part that the actions of the pool disturb.
PoolOK ==
  /\ idle \in Seq({"live", "stale"})
  /\ opened \in Nat
  /\ stage \in [Client -> Stages]
  /\ conn \in [Client -> {"no", "new", "live", "stale"}]
  /\ IsLine(waiting)
  /\ NothingLeaks
  /\ NoLostWakeup

\* Who is here while the database is down, or uses a dead connection, has
\* seen it go.
OutageSeen ==
  \A c \in Client :
    \/ database = "down" /\ stage[c] # "none"
    \/ stage[c] = "query" /\ conn[c] = "stale"
    => outage[c]

RequestsOK ==
  /\ database \in {"up", "down"}
  /\ uses \in [Client -> Nat]
  /\ outage \in [Client -> BOOLEAN]
  /\ OutageSeen

IndInv == PoolOK /\ RequestsOK

------------------------------------------------------------------------------
(* Sequences and cardinalities.                                            *)

\* The line without its place i.
LEMMA Removed ==
  ASSUME NEW S, NEW s \in Seq(S), NEW i \in 1..Len(s)
  PROVE  /\ RemoveAt(s, i) \in Seq(S)
         /\ Len(RemoveAt(s, i)) = Len(s) - 1
         /\ \A j \in 1..Len(s) - 1 :
              RemoveAt(s, i)[j] = s[IF j < i THEN j ELSE j + 1]
<1> DEFINE a == SubSeq(s, 1, i - 1)
           b == SubSeq(s, i + 1, Len(s))
<1>1. a \in Seq(S) /\ Len(a) = i - 1 /\ \A j \in 1..i - 1 : a[j] = s[j]
  OBVIOUS
<1>2. /\ b \in Seq(S) /\ Len(b) = Len(s) - i
      /\ \A j \in 1..Len(s) - i : b[j] = s[i + j]
  OBVIOUS
<1>3. RemoveAt(s, i) = a \o b
  BY DEF RemoveAt
<1> HIDE DEF a, b
<1>4. a \o b \in Seq(S) /\ Len(a \o b) = Len(s) - 1
  BY <1>1, <1>2
<1>5. \A j \in 1..Len(s) - 1 : (a \o b)[j] = IF j < i THEN a[j] ELSE b[j - i + 1]
  BY <1>1, <1>2
<1> QED
  BY <1>1, <1>2, <1>3, <1>4, <1>5

LEMMA LimitIsNat == Limit \in Nat /\ 0 < Limit
BY PoolAssumption DEF Limit

\* Sets of clients are finite, and count their elements one by one.
LEMMA Counted ==
  ASSUME NEW S \in SUBSET Client, NEW c \in Client
  PROVE  /\ IsFiniteSet(S)
         /\ Cardinality(S) \in Nat
         /\ c \notin S => Cardinality(S \cup {c}) = Cardinality(S) + 1
         /\ c \in S => /\ Cardinality(S \ {c}) = Cardinality(S) - 1
                       /\ 0 < Cardinality(S)
<1>1. IsFiniteSet(S)
  BY FS_Subset, PoolAssumption
<1>2. Cardinality(S) \in Nat
  BY <1>1, FS_CardinalityType
<1>3. Cardinality(S \cup {c}) = IF c \in S THEN Cardinality(S) ELSE Cardinality(S) + 1
  BY <1>1, FS_AddElement
<1>4. /\ IsFiniteSet(S \ {c})
      /\ Cardinality(S \ {c}) = IF c \in S THEN Cardinality(S) - 1 ELSE Cardinality(S)
  BY <1>1, FS_RemoveElement
<1>5. Cardinality(S \ {c}) \in Nat
  BY <1>4, FS_CardinalityType
<1> QED
  BY <1>1, <1>2, <1>3, <1>4, <1>5

LEMMA HoldersAreClients == Holders \in SUBSET Client /\ Woken \in SUBSET Client
BY DEF Holders, Woken

\* The news reaches the first in line, and nobody else.
LEMMA TellNext ==
  ASSUME stage \in [Client -> Stages],
         NEW c \in Client, NEW line, IsLine(line), NEW news \in BOOLEAN,
         \A i \in 1..Len(line) : line[i] # c,
         NEW next \in Stages \ {"waiting", "woken"},
         stage' = Moved(c, next, line, news), waiting' = Left(line, news)
  PROVE  /\ stage' \in [Client -> Stages]
         /\ IsLine(waiting)'
         /\ stage'[c] = next
         /\ \A d \in Client \ {c} : stage'[d] \in Using <=> stage[d] \in Using
         /\ Woken' = (Woken \ {c}) \cup Told(line, news)
         /\ Told(line, news) \cap (Woken \cup {c}) = {}
<1>1. line \in Seq(Client) /\ Len(line) \in Nat
  BY DEF IsLine
<1>2. ASSUME news, line # <<>>
      PROVE  /\ 1 \in 1..Len(line) /\ Head(line) = line[1] /\ Head(line) \in Client
             /\ Tail(line) \in Seq(Client) /\ Len(Tail(line)) = Len(line) - 1
             /\ \A i \in 1..Len(line) - 1 : Tail(line)[i] = line[i + 1]
  BY <1>1, <1>2
<1>3. Told(line, news) \subseteq Client /\ \A d \in Told(line, news) : stage[d] = "waiting" /\ d # c
  BY <1>2 DEF Told, IsLine
<1>4. \A d \in Client : stage'[d] = IF d = c THEN next
                                    ELSE IF d \in Told(line, news) THEN "woken"
                                    ELSE stage[d]
  BY DEF Moved
<1>5. stage' \in [Client -> Stages]
  <2>1. \A d \in Client : stage'[d] \in Stages
    BY <1>4 DEF Stages
  <2>2. stage' = [d \in Client |-> stage'[d]]
    BY DEF Moved
  <2> QED
    BY <2>1, <2>2
<1>6. Woken' = (Woken \ {c}) \cup Told(line, news)
  BY <1>3, <1>4 DEF Woken
<1>7. \A d \in Client \ {c} : stage'[d] \in Using <=> stage[d] \in Using
  BY <1>3, <1>4 DEF Using
<1>8. IsLine(waiting)'
  <2>1. CASE news /\ line # <<>>
    <3>1. waiting' = Tail(line) /\ Told(line, news) = {line[1]}
      BY <2>1, <1>2 DEF Left, Told
    <3>2. \A i \in 1..Len(line) - 1 : line[i + 1] \in Client /\ line[i + 1] # c /\ line[i + 1] # line[1]
      BY <1>1, <2>1, <1>2 DEF IsLine
    <3>3. \A i \in 1..Len(line) - 1 : stage'[line[i + 1]] = "waiting"
      BY <1>1, <1>4, <3>1, <3>2 DEF IsLine
    <3>4. \A i, j \in 1..Len(line) - 1 : line[i + 1] = line[j + 1] => i = j
      BY <1>1 DEF IsLine
    <3>5. waiting' \in Seq(Client) /\ Len(waiting') = Len(line) - 1
      BY <2>1, <1>2, <3>1
    <3>6. \A i \in 1..Len(waiting') : waiting'[i] = line[i + 1]
      BY <2>1, <1>2, <3>1, <3>5
    <3> QED
      BY <3>3, <3>4, <3>5, <3>6 DEF IsLine
  <2>2. CASE ~(news /\ line # <<>>)
    <3>1. waiting' = line /\ Told(line, news) = {}
      BY <2>2 DEF Left, Told
    <3>2. \A i \in 1..Len(line) : line[i] \in Client
      BY <1>1
    <3> QED
      BY <1>4, <3>1, <3>2 DEF IsLine
  <2> QED
    BY <2>1, <2>2
<1> QED
  BY <1>3, <1>4, <1>5, <1>6, <1>7, <1>8 DEF Woken

\* Where c does not hold a connection, and where it does.
LEMMA HolderMoves ==
  ASSUME PoolOK, NEW c \in Client,
         stage' \in [Client -> Stages],
         conn' \in [Client -> {"no", "new", "live", "stale"}],
         \A d \in Client \ {c} :
           conn'[d] = conn[d] /\ (stage'[d] \in Using <=> stage[d] \in Using),
         conn'[c] # "no" <=> stage'[c] \in Using
  PROVE  /\ \A d \in Client : d \in Holders' <=> stage'[d] \in Using
         /\ Holders' = IF stage'[c] \in Using THEN Holders \cup {c}
                                              ELSE Holders \ {c}
         /\ Cardinality(Holders) \in Nat
         /\ stage[c] \notin Using /\ stage'[c] \in Using =>
              Cardinality(Holders') = Cardinality(Holders) + 1
         /\ stage[c] \in Using /\ stage'[c] \notin Using =>
              Cardinality(Holders') = Cardinality(Holders) - 1
         /\ (stage[c] \in Using <=> stage'[c] \in Using) => Holders' = Holders
<1>1. \A d \in Client : d \in Holders <=> stage[d] \in Using
  BY DEF PoolOK, NothingLeaks, Using
<1>2. \A d \in Client : d \in Holders' <=> conn'[d] # "no"
  BY DEF Holders
<1>3. \A d \in Client : d \in Holders <=> conn[d] # "no"
  BY DEF Holders
<1>4. Holders \in SUBSET Client /\ Holders' \subseteq Client
  BY DEF Holders
<1>5. Holders' = IF stage'[c] \in Using THEN Holders \cup {c} ELSE Holders \ {c}
  BY <1>2, <1>3, <1>4
<1>6. \A d \in Client : d \in Holders' <=> stage'[d] \in Using
  BY <1>1, <1>2, <1>3
<1>7. (stage[c] \in Using <=> stage'[c] \in Using) => Holders' = Holders
  BY <1>1, <1>4, <1>5
<1> HIDE DEF Holders
<1> QED
  BY <1>1, <1>4, <1>5, <1>6, <1>7, Counted

\* The line stands when c, who is not in it, moves alone.
LEMMA LineStands ==
  ASSUME PoolOK, NEW c \in Client, stage[c] # "waiting",
         NEW next \in Stages,
         stage' = [stage EXCEPT ![c] = next], waiting' = waiting
  PROVE  /\ stage' \in [Client -> Stages]
         /\ IsLine(waiting)'
         /\ stage'[c] = next
         /\ \A d \in Client \ {c} : stage'[d] = stage[d]
         /\ Woken' = IF next = "woken" THEN Woken \cup {c} ELSE Woken \ {c}
<1>1. /\ stage' \in [Client -> Stages]
      /\ stage'[c] = next
      /\ \A d \in Client \ {c} : stage'[d] = stage[d]
  BY DEF PoolOK
<1>2. \A i \in 1..Len(waiting) : waiting[i] \in Client \ {c}
  BY DEF PoolOK, IsLine
<1>3. IsLine(waiting)'
  BY <1>1, <1>2 DEF PoolOK, IsLine
<1>4. Woken' = IF next = "woken" THEN Woken \cup {c} ELSE Woken \ {c}
  BY <1>1 DEF Woken
<1> QED
  BY <1>1, <1>3, <1>4

------------------------------------------------------------------------------
(* The steps of the pool.                                                  *)

LEMMA TakeStep ==
  ASSUME PoolOK, NEW c \in Client, stage[c] \in {"begin", "woken"}, Take(c)
  PROVE  PoolOK'
<1>1. /\ idle \in Seq({"live", "stale"}) /\ idle # <<>>
      /\ Head(idle) \in {"live", "stale"}
      /\ Tail(idle) \in Seq({"live", "stale"})
      /\ Len(idle) \in Nat /\ 0 < Len(idle) /\ Len(Tail(idle)) = Len(idle) - 1
  BY DEF PoolOK, Take
<1>2. idle' = Tail(idle) /\ opened' = opened /\ waiting' = waiting
  BY DEF Take
<1>3. /\ conn' \in [Client -> {"no", "new", "live", "stale"}]
      /\ conn'[c] \in {"live", "stale"}
      /\ \A d \in Client \ {c} : conn'[d] = conn[d]
  BY <1>1 DEF PoolOK, Take
<1>4. /\ stage' \in [Client -> Stages]
      /\ IsLine(waiting)'
      /\ stage'[c] = "connect"
      /\ \A d \in Client \ {c} : stage'[d] = stage[d]
      /\ Woken' = Woken \ {c}
  <2>1. stage' = [stage EXCEPT ![c] = "connect"] /\ "connect" \in Stages
    BY DEF Take, Stages
  <2>2. stage[c] # "waiting"
    OBVIOUS
  <2> QED
    BY <1>2, <2>1, <2>2, LineStands
<1>5. stage[c] \notin Using /\ stage'[c] \in Using
  BY <1>4 DEF Using
<1>6. /\ \A d \in Client : d \in Holders' <=> stage'[d] \in Using
      /\ Cardinality(Holders) \in Nat
      /\ Cardinality(Holders') = Cardinality(Holders) + 1
  BY <1>3, <1>4, <1>5, HolderMoves
<1>7. NothingLeaks'
  <2>1. /\ opened = Len(idle) + Cardinality(Holders)
        /\ opened <= Limit /\ Len(idle) <= Size
    BY DEF PoolOK, NothingLeaks
  <2>2. Len(idle') = Len(idle) - 1
    BY <1>1, <1>2
  <2>3. opened' = Len(idle') + Cardinality(Holders') /\ opened' <= Limit
    BY <1>1, <1>2, <1>6, <2>1, <2>2
  <2>4. Len(idle') <= Size
    BY <1>1, <2>1, <2>2, PoolAssumption
  <2> QED
    BY <1>6, <2>3, <2>4 DEF NothingLeaks, Using, Limit
<1>8. NoLostWakeup'
  <2>1. SUFFICES ASSUME waiting # <<>> PROVE Len(idle') <= Cardinality(Woken')
    BY <1>2 DEF NoLostWakeup
  <2>2. Len(idle) <= Cardinality(Woken)
    BY <2>1 DEF PoolOK, NoLostWakeup
  <2>3. /\ Cardinality(Woken) \in Nat
        /\ c \in Woken => Cardinality(Woken') = Cardinality(Woken) - 1
        /\ c \notin Woken => Woken' = Woken
    BY <1>4, HoldersAreClients, Counted
  <2> QED
    BY <1>1, <1>2, <2>2, <2>3
<1> QED
  BY <1>1, <1>2, <1>3, <1>4, <1>7, <1>8 DEF PoolOK

LEMMA OpenStep ==
  ASSUME PoolOK, NEW c \in Client, stage[c] = "begin", Open(c),
         stage' = [stage EXCEPT ![c] = "connect"], waiting' = waiting
  PROVE  PoolOK'
<1>1. idle' = idle /\ opened < Limit /\ opened' = opened + 1
  BY DEF Open
<1>2. /\ conn' \in [Client -> {"no", "new", "live", "stale"}]
      /\ conn'[c] = "new"
      /\ \A d \in Client \ {c} : conn'[d] = conn[d]
  BY DEF PoolOK, Open
<1>3. /\ stage' \in [Client -> Stages]
      /\ IsLine(waiting)'
      /\ stage'[c] = "connect"
      /\ \A d \in Client \ {c} : stage'[d] = stage[d]
      /\ Woken' = Woken \ {c}
  <2>1. "connect" \in Stages /\ stage[c] # "waiting"
    BY DEF Stages
  <2> QED
    BY <2>1, LineStands
<1>4. stage[c] \notin Using /\ stage'[c] \in Using
  BY <1>3 DEF Using
<1>5. /\ \A d \in Client : d \in Holders' <=> stage'[d] \in Using
      /\ Cardinality(Holders) \in Nat
      /\ Cardinality(Holders') = Cardinality(Holders) + 1
  BY <1>2, <1>3, <1>4, HolderMoves
<1>6. NothingLeaks'
  <2>1. Len(idle) \in Nat /\ opened \in Nat
    BY DEF PoolOK
  <2> QED
    BY <1>1, <1>5, <2>1, LimitIsNat DEF PoolOK, NothingLeaks, Using, Limit
<1>7. Woken' = Woken
  BY <1>3 DEF Woken
<1>8. NoLostWakeup'
  BY <1>1, <1>7 DEF PoolOK, NoLostWakeup
<1> QED
  BY <1>1, <1>2, <1>3, <1>6, <1>8 DEF PoolOK

LEMMA EnqueueStep ==
  ASSUME PoolOK, NEW c \in Client, stage[c] \in {"begin", "woken"}, Enqueue(c)
  PROVE  PoolOK'
<1>1. idle = <<>> /\ idle' = idle /\ opened' = opened /\ conn' = conn
  BY DEF Enqueue
<1>2. /\ stage' \in [Client -> Stages]
      /\ stage'[c] = "waiting"
      /\ \A d \in Client \ {c} : stage'[d] = stage[d]
  BY DEF PoolOK, Enqueue, Stages
<1>3. /\ waiting' \in Seq(Client) /\ Len(waiting') = Len(waiting) + 1
      /\ \A i \in 1..Len(waiting) : waiting'[i] = waiting[i]
      /\ waiting'[Len(waiting) + 1] = c
  BY DEF PoolOK, Enqueue, IsLine
<1>4. \A i \in 1..Len(waiting) : waiting[i] \in Client \ {c}
  BY DEF PoolOK, IsLine
<1>5. IsLine(waiting)'
  <2>1. Len(waiting) \in Nat
    BY DEF PoolOK, IsLine
  <2>2. \A i \in 1..Len(waiting') : i \in 1..Len(waiting) \/ i = Len(waiting) + 1
    BY <1>3, <2>1
  <2>3. \A i \in 1..Len(waiting') : stage'[waiting'[i]] = "waiting"
    BY <1>2, <1>3, <1>4, <2>2 DEF PoolOK, IsLine
  <2>4. \A i, j \in 1..Len(waiting') : waiting'[i] = waiting'[j] => i = j
    BY <1>3, <1>4, <2>2 DEF PoolOK, IsLine
  <2> QED
    BY <1>3, <2>3, <2>4 DEF IsLine
<1>6. stage[c] \notin Using /\ stage'[c] \notin Using /\ conn[c] = "no"
  BY <1>2 DEF PoolOK, NothingLeaks, Using, Holders
<1>7. Holders' = Holders /\ \A d \in Client : d \in Holders' <=> stage'[d] \in Using
  BY <1>1, <1>2, <1>6 DEF PoolOK, NothingLeaks, Using, Holders
<1>8. NothingLeaks'
  BY <1>1, <1>7 DEF PoolOK, NothingLeaks, Using, Limit
<1>9. NoLostWakeup'
  <2>1. Cardinality(Woken') \in Nat
    <3>1. Woken' \in SUBSET Client
      BY DEF Woken
    <3> QED
      BY <3>1, Counted
  <2>2. Len(idle') = 0
    BY <1>1
  <2> QED
    BY <2>1, <2>2 DEF NoLostWakeup
<1> QED
  BY <1>1, <1>2, <1>5, <1>8, <1>9 DEF PoolOK

\* c gives a connection back and goes on to next: to the queue and to whoever
\* is told, or to be closed.
LEMMA GiveBackStep ==
  ASSUME PoolOK, NEW c \in Client, stage[c] \in Using,
         NEW r \in {"live", "stale"}, NEW next \in {"none", "begin"},
         GiveBack(c, r, next)
  PROVE  /\ PoolOK'
         /\ stage'[c] = next /\ conn'[c] = "no"
         /\ \A d \in Client \ {c} :
              /\ conn'[d] = conn[d]
              /\ stage'[d] = stage[d] \/ (stage[d] = "waiting" /\ stage'[d] = "woken")
<1>1. /\ conn' \in [Client -> {"no", "new", "live", "stale"}]
      /\ conn'[c] = "no"
      /\ \A d \in Client \ {c} : conn'[d] = conn[d]
  BY DEF PoolOK, GiveBack
<1>2. \A i \in 1..Len(waiting) : waiting[i] # c
  BY DEF PoolOK, IsLine, Using
<1>3. next \in Stages \ {"waiting", "woken"} /\ next \notin Using /\ next \in Stages
  BY DEF Stages, Using
<1>4. c \notin Woken /\ stage[c] # "waiting"
  BY DEF Woken, Using
<1>5. /\ idle \in Seq({"live", "stale"}) /\ Len(idle) \in Nat /\ opened \in Nat
      /\ opened = Len(idle) + Cardinality(Holders)
      /\ opened <= Limit /\ Len(idle) <= Size
      /\ stage \in [Client -> Stages] /\ IsLine(waiting)
  BY DEF PoolOK, NothingLeaks
<1>6. CASE Len(idle) < Size /\ idle' = Append(idle, r)
           /\ stage' = Moved(c, next, waiting, TRUE)
           /\ waiting' = Left(waiting, TRUE) /\ opened' = opened
  <2>1. /\ stage' \in [Client -> Stages]
        /\ IsLine(waiting)'
        /\ stage'[c] = next
        /\ \A d \in Client \ {c} : stage'[d] \in Using <=> stage[d] \in Using
        /\ Woken' = (Woken \ {c}) \cup Told(waiting, TRUE)
        /\ Told(waiting, TRUE) \cap (Woken \cup {c}) = {}
    BY <1>2, <1>3, <1>5, <1>6, TellNext
  <2>2. idle' \in Seq({"live", "stale"}) /\ Len(idle') = Len(idle) + 1
    BY <1>5, <1>6
  <2>3. /\ \A d \in Client : d \in Holders' <=> stage'[d] \in Using
        /\ Cardinality(Holders) \in Nat
        /\ Cardinality(Holders') = Cardinality(Holders) - 1
    BY <1>1, <1>3, <2>1, HolderMoves
  <2>4. NothingLeaks'
    <3>1. opened' = Len(idle') + Cardinality(Holders') /\ opened' <= Limit /\ Len(idle') <= Size
      BY <1>5, <1>6, <2>2, <2>3, PoolAssumption
    <3> QED
      BY <3>1, <2>3 DEF NothingLeaks, Using, Limit
  <2>5. NoLostWakeup'
    <3>1. SUFFICES ASSUME waiting' # <<>> PROVE Len(idle') <= Cardinality(Woken')
      BY DEF NoLostWakeup
    <3>2. waiting # <<>>
      BY <1>6, <3>1 DEF Left
    <3>3. Told(waiting, TRUE) = {Head(waiting)} /\ Head(waiting) \in Client
      BY <3>2, <1>5 DEF Told, IsLine
    <3>4. Woken' = Woken \cup {Head(waiting)} /\ Head(waiting) \notin Woken
      BY <2>1, <3>3, <1>4
    <3>5. Cardinality(Woken') = Cardinality(Woken) + 1 /\ Cardinality(Woken) \in Nat
      BY <3>3, <3>4, HoldersAreClients, Counted
    <3>6. Len(idle) <= Cardinality(Woken)
      BY <3>2 DEF PoolOK, NoLostWakeup
    <3> QED
      BY <1>5, <2>2, <3>5, <3>6
  <2>6. \A d \in Client \ {c} :
          stage'[d] = stage[d] \/ (stage[d] = "waiting" /\ stage'[d] = "woken")
    <3>1. \A d \in Told(waiting, TRUE) : stage[d] = "waiting"
      BY <1>5 DEF Told, IsLine
    <3> QED
      BY <1>6, <3>1 DEF Moved
  <2> QED
    BY <1>1, <1>5, <1>6, <2>1, <2>2, <2>4, <2>5, <2>6 DEF PoolOK
<1>7. CASE Size <= Len(idle) /\ opened' = opened - 1
           /\ stage' = [stage EXCEPT ![c] = next]
           /\ idle' = idle /\ waiting' = waiting
  <2>1. /\ stage' \in [Client -> Stages]
        /\ IsLine(waiting)'
        /\ stage'[c] = next
        /\ \A d \in Client \ {c} : stage'[d] = stage[d]
        /\ Woken' = Woken \ {c}
    BY <1>3, <1>4, <1>7, LineStands
  <2>2. /\ \A d \in Client : d \in Holders' <=> stage'[d] \in Using
        /\ Cardinality(Holders) \in Nat
        /\ Cardinality(Holders') = Cardinality(Holders) - 1
        /\ 0 < Cardinality(Holders)
    <3>1. c \in Holders
      BY DEF PoolOK, NothingLeaks, Using
    <3> QED
      BY <1>1, <1>3, <2>1, <3>1, HolderMoves, Counted, HoldersAreClients
  <2>3. opened' \in Nat /\ NothingLeaks'
    <3>1. /\ opened' \in Nat /\ opened' = Len(idle') + Cardinality(Holders')
          /\ opened' <= Limit /\ Len(idle') <= Size
      BY <1>5, <1>7, <2>2, LimitIsNat
    <3> QED
      BY <3>1, <2>2 DEF NothingLeaks, Using, Limit
  <2>4. NoLostWakeup'
    BY <1>4, <1>7, <2>1 DEF PoolOK, NoLostWakeup
  <2> QED
    BY <1>1, <1>5, <1>7, <2>1, <2>3, <2>4 DEF PoolOK
<1> QED
  BY <1>6, <1>7 DEF GiveBack

\* The place of a connection that was never made.
LEMMA DropStep ==
  ASSUME PoolOK, NEW c \in Client, stage[c] = "connect",
         opened' = opened - 1, conn' = [conn EXCEPT ![c] = "no"],
         stage' = [stage EXCEPT ![c] = "none"], UNCHANGED <<idle, waiting>>
  PROVE  PoolOK'
<1>1. /\ conn' \in [Client -> {"no", "new", "live", "stale"}]
      /\ conn'[c] = "no"
      /\ \A d \in Client \ {c} : conn'[d] = conn[d]
  BY DEF PoolOK
<1>2. /\ stage' \in [Client -> Stages]
      /\ IsLine(waiting)'
      /\ stage'[c] = "none"
      /\ \A d \in Client \ {c} : stage'[d] = stage[d]
      /\ Woken' = Woken \ {c}
  <2>1. "none" \in Stages /\ waiting' = waiting
    BY DEF Stages
  <2> QED
    BY <2>1, LineStands
<1>3. /\ \A d \in Client : d \in Holders' <=> stage'[d] \in Using
      /\ Cardinality(Holders) \in Nat
      /\ Cardinality(Holders') = Cardinality(Holders) - 1
      /\ 0 < Cardinality(Holders)
  <2>1. c \in Holders /\ stage[c] \in Using /\ stage'[c] \notin Using
    BY <1>2 DEF PoolOK, NothingLeaks, Using
  <2> QED
    BY <1>1, <1>2, <2>1, HolderMoves, Counted, HoldersAreClients
<1>4. opened' \in Nat /\ NothingLeaks'
  <2>1. /\ Len(idle) \in Nat /\ opened \in Nat
        /\ opened = Len(idle) + Cardinality(Holders)
        /\ opened <= Limit /\ Len(idle) <= Size
    BY DEF PoolOK, NothingLeaks
  <2>2. /\ opened' \in Nat /\ opened' = Len(idle') + Cardinality(Holders')
        /\ opened' <= Limit /\ Len(idle') <= Size
    BY <1>3, <2>1, LimitIsNat
  <2> QED
    BY <1>3, <2>2 DEF NothingLeaks, Using, Limit
<1>5. NoLostWakeup'
  BY <1>2 DEF PoolOK, NoLostWakeup, Woken
<1> QED
  BY <1>1, <1>2, <1>4, <1>5 DEF PoolOK

\* A connection is there, or has been tried.
LEMMA ConnectStep ==
  ASSUME PoolOK, NEW c \in Client, stage[c] = "connect",
         conn' = [conn EXCEPT ![c] = "live"],
         stage' = [stage EXCEPT ![c] = "query"],
         UNCHANGED <<idle, opened, waiting>>
  PROVE  PoolOK'
<1>1. /\ conn' \in [Client -> {"no", "new", "live", "stale"}]
      /\ conn'[c] = "live"
      /\ \A d \in Client \ {c} : conn'[d] = conn[d]
  BY DEF PoolOK
<1>2. /\ stage' \in [Client -> Stages]
      /\ IsLine(waiting)'
      /\ stage'[c] = "query"
      /\ \A d \in Client \ {c} : stage'[d] = stage[d]
      /\ Woken' = Woken \ {c}
  <2>1. "query" \in Stages /\ waiting' = waiting
    BY DEF Stages
  <2> QED
    BY <2>1, LineStands
<1>3. Holders' = Holders /\ \A d \in Client : d \in Holders' <=> stage'[d] \in Using
  <2>1. stage[c] \in Using /\ stage'[c] \in Using
    BY <1>2 DEF Using
  <2> QED
    BY <1>1, <1>2, <2>1, HolderMoves
<1>4. NothingLeaks'
  BY <1>3 DEF PoolOK, NothingLeaks, Using, Limit
<1>5. NoLostWakeup'
  BY <1>2 DEF PoolOK, NoLostWakeup, Woken
<1> QED
  BY <1>1, <1>2, <1>4, <1>5 DEF PoolOK

\* A request comes.
LEMMA ArriveStep ==
  ASSUME PoolOK, NEW c \in Client, stage[c] = "none",
         stage' = [stage EXCEPT ![c] = "begin"],
         UNCHANGED <<idle, opened, waiting, conn>>
  PROVE  PoolOK'
<1>1. /\ stage' \in [Client -> Stages]
      /\ IsLine(waiting)'
      /\ stage'[c] = "begin"
      /\ \A d \in Client \ {c} : stage'[d] = stage[d]
      /\ Woken' = Woken \ {c}
  <2>1. "begin" \in Stages /\ waiting' = waiting
    BY DEF Stages
  <2> QED
    BY <2>1, LineStands
<1>2. Holders' = Holders /\ \A d \in Client : d \in Holders' <=> stage'[d] \in Using
  BY <1>1 DEF PoolOK, NothingLeaks, Using, Holders
<1>3. NothingLeaks'
  BY <1>2 DEF PoolOK, NothingLeaks, Using, Limit
<1>4. NoLostWakeup'
  BY <1>1 DEF PoolOK, NoLostWakeup, Woken
<1> QED
  BY <1>1, <1>3, <1>4 DEF PoolOK

\* c gives up waiting, in front of a line that it is not in.
LEMMA ExpireStep ==
  ASSUME PoolOK, NEW c \in Client, stage[c] \in {"waiting", "woken"},
         NEW line, IsLine(line), \A i \in 1..Len(line) : line[i] # c,
         NEW news \in BOOLEAN,
         line # <<>> => waiting # <<>>,
         stage[c] = "woken" => (news <=> idle # <<>>),
         Expire(c, line, news)
  PROVE  /\ PoolOK'
         /\ stage'[c] \in {"connect", "none"} /\ conn'[c] \in {"no", "new"}
         /\ \A d \in Client \ {c} :
              /\ conn'[d] = conn[d]
              /\ stage'[d] = stage[d] \/ (stage[d] = "waiting" /\ stage'[d] = "woken")
<1>1. PICK next \in {"connect", "none"} : stage' = Moved(c, next, line, news)
  BY DEF Expire
<1>2. waiting' = Left(line, news) /\ idle' = idle
  BY DEF Expire, Open
<1>3. next \in Stages \ {"waiting", "woken"}
  BY DEF Stages
<1>4. /\ stage \in [Client -> Stages] /\ opened \in Nat /\ Len(idle) \in Nat
      /\ opened = Len(idle) + Cardinality(Holders)
      /\ opened <= Limit /\ Len(idle) <= Size
      /\ idle \in Seq({"live", "stale"})
      /\ stage[c] \notin Using /\ conn[c] = "no"
  BY DEF PoolOK, NothingLeaks, Using, Holders
<1>5. /\ stage' \in [Client -> Stages]
      /\ IsLine(waiting)'
      /\ stage'[c] = next
      /\ \A d \in Client \ {c} : stage'[d] \in Using <=> stage[d] \in Using
      /\ Woken' = (Woken \ {c}) \cup Told(line, news)
      /\ Told(line, news) \cap (Woken \cup {c}) = {}
  BY <1>1, <1>2, <1>3, <1>4, TellNext
<1>6. /\ conn' \in [Client -> {"no", "new", "live", "stale"}]
      /\ \A d \in Client \ {c} : conn'[d] = conn[d]
      /\ conn'[c] \in {"no", "new"}
      /\ \/ conn'[c] = "new" /\ stage'[c] = "connect"
            /\ opened < Limit /\ opened' = opened + 1
         \/ conn'[c] = "no" /\ stage'[c] = "none" /\ opened' = opened
  <2>1. stage'[c] = "connect" \/ stage'[c] = "none"
    BY <1>5
  <2>2. \A x : (stage' = Moved(c, x, line, news)) => stage'[c] = x
    BY DEF Moved
  <2> QED
    BY <1>4, <2>2 DEF PoolOK, Expire, Open
<1>7. /\ \A d \in Client : d \in Holders' <=> stage'[d] \in Using
      /\ Cardinality(Holders) \in Nat
      /\ stage'[c] = "connect" => Cardinality(Holders') = Cardinality(Holders) + 1
      /\ stage'[c] = "none" => Holders' = Holders
  <2>1. stage'[c] = "connect" => stage'[c] \in Using
    BY DEF Using
  <2>2. stage'[c] = "none" => stage'[c] \notin Using
    BY DEF Using
  <2>3. conn'[c] # "no" <=> stage'[c] \in Using
    BY <1>6, <2>1, <2>2
  <2> QED
    BY <1>4, <1>5, <1>6, <2>1, <2>2, <2>3, HolderMoves
<1>8. opened' \in Nat /\ NothingLeaks'
  <2>1. /\ opened' \in Nat /\ opened' = Len(idle') + Cardinality(Holders')
        /\ opened' <= Limit /\ Len(idle') <= Size
    BY <1>2, <1>4, <1>6, <1>7, LimitIsNat
  <2> QED
    BY <2>1, <1>7 DEF NothingLeaks, Using, Limit
<1>9. NoLostWakeup'
  <2>1. SUFFICES ASSUME waiting' # <<>> PROVE Len(idle) <= Cardinality(Woken')
    BY <1>2 DEF NoLostWakeup
  <2>2. line # <<>> /\ waiting # <<>>
    BY <1>2, <2>1 DEF Left
  <2>3. Len(idle) <= Cardinality(Woken)
    BY <2>2 DEF PoolOK, NoLostWakeup
  <2>4. Cardinality(Woken) \in Nat /\ Cardinality(Woken') \in Nat
    <3>1. Woken \in SUBSET Client /\ Woken' \in SUBSET Client
      BY DEF Woken
    <3> HIDE DEF Woken
    <3> QED
      BY <3>1, Counted
  <2>5. CASE stage[c] = "waiting"
    <3>1. c \notin Woken
      BY <2>5 DEF Woken
    <3>2. Woken \subseteq Woken' /\ Woken' \in SUBSET Client
      BY <1>5, <3>1 DEF Woken
    <3>3. Cardinality(Woken) <= Cardinality(Woken')
      BY <3>2, FS_Subset, Counted
    <3>4. Cardinality(Woken) \in Nat /\ Cardinality(Woken') \in Nat
      BY <2>4
    <3> QED
      BY <1>4, <2>3, <3>3, <3>4
  <2>6. CASE stage[c] = "woken" /\ news
    <3>1. Told(line, news) = {Head(line)} /\ Head(line) \in Client
      BY <2>2, <2>6 DEF Told, IsLine
    <3>2. c \in Woken
      BY <2>6 DEF Woken
    <3>3. /\ Cardinality(Woken) \in Nat
          /\ Cardinality(Woken \ {c}) = Cardinality(Woken) - 1
      BY <3>2, Counted, HoldersAreClients
    <3>4. Woken' = (Woken \ {c}) \cup {Head(line)} /\ Head(line) \notin Woken \ {c}
      BY <1>5, <3>1
    <3>5. Cardinality(Woken') = Cardinality(Woken \ {c}) + 1
      BY <3>1, <3>4, Counted, HoldersAreClients
    <3> QED
      BY <1>4, <2>3, <3>3, <3>5
  <2>7. CASE stage[c] = "woken" /\ ~news
    <3>1. Len(idle) = 0
      BY <2>7
    <3> QED
      BY <3>1, <2>4
  <2> QED
    BY <2>5, <2>6, <2>7
<1>10. \A d \in Client \ {c} :
         stage'[d] = stage[d] \/ (stage[d] = "waiting" /\ stage'[d] = "woken")
  <2>1. \A d \in Told(line, news) : stage[d] = "waiting"
    BY DEF Told, IsLine
  <2> QED
    BY <1>1, <2>1 DEF Moved
<1> QED
  BY <1>2, <1>4, <1>5, <1>6, <1>8, <1>9, <1>10 DEF PoolOK

\* Every connection dies.
LEMMA StopStep ==
  ASSUME PoolOK, Stop
  PROVE  PoolOK'
<1>1. \A r \in {"no", "new", "live", "stale"} :
        /\ Lost(r) \in {"no", "new", "stale"} /\ (Lost(r) = "no" <=> r = "no")
        /\ r \in {"live", "stale"} => Lost(r) = "stale"
  BY DEF Lost
<1>2. idle' \in Seq({"live", "stale"}) /\ Len(idle') = Len(idle)
  BY <1>1 DEF PoolOK, Stop
<1>3. /\ conn' \in [Client -> {"no", "new", "live", "stale"}]
      /\ \A c \in Client : conn'[c] = "no" <=> conn[c] = "no"
  BY <1>1 DEF PoolOK, Stop
<1>4. Holders' = Holders
  BY <1>3 DEF Holders
<1>5. UNCHANGED <<opened, waiting, stage>> /\ Woken' = Woken
  BY DEF Stop, Woken
<1>6. NothingLeaks'
  BY <1>2, <1>4, <1>5 DEF PoolOK, NothingLeaks, Limit
<1>7. NoLostWakeup'
  BY <1>2, <1>5 DEF PoolOK, NoLostWakeup
<1> QED
  BY <1>2, <1>3, <1>5, <1>6, <1>7 DEF PoolOK, IsLine

------------------------------------------------------------------------------
(* The steps of requests and of the database.                              *)

\* A step of c, with the other requests where they were, or woken, leaves
\* them with what they have seen.
LEMMA OthersSaw ==
  ASSUME RequestsOK, NEW c \in Client, database' = database,
         outage' \in [Client -> BOOLEAN],
         \A d \in Client \ {c} :
           /\ conn'[d] = conn[d] /\ outage'[d] = outage[d]
           /\ stage'[d] = stage[d] \/ (stage[d] = "waiting" /\ stage'[d] = "woken"),
         \/ database = "down" /\ stage'[c] # "none"
         \/ stage'[c] = "query" /\ conn'[c] = "stale"
         => outage'[c]
  PROVE  OutageSeen'
BY DEF RequestsOK, OutageSeen

\* A step of c that keeps what it has seen.
LEMMA SawToo ==
  ASSUME RequestsOK, PoolOK, NEW c \in Client,
         database' = database, outage' = outage, uses' \in [Client -> Nat],
         stage[c] # "none",
         stage'[c] = "query" => conn'[c] # "stale",
         \A d \in Client \ {c} :
           /\ conn'[d] = conn[d]
           /\ stage'[d] = stage[d] \/ (stage[d] = "waiting" /\ stage'[d] = "woken")
  PROVE  RequestsOK'
<1>1. database = "down" => outage[c]
  BY DEF RequestsOK, OutageSeen
<1>2. outage' \in [Client -> BOOLEAN]
  BY DEF RequestsOK
<1>3. OutageSeen'
  BY <1>1, <1>2, OthersSaw
<1> QED
  BY <1>2, <1>3 DEF RequestsOK

\* A step that answers c.
LEMMA OverStep ==
  ASSUME RequestsOK, PoolOK, NEW c \in Client,
         database' = database, Over(c), stage'[c] = "none",
         \A d \in Client \ {c} :
           /\ conn'[d] = conn[d]
           /\ stage'[d] = stage[d] \/ (stage[d] = "waiting" /\ stage'[d] = "woken")
  PROVE  RequestsOK'
<1>1. uses' \in [Client -> Nat]
  BY DEF RequestsOK, Over
<1>2. outage' \in [Client -> BOOLEAN] /\ \A d \in Client \ {c} : outage'[d] = outage[d]
  BY DEF RequestsOK, Over
<1>3. OutageSeen'
  BY <1>2, OthersSaw
<1> QED
  BY <1>1, <1>2, <1>3 DEF RequestsOK

\* Only c moves, and does not move from or to a use of a connection alone.
LEMMA OnlyMoves ==
  ASSUME PoolOK, NEW c \in Client, NEW next \in Stages,
         stage' = [stage EXCEPT ![c] = next]
  PROVE  stage'[c] = next /\ \A d \in Client \ {c} : stage'[d] = stage[d]
BY DEF PoolOK

LEMMA CheckoutStep ==
  ASSUME IndInv, NEW c \in Client, Checkout(c) \/ Resume(c)
  PROVE  IndInv'
<1>1. /\ stage[c] \in {"begin", "woken"}
      /\ database' = database /\ uses' = uses /\ outage' = outage
      /\ \/ Take(c) \/ Enqueue(c)
         \/ /\ stage[c] = "begin" /\ Open(c) /\ waiting' = waiting
            /\ stage' = [stage EXCEPT ![c] = "connect"]
  BY DEF Checkout, Resume
<1>2. PoolOK'
  BY <1>1, TakeStep, EnqueueStep, OpenStep DEF IndInv
<1>3. /\ \A d \in Client \ {c} : conn'[d] = conn[d]
      /\ \E next \in {"connect", "waiting"} : stage' = [stage EXCEPT ![c] = next]
  BY <1>1 DEF Take, Enqueue, Open, IndInv, PoolOK
<1>4. stage'[c] # "query" /\ \A d \in Client \ {c} : stage'[d] = stage[d]
  BY <1>3 DEF IndInv, PoolOK
<1>5. RequestsOK'
  <2>1. stage[c] # "none" /\ uses' \in [Client -> Nat]
    BY <1>1 DEF IndInv, RequestsOK
  <2> QED
    BY <1>1, <1>3, <1>4, <2>1, SawToo DEF IndInv
<1> QED
  BY <1>2, <1>5 DEF IndInv

\* Whoever leaves the line leaves the others in it as they were.
LEMMA TimeoutStep ==
  ASSUME IndInv, NEW c \in Client, Timeout(c)
  PROVE  IndInv'
<1>1. PICK line \in Seq(Client), news \in BOOLEAN :
        /\ stage[c] \in {"waiting", "woken"}
        /\ IsLine(line) /\ \A i \in 1..Len(line) : line[i] # c
        /\ line # <<>> => waiting # <<>>
        /\ stage[c] = "woken" => (news <=> idle # <<>>)
        /\ Expire(c, line, news)
  <2>1. IsLine(waiting) /\ waiting \in Seq(Client) /\ Len(waiting) \in Nat
    BY DEF IndInv, PoolOK, IsLine
  <2>2. \A i, j \in 1..Len(waiting) : waiting[i] = waiting[j] => i = j
    BY <2>1 DEF IsLine
  <2>3. DOMAIN waiting = 1..Len(waiting)
    BY <2>1
  <2>4. CASE TimeoutWoken(c)
    <3>1. \A i \in 1..Len(waiting) : waiting[i] # c
      BY <2>1, <2>4 DEF IsLine, TimeoutWoken
    <3>2. PassOn \in BOOLEAN /\ (PassOn <=> idle # <<>>)
      BY DEF PassOn
    <3> QED
      BY <2>1, <2>4, <3>1, <3>2 DEF TimeoutWoken
  <2>5. CASE TimeoutWaiting(c)
    <3>1. PICK i \in 1..Len(waiting) :
            waiting[i] = c /\ Expire(c, RemoveAt(waiting, i), FALSE)
      BY <2>5, <2>3 DEF TimeoutWaiting
    <3> DEFINE rest == RemoveAt(waiting, i)
    <3>2. /\ rest \in Seq(Client) /\ Len(rest) = Len(waiting) - 1
          /\ \A j \in 1..Len(waiting) - 1 :
               rest[j] = waiting[IF j < i THEN j ELSE j + 1]
      BY <2>1, Removed
    <3> HIDE DEF rest
    <3> DEFINE At(j) == IF j < i THEN j ELSE j + 1
    <3>3. \A j \in 1..Len(rest) : /\ At(j) \in 1..Len(waiting) /\ At(j) # i
                                  /\ rest[j] = waiting[At(j)]
      BY <2>1, <3>2
    <3>4. \A j, k \in 1..Len(rest) : At(j) = At(k) => j = k
      BY <3>2
    <3> HIDE DEF At
    <3>5. \A j \in 1..Len(rest) : stage[rest[j]] = "waiting"
      BY <2>1, <3>3 DEF IsLine
    <3>6. \A j, k \in 1..Len(rest) : rest[j] = rest[k] => j = k
      BY <2>2, <3>3, <3>4
    <3>7. \A j \in 1..Len(rest) : rest[j] # c
      BY <2>1, <3>1, <3>3 DEF IsLine
    <3>8. IsLine(rest) /\ waiting # <<>>
      BY <2>1, <3>2, <3>5, <3>6 DEF IsLine
    <3>9. stage[c] = "waiting" /\ Expire(c, rest, FALSE)
      BY <2>5, <3>1 DEF rest, TimeoutWaiting
    <3> QED
      BY <3>2, <3>7, <3>8, <3>9
  <2> QED
    BY <2>4, <2>5 DEF Timeout
<1>2. /\ PoolOK'
      /\ stage'[c] \in {"connect", "none"} /\ conn'[c] \in {"no", "new"}
      /\ \A d \in Client \ {c} :
           /\ conn'[d] = conn[d]
           /\ stage'[d] = stage[d] \/ (stage[d] = "waiting" /\ stage'[d] = "woken")
  BY <1>1, ExpireStep DEF IndInv
<1>3. RequestsOK'
  <2>1. database' = database
    BY <1>1 DEF Expire
  <2>2. CASE Over(c) /\ stage'[c] = "none"
    BY <1>2, <2>1, <2>2, OverStep DEF IndInv
  <2>3. CASE UNCHANGED <<uses, outage>>
    <3>1. uses' \in [Client -> Nat] /\ outage' = outage
      BY <2>3 DEF IndInv, RequestsOK
    <3>2. stage[c] # "none" /\ stage'[c] # "query"
      BY <1>1, <1>2
    <3> QED
      BY <1>2, <2>1, <3>1, <3>2, SawToo DEF IndInv
  <2>4. UNCHANGED <<uses, outage>> \/ (Over(c) /\ stage'[c] = "none")
    BY <1>1 DEF Expire, Moved
  <2> QED
    BY <2>2, <2>3, <2>4
<1> QED
  BY <1>2, <1>3 DEF IndInv

LEMMA UseStep ==
  ASSUME IndInv, NEW c \in Client,
         Connect(c) \/ FailToConnect(c) \/ Commit(c) \/ Finish(c) \/ FailQuery(c)
  PROVE  IndInv'
<1>1. PoolOK /\ RequestsOK /\ database' = database
  BY DEF IndInv, Connect, FailToConnect, Commit, Finish, FailQuery
<1>2. CASE Connect(c)
  <2>1. /\ stage[c] = "connect" /\ stage' = [stage EXCEPT ![c] = "query"]
        /\ conn' = [conn EXCEPT ![c] = "live"]
        /\ UNCHANGED <<idle, opened, waiting, uses, outage>>
    BY <1>2 DEF Connect
  <2>2. PoolOK'
    BY <1>1, <2>1, ConnectStep
  <2>3. /\ conn'[c] = "live" /\ uses' \in [Client -> Nat]
        /\ \A d \in Client \ {c} : conn'[d] = conn[d] /\ stage'[d] = stage[d]
    BY <1>1, <2>1 DEF PoolOK, RequestsOK
  <2>4. RequestsOK'
    BY <1>1, <2>1, <2>3, SawToo
  <2> QED
    BY <2>2, <2>4 DEF IndInv
<1>3. CASE FailToConnect(c) /\ conn[c] = "new"
  <2>1. /\ stage[c] = "connect" /\ opened' = opened - 1
        /\ conn' = [conn EXCEPT ![c] = "no"]
        /\ stage' = [stage EXCEPT ![c] = "none"]
        /\ UNCHANGED <<idle, waiting>> /\ Over(c)
    BY <1>3 DEF FailToConnect
  <2>2. PoolOK'
    BY <1>1, <2>1, DropStep
  <2>3. /\ stage'[c] = "none"
        /\ \A d \in Client \ {c} : conn'[d] = conn[d] /\ stage'[d] = stage[d]
    BY <1>1, <2>1 DEF PoolOK
  <2>4. RequestsOK'
    BY <1>1, <2>1, <2>3, OverStep
  <2> QED
    BY <2>2, <2>4 DEF IndInv
<1>4. CASE \E r \in {"live", "stale"}, next \in {"none", "begin"} :
             /\ stage[c] \in Using /\ GiveBack(c, r, next)
             /\ \/ next = "none" /\ Over(c)
                \/ /\ next = "begin" /\ outage' = outage
                   /\ uses' \in [Client -> Nat]
  <2>1. PICK r \in {"live", "stale"}, next \in {"none", "begin"} :
             /\ stage[c] \in Using /\ GiveBack(c, r, next)
             /\ \/ next = "none" /\ Over(c)
                \/ /\ next = "begin" /\ outage' = outage
                   /\ uses' \in [Client -> Nat]
    BY <1>4
  <2>2. /\ PoolOK'
        /\ stage'[c] = next /\ conn'[c] = "no"
        /\ \A d \in Client \ {c} :
             /\ conn'[d] = conn[d]
             /\ stage'[d] = stage[d] \/ (stage[d] = "waiting" /\ stage'[d] = "woken")
    BY <1>1, <2>1, GiveBackStep
  <2>3. CASE next = "none" /\ Over(c)
    BY <1>1, <2>2, <2>3, OverStep DEF IndInv
  <2>4. CASE next = "begin" /\ outage' = outage /\ uses' \in [Client -> Nat]
    <3>1. stage[c] # "none" /\ stage'[c] # "query"
      BY <2>1, <2>2, <2>4 DEF Using
    <3> QED
      BY <1>1, <2>2, <2>4, <3>1, SawToo DEF IndInv
  <2> QED
    BY <2>1, <2>3, <2>4
<1>5. CASE FailToConnect(c) /\ conn[c] # "new"
  <2>1. stage[c] \in Using /\ GiveBack(c, "stale", "none") /\ Over(c)
    BY <1>5 DEF FailToConnect, Using
  <2> QED
    BY <1>4, <2>1
<1>6. CASE Commit(c)
  <2>1. stage[c] \in Using /\ GiveBack(c, "live", "begin") /\ outage' = outage
    BY <1>6 DEF Commit, Using
  <2>2. uses[c] - 1 \in Nat
    BY <1>1, <1>6 DEF RequestsOK, Commit
  <2>3. uses' \in [Client -> Nat]
    BY <1>1, <1>6, <2>2 DEF RequestsOK, Commit
  <2> QED
    BY <1>4, <2>1, <2>3
<1>7. CASE Finish(c)
  <2>1. stage[c] \in Using /\ GiveBack(c, "live", "none") /\ Over(c)
    BY <1>7 DEF Finish, Using
  <2> QED
    BY <1>4, <2>1
<1>8. CASE FailQuery(c)
  <2>1. stage[c] \in Using /\ GiveBack(c, "stale", "none") /\ Over(c)
    BY <1>8 DEF FailQuery, Using
  <2> QED
    BY <1>4, <2>1
<1> QED
  BY <1>2, <1>3, <1>5, <1>6, <1>7, <1>8

LEMMA ArriveKeeps ==
  ASSUME IndInv, NEW c \in Client, Arrive(c)
  PROVE  IndInv'
<1>1. /\ PoolOK /\ RequestsOK /\ stage[c] = "none"
      /\ stage' = [stage EXCEPT ![c] = "begin"]
      /\ UNCHANGED <<database, idle, opened, waiting, conn>>
  BY DEF IndInv, Arrive
<1>2. PoolOK'
  BY <1>1, ArriveStep
<1>3. uses' \in [Client -> Nat]
  BY <1>1, PoolAssumption DEF RequestsOK, Arrive
<1>4. /\ outage' \in [Client -> BOOLEAN]
      /\ database = "down" => outage'[c]
      /\ \A d \in Client \ {c} : outage'[d] = outage[d]
  <2>1. (database = "down") \in BOOLEAN
    OBVIOUS
  <2> QED
    BY <1>1, <2>1 DEF RequestsOK, Arrive
<1>5. stage'[c] # "query" /\ \A d \in Client \ {c} : stage'[d] = stage[d]
  BY <1>1 DEF PoolOK
<1>6. OutageSeen'
  BY <1>1, <1>4, <1>5, OthersSaw
<1> QED
  BY <1>1, <1>2, <1>3, <1>4, <1>6 DEF IndInv, RequestsOK

LEMMA DatabaseStep ==
  ASSUME IndInv, Stop \/ Start
  PROVE  IndInv'
<1>1. CASE Stop
  <2>1. PoolOK'
    BY <1>1, StopStep DEF IndInv
  <2>2. /\ stage' = stage /\ uses' = uses /\ database' = "down"
        /\ outage' = [c \in Client |-> outage[c] \/ stage[c] # "none"]
    BY <1>1 DEF Stop
  <2>3. outage' \in [Client -> BOOLEAN]
    <3>1. \A c \in Client : (outage[c] \/ stage[c] # "none") \in BOOLEAN
      OBVIOUS
    <3> QED
      BY <2>2, <3>1
  <2>4. OutageSeen'
    BY <2>2 DEF OutageSeen
  <2> QED
    BY <2>1, <2>2, <2>3, <2>4 DEF IndInv, RequestsOK
<1>2. CASE Start
  BY <1>2 DEF Start, IndInv, PoolOK, IsLine, NothingLeaks, Holders, Limit,
              NoLostWakeup, Woken, RequestsOK, OutageSeen
<1> QED
  BY <1>1, <1>2

------------------------------------------------------------------------------
(* Theorems.                                                               *)

LEMMA InitOK == Init => IndInv
<1> SUFFICES ASSUME Init PROVE IndInv
  OBVIOUS
<1>1. Holders = {} /\ Woken = {}
  BY DEF Init, Holders, Woken
<1>2. /\ idle = <<>> /\ waiting = <<>> /\ opened = 0
      /\ Len(idle) = 0 /\ Len(waiting) = 0 /\ Cardinality(Holders) = 0
  BY <1>1, FS_EmptySet DEF Init
<1>3. /\ idle \in Seq({"live", "stale"}) /\ waiting \in Seq(Client)
  BY <1>2
<1>4. /\ stage \in [Client -> Stages]
      /\ conn \in [Client -> {"no", "new", "live", "stale"}]
  BY DEF Init, Stages
<1>5. IsLine(waiting)
  BY <1>2, <1>3 DEF IsLine
<1>6. NothingLeaks
  BY <1>1, <1>2, LimitIsNat, PoolAssumption DEF NothingLeaks, Init
<1>7. NoLostWakeup
  BY <1>2 DEF NoLostWakeup
<1>8. RequestsOK
  BY DEF Init, RequestsOK, OutageSeen
<1> QED
  BY <1>2, <1>3, <1>4, <1>5, <1>6, <1>7, <1>8 DEF IndInv, PoolOK

LEMMA NextOK == IndInv /\ [Next]_vars => IndInv'
<1> SUFFICES ASSUME IndInv, [Next]_vars PROVE IndInv'
  OBVIOUS
<1>1. CASE \E c \in Client : Arrive(c) \/ Progress(c) \/ Timeout(c)
  BY <1>1, ArriveKeeps, CheckoutStep, UseStep, TimeoutStep DEF Progress
<1>2. CASE Stop \/ Start
  BY <1>2, DatabaseStep
<1>3. CASE UNCHANGED vars
  BY <1>3 DEF vars, IndInv, PoolOK, IsLine, NothingLeaks, Holders, Limit,
              NoLostWakeup, Woken, RequestsOK, OutageSeen
<1> QED
  BY <1>1, <1>2, <1>3 DEF Next

LEMMA Inductive == Spec => []IndInv
BY InitOK, NextOK, PTL DEF Spec

\* Every reachable state of the pool has its type.
THEOREM TypeCorrect == Spec => []TypeOK
<1>1. IndInv => TypeOK
  BY DEF IndInv, PoolOK, RequestsOK, IsLine, TypeOK, Stages
<1> QED
  BY <1>1, Inductive, PTL

\* No path through failures, time-outs and releases loses a place of the pool
\* or opens one too many.
THEOREM NothingEverLeaks == Spec => []NothingLeaks
<1>1. IndInv => NothingLeaks
  BY DEF IndInv, PoolOK
<1> QED
  BY <1>1, Inductive, PTL

\* While requests wait, somebody is on the way to each idle connection.
THEOREM NoWakeupIsLost == Spec => []NoLostWakeup
<1>1. IndInv => NoLostWakeup
  BY DEF IndInv, PoolOK
<1> QED
  BY <1>1, Inductive, PTL

\* Only requests that were here while the database was away fail to connect
\* or to query.
THEOREM OnlyOutagesFail == Spec => ErrorsAreOutages
<1>1. IndInv /\ [Next]_vars =>
        [\A c \in Client : (FailToConnect(c) \/ FailQuery(c)) => outage[c]]_vars
  BY DEF IndInv, RequestsOK, OutageSeen, FailToConnect, FailQuery
<1> QED
  BY <1>1, Inductive, PTL DEF Spec, ErrorsAreOutages
==============================================================================
