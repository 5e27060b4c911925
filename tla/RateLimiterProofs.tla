-------------------------- MODULE RateLimiterProofs --------------------------
(***************************************************************************)
(* Proofs about the login limiter, for any number of addresses, any limit  *)
(* and any window.  The inductive invariant says that a bucket is the tail *)
(* of the log that may still count: what was dropped has left the window.  *)
(***************************************************************************)
EXTENDS RateLimiter, SequenceTheorems, WellFoundedInduction, TLAPS

LEMMA WidthIsNat == Width \in Nat
  BY LimitAssumption, SMT DEF Width

\* The \div of two naturals, as inequalities.
LEMMA Division ==
  ASSUME NEW x \in Nat, NEW s \in Nat \ {0}
  PROVE  /\ x \div s \in Nat
         /\ s * (x \div s) <= x
         /\ x < s * (x \div s + 1)
  BY SMT

LEMMA SuffixIndex ==
  ASSUME NEW m \in Nat, NEW n \in Nat, n <= m, NEW i \in 1..n
  PROVE  m - n + i \in 1..m
  BY SMT

LEMMA LeastElement ==
  ASSUME NEW T, T \subseteq Nat, T # {}
  PROVE  \E m \in T : \A n \in T : m <= n
<1> DEFINE R == OpToRel(<, Nat)
<1>1. \E m \in T : \A n \in T : ~(<<n, m>> \in R)
  BY NatLessThanWellFounded, WFMin
<1>2. \A m, n \in Nat : n < m => <<n, m>> \in R
  BY DEF OpToRel
<1> HIDE DEF R
<1>3. PICK m \in T : \A n \in T : ~(<<n, m>> \in R)
  BY <1>1
<1>4. \A n \in T : ~(n < m)
  BY <1>2, <1>3
<1> QED
  BY <1>4, SMT

------------------------------------------------------------------------------
(* Buckets as sequences.                                                   *)

LEMMA KeptProperties ==
  ASSUME NEW b \in Seq(Nat), NEW k \in 0..Len(b)
  PROVE  /\ Kept(b, k) \in Seq(Nat)
         /\ Len(Kept(b, k)) = Len(b) - k
         /\ \A i \in 1..(Len(b) - k) : Kept(b, k)[i] = b[k + i]
<1>1. Len(b) \in Nat /\ \A i \in 1..Len(b) : b[i] \in Nat
  BY LenProperties, ElementOfSeq
<1>2. k + 1 \in Int /\ Len(b) \in Int /\ \A i \in (k + 1)..Len(b) : b[i] \in Nat
  BY <1>1, SMT
<1>3. /\ Kept(b, k) \in Seq(Nat)
      /\ Len(Kept(b, k)) = IF k + 1 <= Len(b) THEN Len(b) - (k + 1) + 1 ELSE 0
      /\ \A i \in 1..(Len(b) - (k + 1) + 1) : Kept(b, k)[i] = b[k + 1 + i - 1]
  BY <1>2, SubSeqProperties DEF Kept
<1>4. Len(b) - (k + 1) + 1 = Len(b) - k /\ \A i \in Int : k + 1 + i - 1 = k + i
  BY <1>1, SMT
<1>5. (IF k + 1 <= Len(b) THEN Len(b) - (k + 1) + 1 ELSE 0) = Len(b) - k
  BY <1>1, SMT
<1>6. \A i \in 1..(Len(b) - k) : i \in Int
  BY <1>1, SMT
<1> QED
  BY <1>3, <1>4, <1>5, <1>6

\* Bucket b is what log l still needs at time t.
Consistent(b, l, t) ==
  /\ Len(b) <= Len(l)
  /\ \A i \in 1..Len(b) : b[i] = l[Len(l) - Len(b) + i]
  /\ \A i \in 1..(Len(l) - Len(b)) : l[i] + Width < t
  /\ \A i \in 1..Len(l) : l[i] <= t

\* A log that respects the limit.
Limited(l) ==
  \A i, j \in DOMAIN l : j = i + Max => l[i] + Width < l[j]

LEMMA EmptyIsConsistent ==
  ASSUME NEW t \in Nat
  PROVE  <<>> \in Seq(Nat) /\ Consistent(<<>>, <<>>, t) /\ Limited(<<>>)
  BY EmptySeq, SMT DEF Consistent, Limited

LEMMA TimePasses ==
  ASSUME NEW b \in Seq(Nat), NEW l \in Seq(Nat), NEW t \in Nat,
         Consistent(b, l, t)
  PROVE  Consistent(b, l, t + 1)
<1>1. Len(b) \in Nat /\ Len(l) \in Nat /\ \A i \in 1..Len(l) : l[i] \in Nat
  BY LenProperties, ElementOfSeq
<1> QED
  BY <1>1, WidthIsNat, SMT DEF Consistent

LEMMA DroppingKeepsConsistent ==
  ASSUME NEW b \in Seq(Nat), NEW l \in Seq(Nat), NEW k \in 0..Len(b),
         now \in Nat, Consistent(b, l, now), Outdated(b, k)
  PROVE  Consistent(Kept(b, k), l, now)
<1> DEFINE c == Kept(b, k)
<1>1. Len(b) \in Nat /\ Len(l) \in Nat /\ \A i \in 1..Len(l) : l[i] \in Nat
  BY LenProperties, ElementOfSeq
<1>2. /\ Len(c) = Len(b) - k
      /\ \A i \in 1..(Len(b) - k) : c[i] = b[k + i]
  BY KeptProperties
<1>3. /\ Len(b) <= Len(l)
      /\ \A i \in 1..Len(b) : b[i] = l[Len(l) - Len(b) + i]
      /\ \A i \in 1..(Len(l) - Len(b)) : l[i] + Width < now
      /\ \A i \in 1..Len(l) : l[i] <= now
  BY DEF Consistent
<1>4. \A i \in 1..k : b[i] + Width < now
  BY DEF Outdated
<1> HIDE DEF c
<1>5. Len(c) <= Len(l)
  BY <1>1, <1>2, <1>3, SMT
<1>6. ASSUME NEW i \in 1..Len(c) PROVE c[i] = l[Len(l) - Len(c) + i]
  <2>1. i \in 1..(Len(b) - k) /\ k + i \in 1..Len(b)
    BY <1>1, <1>2, SMT
  <2>2. c[i] = b[k + i] /\ b[k + i] = l[Len(l) - Len(b) + (k + i)]
    BY <2>1, <1>2, <1>3
  <2>3. Len(l) - Len(b) + (k + i) = Len(l) - Len(c) + i
    BY <1>1, <1>2, SMT
  <2> QED BY <2>2, <2>3
<1>7. ASSUME NEW i \in 1..(Len(l) - Len(c)) PROVE l[i] + Width < now
  <2>1. CASE i <= Len(l) - Len(b)
    BY <2>1, <1>1, <1>2, <1>3, SMT
  <2>2. CASE Len(l) - Len(b) < i
    <3> DEFINE j == i - (Len(l) - Len(b))
    <3>1. j \in 1..k /\ j \in 1..Len(b) /\ Len(l) - Len(b) + j = i
      BY <2>2, <1>1, <1>2, <1>3, SMT
    <3>2. b[j] = l[i] /\ b[j] + Width < now
      BY <3>1, <1>3, <1>4
    <3> QED BY <3>2
  <2> QED BY <2>1, <2>2, <1>1, <1>2, SMT
<1> QED
  BY <1>3, <1>5, <1>6, <1>7 DEF Consistent, c

LEMMA AppendingKeepsConsistent ==
  ASSUME NEW b \in Seq(Nat), NEW l \in Seq(Nat), NEW t \in Nat,
         Consistent(b, l, t)
  PROVE  Consistent(Append(b, t), Append(l, t), t)
<1> DEFINE c == Append(b, t)
           m == Append(l, t)
<1>1. Len(b) \in Nat /\ Len(l) \in Nat /\ \A i \in 1..Len(l) : l[i] \in Nat
  BY LenProperties, ElementOfSeq
<1>2. /\ Len(c) = Len(b) + 1 /\ c[Len(b) + 1] = t
      /\ \A i \in 1..Len(b) : c[i] = b[i]
  BY AppendProperties
<1>3. /\ Len(m) = Len(l) + 1 /\ m[Len(l) + 1] = t
      /\ \A i \in 1..Len(l) : m[i] = l[i]
  BY AppendProperties
<1>4. /\ Len(b) <= Len(l)
      /\ \A i \in 1..Len(b) : b[i] = l[Len(l) - Len(b) + i]
      /\ \A i \in 1..(Len(l) - Len(b)) : l[i] + Width < t
      /\ \A i \in 1..Len(l) : l[i] <= t
  BY DEF Consistent
<1> HIDE DEF c, m
<1>5. Len(c) <= Len(m) /\ Len(m) - Len(c) = Len(l) - Len(b)
  BY <1>1, <1>2, <1>3, <1>4, SMT
<1>6. ASSUME NEW i \in 1..Len(c) PROVE c[i] = m[Len(m) - Len(c) + i]
  <2>1. CASE i = Len(b) + 1
    BY <2>1, <1>1, <1>2, <1>3, SMT
  <2>2. CASE i \in 1..Len(b)
    <3>1. Len(l) - Len(b) + i \in 1..Len(l)
      BY <2>2, <1>1, <1>4, SMT
    <3>2. c[i] = l[Len(l) - Len(b) + i]
      BY <2>2, <1>2, <1>4
    <3> QED BY <3>1, <3>2, <1>3, <1>5
  <2> QED BY <2>1, <2>2, <1>1, <1>2, SMT
<1>7. \A i \in 1..(Len(m) - Len(c)) : m[i] + Width < t
  <2>1. \A i \in 1..(Len(l) - Len(b)) : i \in 1..Len(l)
    BY <1>1, SMT
  <2> QED BY <2>1, <1>3, <1>4, <1>5
<1>8. \A i \in 1..Len(m) : m[i] <= t
  <2>1. \A i \in 1..Len(m) : i \in 1..Len(l) \/ i = Len(l) + 1
    BY <1>1, <1>3, SMT
  <2>2. t <= t
    BY SMT
  <2> QED BY <2>1, <2>2, <1>3, <1>4
<1> QED
  BY <1>5, <1>6, <1>7, <1>8 DEF Consistent, c, m

\* The admission that was Max before the next one has left the window.
LEMMA RoomInWindow ==
  ASSUME NEW b \in Seq(Nat), NEW l \in Seq(Nat), NEW t \in Nat,
         Consistent(b, l, t), Len(b) < Max, Max <= Len(l)
  PROVE  l[Len(l) - Max + 1] + Width < t
<1>1. Len(b) \in Nat /\ Len(l) \in Nat /\ Max \in Nat
  BY LenProperties, LimitAssumption
<1>2. Len(l) - Max + 1 \in 1..(Len(l) - Len(b))
  BY <1>1, SMT
<1> QED
  BY <1>2 DEF Consistent

LEMMA AppendingKeepsLimited ==
  ASSUME NEW b \in Seq(Nat), NEW l \in Seq(Nat), NEW t \in Nat,
         Consistent(b, l, t), Len(b) < Max, Limited(l)
  PROVE  Limited(Append(l, t))
<1> DEFINE m == Append(l, t)
<1>1. Len(l) \in Nat /\ DOMAIN l = 1..Len(l) /\ Max \in Nat \ {0}
  BY LenProperties, LimitAssumption
<1>2. /\ m \in Seq(Nat)
      /\ Len(m) = Len(l) + 1 /\ m[Len(l) + 1] = t
      /\ \A i \in 1..Len(l) : m[i] = l[i]
  BY AppendProperties
<1>3. DOMAIN m = 1..Len(m)
  BY <1>2, LenProperties
<1> HIDE DEF m
<1>4. ASSUME NEW i \in DOMAIN m, NEW j \in DOMAIN m, j = i + Max
      PROVE  m[i] + Width < m[j]
  <2>1. i \in 1..Len(l)
    BY <1>1, <1>2, <1>3, <1>4, SMT
  <2>2. CASE j \in 1..Len(l)
    BY <2>1, <2>2, <1>1, <1>2, <1>4 DEF Limited
  <2>3. CASE j = Len(l) + 1
    <3>1. Max <= Len(l) /\ i = Len(l) - Max + 1
      BY <2>1, <2>3, <1>1, <1>4, SMT
    <3>2. l[i] + Width < t
      BY <3>1, RoomInWindow
    <3> QED BY <3>2, <2>1, <2>3, <1>2
  <2> QED BY <2>2, <2>3, <1>1, <1>2, <1>3, SMT
<1> QED
  BY <1>4 DEF Limited, m

------------------------------------------------------------------------------
(* The inductive invariant.                                                *)

\* The announced moment r follows from the oldest timestamp of bucket b.
Announced(b, r) ==
  /\ Len(b) = Max
  /\ b[1] + Width < r.until
  /\ r.until <= b[1] + Width + Second

Sound(b, l, r, t) ==
  /\ Consistent(b, l, t)
  /\ Limited(l)
  /\ r # Never => Announced(b, r)

IInv ==
  /\ TypeOK
  /\ \A a \in Address : Sound(buckets[a], log[a], refused[a], now)

\* An attempt of a may change what is kept for a, and nothing else.
OnlyFor(a) ==
  /\ now' = now
  /\ buckets' \in [Address -> Seq(Nat)]
  /\ log' \in [Address -> Seq(Nat)]
  /\ refused' \in [Address -> Refusal \cup {Never}]
  /\ \A c \in Address \ {a} :
       buckets'[c] = buckets[c] /\ log'[c] = log[c] /\ refused'[c] = refused[c]

LEMMA TypeOfAddress ==
  ASSUME TypeOK, NEW a \in Address
  PROVE  /\ now \in Nat /\ buckets[a] \in Seq(Nat) /\ log[a] \in Seq(Nat)
         /\ Len(buckets[a]) \in Nat /\ Len(log[a]) \in Nat
         /\ Len(buckets[a]) <= Max
         /\ \A i \in 1..Len(buckets[a]) : buckets[a][i] \in Nat
         /\ \A i \in 1..Len(log[a]) : log[a][i] \in Nat
  BY LenProperties, ElementOfSeq DEF TypeOK

\* What an admission does, without EXCEPT.
LEMMA AdmitEffect ==
  ASSUME TypeOK, NEW a \in Address, Admit(a)
  PROVE  /\ OnlyFor(a)
         /\ log'[a] = Append(log[a], now)
         /\ refused'[a] = Never
         /\ \E k \in 0..Len(buckets[a]) :
              /\ Outdated(buckets[a], k)
              /\ Len(buckets[a]) - k < Max
              /\ buckets'[a] = Append(Kept(buckets[a], k), now)
<1> DEFINE b == buckets[a]
<1>1. now \in Nat /\ b \in Seq(Nat) /\ log[a] \in Seq(Nat)
  BY TypeOfAddress
<1>2. PICK k \in 0..Len(b) :
        /\ Outdated(b, k)
        /\ Len(b) - k < Max
        /\ buckets' = [buckets EXCEPT ![a] = Append(Kept(b, k), now)]
  BY DEF Admit
<1>3. /\ log' = [log EXCEPT ![a] = Append(@, now)]
      /\ refused' = [refused EXCEPT ![a] = Never]
      /\ now' = now
  BY DEF Admit
<1> DEFINE n == Append(Kept(b, k), now)
           m == Append(log[a], now)
<1>4. n \in Seq(Nat) /\ m \in Seq(Nat)
  BY <1>1, KeptProperties, AppendProperties
<1>5. buckets' = [buckets EXCEPT ![a] = n] /\ log' = [log EXCEPT ![a] = m]
  BY <1>2, <1>3
<1> HIDE DEF n, m
<1>6. /\ buckets \in [Address -> Seq(Nat)] /\ log \in [Address -> Seq(Nat)]
      /\ refused \in [Address -> Refusal \cup {Never}]
  BY DEF TypeOK
<1>7. OnlyFor(a)
  BY <1>3, <1>4, <1>5, <1>6 DEF OnlyFor
<1>8. buckets'[a] = n /\ log'[a] = m /\ refused'[a] = Never
  BY <1>3, <1>5, <1>6
<1> QED
  BY <1>2, <1>7, <1>8 DEF n, m

\* The announced moment, for an oldest timestamp of age w - x.
LEMMA RetryAfterBounds ==
  ASSUME NEW f \in Nat, now \in Nat, f <= now, now <= f + Width,
         NEW r, r = now + Second * RetryAfter(now - f)
  PROVE  r \in Nat /\ f + Width < r /\ r <= f + Width + Second
<1> DEFINE x == Width - (now - f)
           q == x \div Second
<1>1. x \in Nat /\ Second \in Nat \ {0} /\ Width \in Nat
  BY WidthIsNat, LimitAssumption, SMT
<1>2. q \in Nat /\ Second * q <= x /\ x < Second * (q + 1)
  BY <1>1, Division
<1>3. r = now + Second * (q + 1)
  BY DEF RetryAfter
<1>4. Second * (q + 1) = Second * q + Second
  BY <1>1, <1>2, SMT
<1>5. now + x = f + Width
  BY <1>1, SMT
<1>6. Second * q \in Nat
  BY <1>1, <1>2, SMT
<1> HIDE DEF q
<1> DEFINE y == Second * q
<1>7. y \in Nat /\ y <= x /\ x < y + Second /\ r = now + (y + Second)
  BY <1>2, <1>3, <1>4, <1>6
<1> HIDE DEF y, x
<1> QED
  BY <1>1, <1>5, <1>7, SMT

\* A bucket that refuses is full, and nothing in it is outdated.
LEMMA NothingToDrop ==
  ASSUME TypeOK, NEW a \in Address, NEW k \in 0..Len(buckets[a]),
         Outdated(buckets[a], k), Max <= Len(buckets[a]) - k
  PROVE  /\ k = 0
         /\ Len(buckets[a]) = Max
         /\ now <= buckets[a][1] + Width
         /\ Kept(buckets[a], k) = buckets[a]
<1> DEFINE b == buckets[a]
<1>1. b \in Seq(Nat) /\ Len(b) \in Nat /\ Len(b) <= Max /\ Max \in Nat \ {0}
  BY TypeOfAddress, LimitAssumption
<1>2. k = 0 /\ Len(b) = Max
  BY <1>1, SMT
<1>3. 0 < Len(b)
  BY <1>1, <1>2, SMT
<1>4. now <= b[0 + 1] + Width
  BY <1>2, <1>3 DEF Outdated
<1>5. now <= b[1] + Width
  BY <1>4
<1>6. /\ Kept(b, 0) \in Seq(Nat)
      /\ Len(Kept(b, 0)) = Len(b) - 0
      /\ \A i \in 1..(Len(b) - 0) : Kept(b, 0)[i] = b[0 + i]
  <2>1. 0 \in 0..Len(b)
    BY <1>1, SMT
  <2> QED BY <1>1, <2>1, KeptProperties
<1>7. Len(Kept(b, 0)) = Len(b) /\ \A i \in 1..Len(b) : Kept(b, 0)[i] = b[i]
  BY <1>1, <1>6, SMT
<1>8. Kept(b, 0) = b
  BY <1>1, <1>6, <1>7, SeqEqual
<1> QED
  BY <1>2, <1>5, <1>8

\* What a refusal does, without EXCEPT.
LEMMA RefuseEffect ==
  ASSUME TypeOK, NEW a \in Address, Refuse(a),
         \A i \in 1..Len(buckets[a]) : buckets[a][i] <= now
  PROVE  /\ OnlyFor(a)
         /\ buckets' = buckets
         /\ log' = log
         /\ refused'[a] # Never
         /\ Announced(buckets[a], refused'[a])
         /\ Len(buckets[a]) = Max
         /\ now <= buckets[a][1] + Width
<1> DEFINE b == buckets[a]
           r(k) == now + Second * RetryAfter(now - b[k + 1])
<1>1. PICK k \in 0..Len(b) :
        /\ Outdated(b, k)
        /\ Max <= Len(b) - k
        /\ buckets' = [buckets EXCEPT ![a] = Kept(b, k)]
        /\ refused' = [refused EXCEPT ![a] = [at |-> now, until |-> r(k)]]
  BY DEF Refuse
<1>2. now' = now /\ log' = log
  BY DEF Refuse
<1>3. k = 0 /\ Len(b) = Max /\ now <= b[1] + Width /\ Kept(b, k) = b
  BY <1>1, NothingToDrop
<1>4. /\ buckets \in [Address -> Seq(Nat)] /\ log \in [Address -> Seq(Nat)]
      /\ refused \in [Address -> Refusal \cup {Never}]
      /\ now \in Nat
  BY DEF TypeOK
<1>5. buckets' = buckets
  BY <1>1, <1>3, <1>4
<1>6. b[1] \in Nat /\ b[1] <= now
  <2>1. 1 \in 1..Len(b)
    BY <1>3, LimitAssumption, SMT
  <2> QED BY <2>1, TypeOfAddress
<1>7. r(k) = now + Second * RetryAfter(now - b[1])
  BY <1>3
<1>8. r(k) \in Nat /\ b[1] + Width < r(k) /\ r(k) <= b[1] + Width + Second
  BY <1>3, <1>4, <1>6, <1>7, RetryAfterBounds
<1> HIDE DEF r
<1> DEFINE e == [at |-> now, until |-> r(k)]
<1>9. e \in Refusal /\ e # Never /\ e.until = r(k)
  BY <1>4, <1>8, LimitAssumption DEF Refusal
<1>10. refused' = [refused EXCEPT ![a] = e]
  BY <1>1
<1> HIDE DEF e
<1>11. refused'[a] = e /\ refused' \in [Address -> Refusal \cup {Never}]
       /\ \A c \in Address \ {a} : refused'[c] = refused[c]
  BY <1>4, <1>9, <1>10
<1>12. Announced(b, e)
  BY <1>3, <1>8, <1>9 DEF Announced
<1> QED
  BY <1>2, <1>3, <1>4, <1>5, <1>9, <1>11, <1>12 DEF OnlyFor

LEMMA InitInvariant == Init => IInv
<1> SUFFICES ASSUME Init PROVE IInv
  OBVIOUS
<1>1. TypeOK
  BY EmptySeq, LimitAssumption, SMT DEF Init, TypeOK
<1>2. ASSUME NEW a \in Address
      PROVE  Sound(buckets[a], log[a], refused[a], now)
  <2>1. buckets[a] = <<>> /\ log[a] = <<>> /\ refused[a] = Never /\ now \in Nat
    BY DEF Init
  <2> QED BY <2>1, EmptyIsConsistent DEF Sound
<1> QED
  BY <1>1, <1>2 DEF IInv

LEMMA AdmitInvariant ==
  ASSUME IInv, NEW a \in Address, Admit(a)
  PROVE  IInv'
<1> DEFINE b == buckets[a]
           l == log[a]
<1>1. TypeOK /\ \A c \in Address : Sound(buckets[c], log[c], refused[c], now)
  BY DEF IInv
<1>2. now \in Nat /\ b \in Seq(Nat) /\ l \in Seq(Nat) /\ Len(b) \in Nat
  BY <1>1, TypeOfAddress
<1>3. Consistent(b, l, now) /\ Limited(l)
  BY <1>1 DEF Sound
<1>4. OnlyFor(a) /\ log'[a] = Append(l, now) /\ refused'[a] = Never
  BY <1>1, AdmitEffect
<1>5. PICK k \in 0..Len(b) :
        /\ Outdated(b, k)
        /\ Len(b) - k < Max
        /\ buckets'[a] = Append(Kept(b, k), now)
  BY <1>1, AdmitEffect
<1> DEFINE c == Kept(b, k)
<1>6. c \in Seq(Nat) /\ Len(c) = Len(b) - k
  BY <1>2, KeptProperties
<1>7. Consistent(c, l, now)
  BY <1>2, <1>3, <1>5, DroppingKeepsConsistent
<1>8. Len(c) < Max
  BY <1>5, <1>6
<1>9. Consistent(Append(c, now), Append(l, now), now)
  BY <1>2, <1>6, <1>7, AppendingKeepsConsistent
<1>10. Limited(Append(l, now))
  BY <1>2, <1>3, <1>6, <1>7, <1>8, AppendingKeepsLimited
<1>11. Len(Append(c, now)) <= Max
  <2>1. Len(Append(c, now)) = Len(c) + 1
    BY <1>2, <1>6, AppendProperties
  <2>2. Len(c) + 1 <= Max
    BY <1>2, <1>6, <1>8, LimitAssumption, SMT
  <2> QED BY <2>1, <2>2
<1> HIDE DEF c
<1>12. TypeOK'
  <2>1. \A d \in Address : Len(buckets'[d]) <= Max
    BY <1>1, <1>4, <1>5, <1>11 DEF OnlyFor, TypeOK, c
  <2> QED BY <1>2, <1>4, <2>1 DEF OnlyFor, TypeOK
<1>13. ASSUME NEW d \in Address
       PROVE  Sound(buckets'[d], log'[d], refused'[d], now')
  <2>1. now' = now
    BY <1>4 DEF OnlyFor
  <2>2. CASE d = a
    BY <2>1, <2>2, <1>4, <1>5, <1>9, <1>10 DEF Sound, c
  <2>3. CASE d # a
    <3>1. buckets'[d] = buckets[d] /\ log'[d] = log[d] /\ refused'[d] = refused[d]
      BY <2>3, <1>4 DEF OnlyFor
    <3> QED BY <2>1, <3>1, <1>1
  <2> QED BY <2>2, <2>3
<1> QED
  BY <1>12, <1>13 DEF IInv

LEMMA RefuseInvariant ==
  ASSUME IInv, NEW a \in Address, Refuse(a)
  PROVE  IInv'
<1>1. TypeOK /\ \A c \in Address : Sound(buckets[c], log[c], refused[c], now)
  BY DEF IInv
<1>2. \A i \in 1..Len(buckets[a]) : buckets[a][i] <= now
  <2> SUFFICES ASSUME NEW i \in 1..Len(buckets[a]) PROVE buckets[a][i] <= now
    OBVIOUS
  <2>1. Consistent(buckets[a], log[a], now)
    BY <1>1 DEF Sound
  <2>2. /\ Len(log[a]) \in Nat /\ Len(buckets[a]) \in Nat
        /\ Len(buckets[a]) <= Len(log[a])
    BY <1>1, <2>1, TypeOfAddress DEF Consistent
  <2>3. Len(log[a]) - Len(buckets[a]) + i \in 1..Len(log[a])
    BY <2>2, SuffixIndex
  <2> QED BY <2>1, <2>3 DEF Consistent
<1>3. /\ OnlyFor(a) /\ buckets' = buckets /\ log' = log
      /\ Announced(buckets[a], refused'[a])
  BY <1>1, <1>2, RefuseEffect
<1>4. TypeOK'
  BY <1>1, <1>3 DEF OnlyFor, TypeOK
<1>5. ASSUME NEW d \in Address
      PROVE  Sound(buckets'[d], log'[d], refused'[d], now')
  <2>1. now' = now /\ buckets'[d] = buckets[d] /\ log'[d] = log[d]
    BY <1>3 DEF OnlyFor
  <2>2. refused'[d] # Never => Announced(buckets[d], refused'[d])
    <3>1. CASE d = a
      BY <3>1, <1>3
    <3>2. CASE d # a
      BY <3>2, <1>1, <1>3 DEF OnlyFor, Sound
    <3> QED BY <3>1, <3>2
  <2> QED BY <1>1, <2>1, <2>2 DEF Sound
<1> QED
  BY <1>4, <1>5 DEF IInv

LEMMA TickInvariant ==
  ASSUME IInv, Tick
  PROVE  IInv'
<1>1. TypeOK /\ \A c \in Address : Sound(buckets[c], log[c], refused[c], now)
  BY DEF IInv
<1>2. now' = now + 1 /\ buckets' = buckets /\ log' = log /\ refused' = refused
  BY DEF Tick
<1>3. now \in Nat /\ now' \in Nat
  BY <1>1, <1>2, SMT DEF TypeOK
<1>4. TypeOK'
  BY <1>1, <1>2, <1>3 DEF TypeOK
<1>5. ASSUME NEW d \in Address
      PROVE  Sound(buckets'[d], log'[d], refused'[d], now')
  <2>1. buckets[d] \in Seq(Nat) /\ log[d] \in Seq(Nat)
    BY <1>1, TypeOfAddress
  <2>2. Sound(buckets[d], log[d], refused[d], now)
    BY <1>1
  <2>3. Consistent(buckets[d], log[d], now + 1)
    BY <1>3, <2>1, <2>2, TimePasses DEF Sound
  <2> QED BY <1>2, <2>2, <2>3 DEF Sound
<1> QED
  BY <1>4, <1>5 DEF IInv

LEMMA RestartInvariant ==
  ASSUME IInv, Restart
  PROVE  IInv'
<1>1. TypeOK
  BY DEF IInv
<1>2. /\ now' = now
      /\ buckets' = [a \in Address |-> <<>>]
      /\ log' = [a \in Address |-> <<>>]
      /\ refused' = [a \in Address |-> Never]
  BY DEF Restart
<1>3. TypeOK'
  BY <1>1, <1>2, EmptySeq, LimitAssumption, SMT DEF TypeOK
<1>4. ASSUME NEW d \in Address
      PROVE  Sound(buckets'[d], log'[d], refused'[d], now')
  <2>1. buckets'[d] = <<>> /\ log'[d] = <<>> /\ refused'[d] = Never
        /\ now' \in Nat
    BY <1>1, <1>2 DEF TypeOK
  <2> QED BY <2>1, EmptyIsConsistent DEF Sound
<1> QED
  BY <1>3, <1>4 DEF IInv

LEMMA StepInvariant == IInv /\ [Next]_vars => IInv'
<1> SUFFICES ASSUME IInv, [Next]_vars PROVE IInv'
  OBVIOUS
<1>1. ASSUME NEW a \in Address, Admit(a) PROVE IInv'
  BY <1>1, AdmitInvariant
<1>2. ASSUME NEW a \in Address, Refuse(a) PROVE IInv'
  BY <1>2, RefuseInvariant
<1>3. CASE Tick
  BY <1>3, TickInvariant
<1>4. CASE Restart
  BY <1>4, RestartInvariant
<1>5. CASE UNCHANGED vars
  BY <1>5 DEF vars, IInv, TypeOK
<1> QED
  BY <1>1, <1>2, <1>3, <1>4, <1>5 DEF Next

THEOREM Invariance == Spec => []IInv
  BY InitInvariant, StepInvariant, PTL DEF Spec

------------------------------------------------------------------------------
(* What the invariant gives.                                               *)

\* No bucket ever holds more than Max timestamps, whatever the traffic.
THEOREM TypeCorrect == Spec => []TypeOK
<1>1. IInv => TypeOK
  BY DEF IInv
<1> QED
  BY <1>1, Invariance, PTL

\* In no window laid anywhere on the clock are more than Max logins of one
\* address admitted (dispatch in rate_limit.py), for any limit and window.
THEOREM LimitIsKept == Spec => []LimitHolds
<1>1. IInv => LimitHolds
  BY DEF IInv, Sound, Limited, LimitHolds
<1> QED
  BY <1>1, Invariance, PTL

\* The loop of dispatch always comes to an end, with one outcome.
LEMMA SomeOutdated ==
  ASSUME NEW b \in Seq(Nat), now \in Nat
  PROVE  \E k \in 0..Len(b) : Outdated(b, k)
<1> DEFINE T == {i \in 1..Len(b) : now <= b[i] + Width}
<1>1. Len(b) \in Nat /\ \A i \in 1..Len(b) : b[i] \in Nat
  BY LenProperties, ElementOfSeq
<1>2. CASE T = {}
  <2>1. \A i \in 1..Len(b) : b[i] + Width < now
    <3>1. SUFFICES ASSUME NEW i \in 1..Len(b) PROVE b[i] + Width < now
      OBVIOUS
    <3>2. ~(now <= b[i] + Width)
      BY <1>2
    <3>3. b[i] \in Nat
      BY <1>1
    <3> QED BY <3>2, <3>3, WidthIsNat, SMT
  <2>2. Len(b) \in 0..Len(b) /\ ~(Len(b) < Len(b))
    BY <1>1, SMT
  <2>3. Outdated(b, Len(b))
    BY <2>1, <2>2 DEF Outdated
  <2> QED BY <2>2, <2>3
<1>3. CASE T # {}
  <2>1. T \subseteq Nat
    BY <1>1, SMT
  <2>2. PICK m \in T : \A n \in T : m <= n
    BY <1>3, <2>1, LeastElement
  <2>3. m \in 1..Len(b) /\ now <= b[m] + Width
    BY <2>2
  <2>4. m - 1 \in 0..Len(b) /\ (m - 1) + 1 = m
    BY <1>1, <2>3, SMT
  <2>5. ASSUME NEW i \in 1..(m - 1) PROVE b[i] + Width < now
    <3>1. i \in 1..Len(b) /\ ~(m <= i)
      BY <1>1, <2>3, SMT
    <3>2. ~(now <= b[i] + Width)
      BY <2>2, <3>1
    <3> QED BY <1>1, <3>1, <3>2, WidthIsNat, SMT
  <2>6. Outdated(b, m - 1)
    BY <2>3, <2>4, <2>5 DEF Outdated
  <2> QED BY <2>4, <2>6
<1> QED
  BY <1>2, <1>3

\* Retry-After is exact to the second for every limit, window and clock
\* resolution: an address that waits that long is admitted, and one that comes
\* a second early is not.
THEOREM RetryAfterIsExact == Spec => []RetryAfterExact
<1>1. ASSUME IInv, NEW a \in Address, refused[a] # Never
      PROVE  /\ refused[a].until <= now => Open(a)
             /\ now + Second <= refused[a].until => ~Open(a)
  <2> DEFINE b == buckets[a]
             u == refused[a].until
  <2>1. TypeOK /\ Announced(b, refused[a])
    BY <1>1 DEF IInv, Sound
  <2>2. /\ now \in Nat /\ b \in Seq(Nat) /\ Len(b) \in Nat /\ Width \in Nat
        /\ Max \in Nat \ {0} /\ Second \in Nat \ {0}
        /\ \A i \in 1..Len(b) : b[i] \in Nat
    BY <2>1, TypeOfAddress, WidthIsNat, LimitAssumption
  <2>3. Len(b) = Max /\ b[1] + Width < u /\ u <= b[1] + Width + Second
    BY <2>1 DEF Announced
  <2>4. u \in Nat
    BY <1>1, <2>1 DEF TypeOK, Refusal
  <2>5. b[1] \in Nat /\ 1 \in 1..Len(b)
    <3>1. 1 \in 1..Len(b)
      BY <2>2, <2>3, SMT
    <3> QED BY <3>1, <2>2
  <2> HIDE DEF u, b
  <2>6. ASSUME u <= now PROVE \E k \in 0..Len(b) : Outdated(b, k) /\ Len(b) - k < Max
    <3>1. PICK k \in 0..Len(b) : Outdated(b, k)
      BY <2>2, SomeOutdated
    <3>2. k # 0
      <4>1. SUFFICES ASSUME k = 0 PROVE FALSE
        OBVIOUS
      <4>2. 0 < Len(b)
        BY <2>2, <2>3, SMT
      <4>3. now <= b[0 + 1] + Width
        BY <3>1, <4>1, <4>2 DEF Outdated
      <4>4. now <= b[1] + Width
        BY <4>3
      <4> QED BY <4>4, <2>2, <2>3, <2>4, <2>5, <2>6, SMT
    <3>3. Len(b) - k < Max
      BY <3>2, <2>2, <2>3, SMT
    <3> QED BY <3>1, <3>3
  <2>7. ASSUME now + Second <= u, NEW k \in 0..Len(b), Outdated(b, k),
               Len(b) - k < Max
        PROVE  FALSE
    <3>1. 1 \in 1..k
      BY <2>2, <2>3, <2>7, SMT
    <3>2. b[1] + Width < now
      BY <3>1, <2>7 DEF Outdated
    <3> QED BY <3>2, <2>2, <2>3, <2>4, <2>5, <2>7, SMT
  <2> QED
    BY <2>6, <2>7 DEF Open, b, u
<1>2. IInv => RetryAfterExact
  BY <1>1 DEF RetryAfterExact
<1> QED
  BY <1>2, Invariance, PTL

------------------------------------------------------------------------------
(* The refinement.                                                         *)

\* The answer that the refinement mapping reads off the state.
Answer(r, l) ==
  IF r # Never THEN "refused" ELSE IF l = <<>> THEN "none" ELSE "admitted"

Answers == [a \in Address |-> Answer(refused[a], log[a])]

\* An admission is one that the window has room for.
LEMMA AdmitRefines ==
  ASSUME IInv, NEW a \in Address, Admit(a)
  PROVE  W!AdmitAttempt(a)
<1> DEFINE b == buckets[a]
           l == log[a]
<1>1. TypeOK /\ Sound(b, l, refused[a], now)
  BY DEF IInv
<1>2. /\ now \in Nat /\ b \in Seq(Nat) /\ l \in Seq(Nat)
      /\ Len(b) \in Nat /\ Len(l) \in Nat /\ Max \in Nat
  BY <1>1, TypeOfAddress, LimitAssumption
<1>3. PICK k \in 0..Len(b) : Outdated(b, k) /\ Len(b) - k < Max
  BY <1>1, AdmitEffect
<1>4. Consistent(Kept(b, k), l, now)
  BY <1>1, <1>2, <1>3, DroppingKeepsConsistent DEF Sound
<1>5. Kept(b, k) \in Seq(Nat) /\ Len(Kept(b, k)) < Max
  BY <1>2, <1>3, KeptProperties
<1>6. Max <= Len(l) => l[Len(l) - Max + 1] + Width < now
  BY <1>2, <1>4, <1>5, RoomInWindow
<1>7. W!Room(a)
  BY <1>2, <1>6, SMT DEF W!Room
<1>8. /\ log' = [log EXCEPT ![a] = Append(@, now)]
      /\ refused' = [refused EXCEPT ![a] = Never]
      /\ now' = now
  BY DEF Admit
<1>9. Answers' = [Answers EXCEPT ![a] = "admitted"]
  <2> SUFFICES ASSUME NEW c \in Address
               PROVE  Answer(refused'[c], log'[c])
                        = IF c = a THEN "admitted" ELSE Answer(refused[c], log[c])
    BY DEF Answers
  <2>1. CASE c = a
    <3>1. refused'[a] = Never /\ log'[a] = Append(l, now)
      BY <1>1, AdmitEffect
    <3>2. Append(l, now) # <<>>
      BY <1>2, AppendProperties
    <3> QED BY <2>1, <3>1, <3>2 DEF Answer
  <2>2. CASE c # a
    <3>1. OnlyFor(a)
      BY <1>1, AdmitEffect
    <3> QED BY <2>2, <3>1 DEF OnlyFor
  <2> QED BY <2>1, <2>2
<1> QED
  BY <1>7, <1>8, <1>9 DEF W!AdmitAttempt, Answers, Answer

\* A refusal is one that the window has no room for.
LEMMA RefuseRefines ==
  ASSUME IInv, NEW a \in Address, Refuse(a)
  PROVE  W!RefuseAttempt(a)
<1> DEFINE b == buckets[a]
           l == log[a]
<1>1. TypeOK /\ Sound(b, l, refused[a], now)
  BY DEF IInv
<1>2. /\ now \in Nat /\ b \in Seq(Nat) /\ l \in Seq(Nat)
      /\ Len(b) \in Nat /\ Len(l) \in Nat /\ Max \in Nat \ {0}
      /\ \A i \in 1..Len(b) : b[i] \in Nat
  BY <1>1, TypeOfAddress, LimitAssumption
<1>3. /\ Len(b) <= Len(l)
      /\ \A i \in 1..Len(b) : b[i] = l[Len(l) - Len(b) + i]
      /\ \A i \in 1..Len(l) : l[i] <= now
  BY <1>1 DEF Sound, Consistent
<1>4. \A i \in 1..Len(b) : b[i] <= now
  <2>1. \A i \in 1..Len(b) : Len(l) - Len(b) + i \in 1..Len(l)
    BY <1>2, <1>3, SuffixIndex
  <2> QED BY <2>1, <1>3
<1>5. /\ OnlyFor(a) /\ log' = log /\ refused'[a] # Never
      /\ Len(b) = Max /\ now <= b[1] + Width
  BY <1>1, <1>4, RefuseEffect
<1>6. ~W!Room(a)
  <2>1. 1 \in 1..Len(b) /\ ~(Len(l) < Max)
    BY <1>2, <1>3, <1>5, SMT
  <2>2. b[1] = l[Len(l) - Max + 1] /\ b[1] \in Nat
    BY <1>2, <1>3, <1>5, <2>1
  <2>3. ~(b[1] + Width < now)
    BY <1>2, <1>5, <2>2, WidthIsNat, SMT
  <2> QED BY <2>1, <2>2, <2>3 DEF W!Room
<1>7. Answers' = [Answers EXCEPT ![a] = "refused"]
  <2> SUFFICES ASSUME NEW c \in Address
               PROVE  Answer(refused'[c], log'[c])
                        = IF c = a THEN "refused" ELSE Answer(refused[c], log[c])
    BY DEF Answers
  <2> QED BY <1>5 DEF OnlyFor, Answer
<1> QED
  BY <1>5, <1>6, <1>7 DEF W!RefuseAttempt, Answers, Answer, OnlyFor

LEMMA StepRefines == IInv /\ [Next]_vars => [W!WindowNext]_W!windowVars
<1> SUFFICES ASSUME IInv, [Next]_vars PROVE [W!WindowNext]_W!windowVars
  OBVIOUS
<1>1. ASSUME NEW a \in Address, Admit(a) PROVE W!WindowNext
  BY <1>1, AdmitRefines DEF W!WindowNext
<1>2. ASSUME NEW a \in Address, Refuse(a) PROVE W!WindowNext
  BY <1>2, RefuseRefines DEF W!WindowNext
<1>3. CASE Tick
  BY <1>3 DEF Tick, W!WindowNext, W!Pass
<1>4. CASE Restart
  BY <1>4 DEF Restart, W!WindowNext, W!Forget
<1>5. CASE UNCHANGED vars
  BY <1>5 DEF vars, W!windowVars
<1> QED
  BY <1>1, <1>2, <1>3, <1>4, <1>5 DEF Next

\* The deques implement the sliding window for every limit, window and set of
\* addresses: an attempt is admitted exactly when fewer than Max were admitted
\* from its address in the last Width ticks.
THEOREM WindowIsImplemented == Spec => ImplementsWindow
<1>1. Init => W!WindowInit
  BY DEF Init, W!WindowInit
<1> QED
  BY <1>1, Invariance, StepRefines, PTL DEF Spec, ImplementsWindow, W!WindowSpec
==============================================================================
