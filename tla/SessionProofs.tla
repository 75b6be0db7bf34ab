---------------------------- MODULE SessionProofs ----------------------------
(***************************************************************************)
(* Theorems about Session: no handler reaches an EXIT alarm, the tables of *)
(* sessions and of groups fit together, no client's stream loses or        *)
(* repeats a piece and each killed session has one KILL message, for every *)
(* number of sessions, connections, groups and requests.                   *)
(***************************************************************************)
EXTENDS Session, FiniteSetTheorems, SequenceTheorems, WellFoundedInduction, TLAPS

--------------------------------------------------------------------------------
(* Numbers and sequences *)

\* A set of numbers that is not empty has a least one.
LEMMA LeastNumber ==
  ASSUME NEW T \in SUBSET Nat, T # {}
  PROVE  \E n \in T : \A m \in T : n <= m
<1> DEFINE less == {ss \in Nat \X Nat : ss[1] < ss[2]}
<1>1. IsWellFoundedOn(less, Nat)
  BY NatLessThanWellFounded DEF OpToRel
<1>2. PICK n \in T : \A m \in T : ~(<<m, n>> \in less)
  BY <1>1, WFMin
<1>3. \A m \in T : m \in Nat /\ n \in Nat /\ (~(m < n) => n <= m)
  OBVIOUS
<1> QED
  BY <1>2, <1>3

--------------------------------------------------------------------------------
(* The pieces of a queue *)

LEMMA UnitsIs == Units \in Nat \ {0}
  BY SessionAssumption

\* The pieces of n messages, kept out of the solvers' arithmetic.
PiecesIn(n) == Units * n

LEMMA PiecesInIs ==
  /\ PiecesIn(0) = 0 /\ PiecesIn(1) = Units
  /\ \A n \in Nat : PiecesIn(n) \in Nat
  /\ \A m, n \in Nat : PiecesIn(m + n) = PiecesIn(m) + PiecesIn(n)
  /\ \A m, n \in Nat : m < n => PiecesIn(m) + Units <= PiecesIn(n)
<1>1. Units \in Nat \ {0}
  BY UnitsIs
<1>2. \A m, n \in Nat : PiecesIn(m + n) = PiecesIn(m) + PiecesIn(n)
  BY <1>1 DEF PiecesIn
<1>3. \A n \in Nat : PiecesIn(n) \in Nat
  BY <1>1 DEF PiecesIn
<1>4. PiecesIn(0) = 0 /\ PiecesIn(1) = Units
  BY <1>1 DEF PiecesIn
<1>5. ASSUME NEW m \in Nat, NEW n \in Nat, m < n
      PROVE  PiecesIn(m) + Units <= PiecesIn(n)
  <2>1. PICK k \in Nat : n = m + (1 + k)
    <3>1. n - m - 1 \in Nat /\ n = m + (1 + (n - m - 1))
      BY <1>5
    <3> QED
      BY <3>1
  <2>2. /\ PiecesIn(m + (1 + k)) = PiecesIn(m) + PiecesIn(1 + k)
        /\ PiecesIn(1 + k) = PiecesIn(1) + PiecesIn(k)
        /\ PiecesIn(k) \in Nat /\ PiecesIn(m) \in Nat
    BY <1>2, <1>3
  <2>3. PiecesIn(n) = PiecesIn(m) + (Units + PiecesIn(k))
    BY <1>4, <2>1, <2>2
  <2> QED
    BY <1>1, <2>2, <2>3
<1> QED
  BY <1>2, <1>3, <1>4, <1>5

\* Where the piece with number a is: in which message, as which of its pieces.
LEMMA PlaceOf ==
  ASSUME NEW a \in Nat
  PROVE  \E q \in Nat, r \in 0..Units - 1 : q = a \div Units /\ r = a % Units /\ a = PiecesIn(q) + r
<1> DEFINE q == a \div Units
           r == a % Units
<1>1. Units \in Nat \ {0}
  BY UnitsIs
<1>2. a \div Units \in Int /\ a \div Units >= 0 /\ a % Units \in 0..Units - 1
  BY <1>1
<1>3. Units \in Nat /\ Units > 0 /\ q = a \div Units /\ r = a % Units
  BY <1>1
<1>4. q \in Int /\ q >= 0 /\ r \in 0..Units - 1
  BY <1>2
<1> HIDE DEF q, r
<1>5. a = Units * q + r
  BY <1>3
<1>6. q \in Nat
  BY <1>4
<1>7. a = PiecesIn(q) + r
  BY ONLY <1>5 DEF PiecesIn
<1> QED
  BY ONLY <1>3, <1>4, <1>6, <1>7

LEMMA PlaceIs ==
  ASSUME NEW n \in Nat, NEW r \in 0..Units - 1, NEW a, a = PiecesIn(n) + r
  PROVE  a \div Units = n /\ a % Units = r
<1>1. Units \in Nat \ {0} /\ PiecesIn(n) \in Nat
  BY UnitsIs, PiecesInIs
<1>2. a \in Nat
  BY <1>1
<1>3. PICK q \in Nat, m \in 0..Units - 1 : q = a \div Units /\ m = a % Units /\ a = PiecesIn(q) + m
  BY <1>2, PlaceOf
<1>4. /\ PiecesIn(q) \in Nat /\ (q < n => PiecesIn(q) + Units <= PiecesIn(n))
      /\ (n < q => PiecesIn(n) + Units <= PiecesIn(q))
  BY PiecesInIs
<1>5. ~(q < n) /\ ~(n < q)
  BY <1>1, <1>3, <1>4
<1>6. q = n
  BY <1>5
<1>7. m = r
  BY <1>1, <1>3, <1>6
<1> QED
  BY <1>3, <1>6, <1>7

\* The piece with number a, whole messages further.
LEMMA PlacePlus ==
  ASSUME NEW n \in Nat, NEW a \in Nat, NEW b, b = PiecesIn(n) + a
  PROVE  b \div Units = n + a \div Units /\ b % Units = a % Units
<1>1. PICK q \in Nat, r \in 0..Units - 1 : q = a \div Units /\ r = a % Units /\ a = PiecesIn(q) + r
  BY PlaceOf
<1>2. PiecesIn(n + q) = PiecesIn(n) + PiecesIn(q) /\ PiecesIn(n) \in Nat /\ PiecesIn(q) \in Nat /\ Units \in Nat
  BY PiecesInIs, UnitsIs
<1>3. PICK x \in Nat : x = n + q
  OBVIOUS
<1>4. b = PiecesIn(x) + r
  <2>1. PiecesIn(x) = PiecesIn(n) + PiecesIn(q)
    BY ONLY <1>2, <1>3
  <2>2. a = PiecesIn(q) + r
    BY <1>1
  <2> QED
    BY ONLY <1>2, <2>1, <2>2, b = PiecesIn(n) + a, r \in 0..Units - 1
<1>5. b \div Units = x /\ b % Units = r
  BY <1>4, PlaceIs
<1> QED
  BY <1>1, <1>3, <1>5

LEMMA PlaceLess ==
  ASSUME NEW n \in Nat, NEW a \in Nat, a < PiecesIn(n)
  PROVE  a \div Units < n
<1>1. PICK q \in Nat, r \in 0..Units - 1 : q = a \div Units /\ r = a % Units /\ a = PiecesIn(q) + r
  BY PlaceOf
<1>2. /\ PiecesIn(n) \in Nat /\ PiecesIn(q) \in Nat /\ Units \in Nat
      /\ (n < q => PiecesIn(n) + Units <= PiecesIn(q))
  BY PiecesInIs, UnitsIs
<1>3. ~(n < q) /\ n # q
  BY <1>1, <1>2
<1> QED
  BY <1>1, <1>3

PieceAt(q, j) == <<q[1 + (j \div Units)], 1 + (j % Units)>>

LEMMA PiecesIs ==
  ASSUME NEW q, NEW at \in Nat, NEW n \in Nat, PiecesIn(Len(q)) = at + n
  PROVE  Pieces(q, at) = [i \in 1..n |-> PieceAt(q, at + i - 1)]
<1>1. Units * Len(q) - at = n
  BY DEF PiecesIn
<1> QED
  BY <1>1 DEF Pieces, PieceAt

LEMMA PiecesType ==
  ASSUME NEW q \in Seq(Serials), NEW at \in Nat, NEW n \in Nat, PiecesIn(Len(q)) = at + n
  PROVE  Pieces(q, at) \in Seq(Serials \X Nat) /\ Len(Pieces(q, at)) = n
<1>2. ASSUME NEW i \in 1..n
      PROVE  PieceAt(q, at + i - 1) \in Serials \X Nat
  <2>1. PICK j \in Nat : j = at + i - 1
    OBVIOUS
  <2>2. j < PiecesIn(Len(q))
    BY <2>1
  <2>3. j \div Units < Len(q)
    BY <2>2, PlaceLess
  <2>4. PICK a \in Nat, r \in 0..Units - 1 : a = j \div Units /\ r = j % Units
    BY PlaceOf
  <2>5. 1 + a \in 1..Len(q) /\ 1 + r \in Nat
    BY <2>3, <2>4, UnitsIs
  <2>6. q[1 + a] \in Serials
    BY <2>5
  <2>7. PieceAt(q, j) = <<q[1 + a], 1 + r>>
    BY <2>4 DEF PieceAt
  <2> QED
    BY <2>1, <2>5, <2>6, <2>7
<1>3. Pieces(q, at) = [i \in 1..n |-> PieceAt(q, at + i - 1)]
  BY PiecesIs
<1>4. Pieces(q, at) \in [1..n -> Serials \X Nat]
  BY <1>2, <1>3
<1> QED
  BY ONLY <1>4, n \in Nat

\* p is the queue q, of which n pieces are not written, with the message x, and y is x alone.
Adds(q, at, n, x, p, y) ==
  /\ q \in Seq(Serials) /\ at \in Nat /\ n \in Nat /\ PiecesIn(Len(q)) = at + n
  /\ x \in Serials /\ p = Append(q, x) /\ y = <<x>>

\* A message at the end of the queue adds its pieces at the end (Sess_write).
LEMMA PiecesAppend ==
  ASSUME NEW q, NEW at, NEW n, NEW x, NEW p, NEW y, Adds(q, at, n, x, p, y)
  PROVE  /\ p \in Seq(Serials) /\ PiecesIn(Len(p)) = at + (n + Units)
         /\ Pieces(q, at) \in Seq(Serials \X Nat) /\ Pieces(y, 0) \in Seq(Serials \X Nat)
         /\ Pieces(p, at) = Pieces(q, at) \o Pieces(y, 0)
<1>a. /\ q \in Seq(Serials) /\ at \in Nat /\ n \in Nat /\ PiecesIn(Len(q)) = at + n
      /\ x \in Serials /\ p = Append(q, x) /\ y = <<x>>
  BY DEF Adds
<1> USE <1>a
<1>1. Units \in Nat \ {0} /\ Len(q) \in Nat
  BY UnitsIs
<1> DEFINE l == Pieces(p, at)
           k == Pieces(q, at)
           m == Pieces(y, 0)
<1>2. p \in Seq(Serials) /\ Len(p) = Len(q) + 1 /\ p[1 + Len(q)] = x /\ \A i \in 1..Len(q) : p[i] = q[i]
  BY <1>1
<1>3. y \in Seq(Serials) /\ Len(y) = 1 /\ y[1] = x
  OBVIOUS
<1>4. PiecesIn(Len(p)) = PiecesIn(Len(q)) + Units
  BY <1>1, <1>2, PiecesInIs
<1>5. /\ l \in Seq(Serials \X Nat) /\ Len(l) = n + Units
      /\ \A i \in 1..(n + Units) : l[i] = PieceAt(p, at + i - 1)
  <2>1. PICK e \in Nat : e = n + Units
    BY <1>1
  <2>2. PiecesIn(Len(p)) = at + e
    BY <1>1, <1>4, <2>1
  <2>3. l \in Seq(Serials \X Nat) /\ Len(l) = e /\ \A i \in 1..e : l[i] = PieceAt(p, at + i - 1)
    <3>1. p \in Seq(Serials)
      BY <1>2
    <3>2. l \in Seq(Serials \X Nat) /\ Len(l) = e
      BY ONLY <3>1, <2>2, <1>a, e \in Nat, PiecesType
    <3>3. l = [i \in 1..e |-> PieceAt(p, at + i - 1)]
      <4>1. at \in Nat
        BY <1>a
      <4> QED
        BY ONLY <2>2, <4>1, e \in Nat, PiecesIs
    <3> QED
      BY ONLY <3>2, <3>3
  <2> QED
    BY ONLY <2>1, <2>3
<1>6. k \in Seq(Serials \X Nat) /\ Len(k) = n /\ \A i \in 1..n : k[i] = PieceAt(q, at + i - 1)
  <2>1. k \in Seq(Serials \X Nat) /\ Len(k) = n
    BY PiecesType
  <2>2. k = [i \in 1..n |-> PieceAt(q, at + i - 1)]
    BY PiecesIs
  <2> QED
    BY ONLY <2>1, <2>2
<1>7. m \in Seq(Serials \X Nat) /\ Len(m) = Units /\ \A i \in 1..Units : m[i] = PieceAt(y, 0 + i - 1)
  <2>1. PICK z \in Nat : z = 0
    OBVIOUS
  <2>2. PICK u \in Nat : u = Units
    BY <1>1
  <2>3. PiecesIn(Len(y)) = z + u
    BY <1>3, <2>1, <2>2, PiecesInIs
  <2>4. Pieces(y, z) \in Seq(Serials \X Nat) /\ Len(Pieces(y, z)) = u /\ \A i \in 1..u : Pieces(y, z)[i] = PieceAt(y, z + i - 1)
    <3>1. y \in Seq(Serials)
      BY <1>3
    <3>2. Pieces(y, z) \in Seq(Serials \X Nat) /\ Len(Pieces(y, z)) = u
      BY ONLY <3>1, <2>3, z \in Nat, u \in Nat, PiecesType
    <3>3. Pieces(y, z) = [i \in 1..u |-> PieceAt(y, z + i - 1)]
      BY ONLY <2>3, z \in Nat, u \in Nat, PiecesIs
    <3> QED
      BY ONLY <3>2, <3>3
  <2> QED
    BY ONLY <2>1, <2>2, <2>4
<1> HIDE DEF l, k, m
<1> DEFINE r == k \o m
<1>8. /\ r \in Seq(Serials \X Nat) /\ Len(r) = n + Units
      /\ \A i \in 1..(n + Units) : r[i] = IF i <= n THEN k[i] ELSE m[i - n]
  <2>1. k \in Seq(Serials \X Nat) /\ m \in Seq(Serials \X Nat) /\ Len(k) = n /\ Len(m) = Units
    BY <1>6, <1>7
  <2>2. /\ r \in Seq(Serials \X Nat) /\ Len(r) = Len(k) + Len(m)
        /\ \A i \in 1..(Len(k) + Len(m)) : r[i] = IF i <= Len(k) THEN k[i] ELSE m[i - Len(k)]
    BY ONLY <2>1, ConcatProperties
  <2> QED
    BY ONLY <2>1, <2>2
<1> HIDE DEF r
<1>9. ASSUME NEW i \in 1..(n + Units)
      PROVE  l[i] = r[i]
  <2>1. PICK j \in Nat : j = at + i - 1
    BY <1>1
  <2>2. CASE i <= n
    <3>1. j < PiecesIn(Len(q))
      BY <1>1, <2>1, <2>2
    <3>2. j \div Units < Len(q)
      BY <1>1, <3>1, PlaceLess
    <3>3. PICK a \in Nat, b \in 0..Units - 1 : a = j \div Units /\ b = j % Units
      BY PlaceOf
    <3>4. 1 + a \in 1..Len(q)
      BY <1>1, <3>2, <3>3
    <3>5. PieceAt(p, j) = PieceAt(q, j)
      BY <1>2, <3>3, <3>4 DEF PieceAt
    <3>6. i \in 1..n
      BY <1>1, <2>2
    <3> QED
      BY <1>1, <1>5, <1>6, <1>8, <2>1, <2>2, <3>5, <3>6
  <2>3. CASE ~(i <= n)
    <3>1. PICK b \in 0..Units - 1 : b = i - n - 1 /\ b + 1 \in 1..Units /\ b + 1 = i - n
      BY <1>1, <2>3
    <3>2. j = PiecesIn(Len(q)) + b
      BY <1>1, <2>1, <3>1
    <3>3. j \div Units = Len(q) /\ j % Units = b
      BY <1>1, <3>2, PlaceIs
    <3>4. b = PiecesIn(0) + b
      BY <1>1, PiecesInIs
    <3>5. b \div Units = 0 /\ b % Units = b
      BY <3>4, PlaceIs
    <3>6. l[i] = <<x, 1 + b>>
      BY <1>2, <1>5, <2>1, <3>3 DEF PieceAt
    <3>7. m[b + 1] = <<x, 1 + b>>
      <4>1. m[b + 1] = PieceAt(y, 0 + (b + 1) - 1)
        BY <1>7, <3>1
      <4>2. 0 + (b + 1) - 1 = b
        BY <1>1
      <4> QED
        BY <1>3, <3>5, <4>1, <4>2 DEF PieceAt
    <3>8. r[i] = m[b + 1]
      BY <1>8, <2>3, <3>1
    <3> QED
      BY <3>6, <3>7, <3>8
  <2> QED
    BY <2>2, <2>3
<1>10. l = r
  BY <1>5, <1>8, <1>9, SeqEqual
<1>11. PiecesIn(Len(p)) = at + (n + Units)
  BY <1>1, <1>4
<1> QED
  BY <1>2, <1>6, <1>7, <1>10, <1>11 DEF l, k, m, r

\* How many messages, and how many pieces of the next one, a place is behind.
Whole(a) == a \div Units
Part(a) == a % Units
\* A socket takes t pieces of a queue, of which n and the messages `left' stay.
Taken(q, at, t, n, left, rest) ==
  /\ q \in Seq(Serials) /\ at \in Nat /\ t \in Nat /\ n \in Nat /\ PiecesIn(Len(q)) = at + t + n
  /\ left = SubSeq(q, 1 + Whole(at + t), Len(q)) /\ rest = Part(at + t)

\* What a socket took and what is left are all there was (Sess_write, Sess_badger).
LEMMA PiecesDrain ==
  ASSUME NEW q, NEW at, NEW t, NEW n, NEW left, NEW rest, Taken(q, at, t, n, left, rest)
  PROVE  /\ left \in Seq(Serials) /\ rest \in 0..Units - 1
         /\ Len(left) <= Len(q) /\ PiecesIn(Len(left)) = rest + n /\ (left = <<>> => rest = 0)
         /\ SubSeq(Pieces(q, at), 1, t) \o Pieces(left, rest) = Pieces(q, at)
         /\ SubSeq(Pieces(q, at), 1, t) \in Seq(Serials \X Nat) /\ Pieces(left, rest) \in Seq(Serials \X Nat)
<1>t. q \in Seq(Serials) /\ at \in Nat /\ t \in Nat /\ n \in Nat /\ PiecesIn(Len(q)) = at + t + n
  BY DEF Taken
<1>e. PICK end \in Nat : end = at + t
  BY <1>t
<1>l. left = SubSeq(q, 1 + Whole(end), Len(q)) /\ rest = Part(end)
  BY <1>e DEF Taken
<1>1. Units \in Nat \ {0} /\ Len(q) \in Nat
  BY UnitsIs, <1>t
<1>2. PICK a \in Nat, r \in 0..Units - 1 : a = end \div Units /\ r = end % Units /\ end = PiecesIn(a) + r
                                               /\ a = Whole(end) /\ r = Part(end)
  BY PlaceOf DEF Whole, Part
<1>3. PiecesIn(Len(q)) = PiecesIn(a) + r + n /\ PiecesIn(a) \in Nat /\ r \in Nat /\ end = PiecesIn(a) + r
  <2>1. PiecesIn(a) \in Nat
    BY PiecesInIs
  <2>2. r \in Nat
    BY <1>1
  <2>3. end = PiecesIn(a) + r
    BY <1>2
  <2>4. PiecesIn(Len(q)) = end + n
    BY <1>t, <1>e
  <2> QED
    BY ONLY <2>1, <2>2, <2>3, <2>4, <1>t
<1>4. a <= Len(q)
  <2>1. Len(q) < a => PiecesIn(Len(q)) + Units <= PiecesIn(a)
    BY <1>1, PiecesInIs
  <2> QED
    BY ONLY <1>1, <1>3, <2>1, <1>t, SMTT(40)
<1>5. PICK k \in Nat : Len(q) = a + k
  <2>1. Len(q) - a \in Nat /\ Len(q) = a + (Len(q) - a)
    BY <1>1, <1>4
  <2> QED
    BY <2>1
<1>6. left \in Seq(Serials) /\ Len(left) = k /\ \A i \in 1..k : left[i] = q[a + i]
  <2>1. left = SubSeq(q, 1 + a, a + k)
    BY <1>2, <1>5, <1>t, <1>l
  <2>2. left \in Seq(Serials)
    BY ONLY <2>1, <1>5, <1>t, a \in Nat, k \in Nat
  <2>3. Len(left) = k
    BY ONLY <2>1, <1>5, <1>t, a \in Nat, k \in Nat
  <2>4. \A i \in 1..k : left[i] = q[a + i]
    BY ONLY <2>1, <1>5, <1>t, a \in Nat, k \in Nat
  <2> QED
    BY <2>2, <2>3, <2>4
<1>7. PiecesIn(k) = r + n
  <2>1. PiecesIn(a + k) = PiecesIn(a) + PiecesIn(k) /\ PiecesIn(k) \in Nat
    BY PiecesInIs
  <2>2. PiecesIn(Len(q)) = PiecesIn(a) + PiecesIn(k)
    BY ONLY <2>1, <1>5
  <2>3. r \in Nat
    BY <1>1
  <2> QED
    BY ONLY <1>3, <2>1, <2>2, <2>3, <1>t, SMTT(30)
<1> DEFINE p == Pieces(q, at)
           z == Pieces(left, r)
           w == SubSeq(p, 1, t)
<1>8. p \in Seq(Serials \X Nat) /\ Len(p) = t + n /\ \A i \in 1..(t + n) : p[i] = PieceAt(q, at + i - 1)
  <2>1. PICK e \in Nat : e = t + n
    BY <1>t, <1>e
  <2>2. p \in Seq(Serials \X Nat) /\ Len(p) = e /\ \A i \in 1..e : p[i] = PieceAt(q, at + i - 1)
    <3>1. PiecesIn(Len(q)) = at + e
      BY <2>1, <1>t, <1>e
    <3>2. p \in Seq(Serials \X Nat) /\ Len(p) = e
      BY ONLY <3>1, <1>t, e \in Nat, PiecesType
    <3>3. p = [i \in 1..e |-> PieceAt(q, at + i - 1)]
      BY ONLY <3>1, <1>t, e \in Nat, PiecesIs, ZenonT(60)
    <3> QED
      BY ONLY <3>2, <3>3
  <2> QED
    BY ONLY <2>1, <2>2
<1>9. z \in Seq(Serials \X Nat) /\ Len(z) = n /\ \A i \in 1..n : z[i] = PieceAt(left, r + i - 1)
  <2>1. PICK s \in Nat : s = r
    BY <1>1
  <2>2. left \in Seq(Serials)
    BY <1>6
  <2>3. PiecesIn(Len(left)) = s + n
    BY <1>6, <1>7, <2>1
  <2>4. /\ Pieces(left, s) \in Seq(Serials \X Nat) /\ Len(Pieces(left, s)) = n
        /\ \A i \in 1..n : Pieces(left, s)[i] = PieceAt(left, s + i - 1)
    <3>1. Pieces(left, s) \in Seq(Serials \X Nat) /\ Len(Pieces(left, s)) = n
      BY ONLY <2>2, <2>3, s \in Nat, PiecesType, <1>t
    <3>2. Pieces(left, s) = [i \in 1..n |-> PieceAt(left, s + i - 1)]
      BY ONLY <2>3, s \in Nat, PiecesIs, <1>t, ZenonT(60)
    <3> QED
      BY ONLY <3>1, <3>2
  <2> QED
    BY ONLY <2>1, <2>4
<1> HIDE DEF p, z
<1>10. w \in Seq(Serials \X Nat) /\ Len(w) = t /\ \A i \in 1..t : w[i] = p[i]
  BY <1>8, <1>t, SMTT(40)
<1> HIDE DEF w
<1> DEFINE s == w \o z
<1>11. /\ s \in Seq(Serials \X Nat) /\ Len(s) = t + n
       /\ \A i \in 1..(t + n) : s[i] = IF i <= t THEN w[i] ELSE z[i - t]
  BY <1>9, <1>10, ConcatProperties
<1> HIDE DEF s
<1>12. ASSUME NEW i \in 1..(t + n)
       PROVE  s[i] = p[i]
  <2>1. CASE i <= t
    <3>1. i \in 1..t
      BY <2>1
    <3> QED
      BY <1>10, <1>11, <2>1, <3>1
  <2>2. CASE ~(i <= t)
    <3>1. PICK e \in 1..n : e = i - t
      BY <2>2, <1>t
    <3>2. PICK j \in Nat : j = r + e - 1
      BY <1>1
    <3>3. PICK b \in Nat, c \in 0..Units - 1 : b = j \div Units /\ c = j % Units
      BY PlaceOf
    <3>4. PICK h \in Nat : h = at + i - 1
      BY <1>t, <1>e
    <3>5. h = PiecesIn(a) + j
      BY ONLY <1>3, <3>1, <3>2, <3>4, <1>t, <1>e, SMTT(30)
    <3>6. h \div Units = a + b /\ h % Units = c
      BY <3>3, <3>5, PlacePlus
    <3>7. j < PiecesIn(k)
      BY <1>1, <1>7, <3>1, <3>2, <1>t
    <3>8. b < k
      BY <3>3, <3>7, PlaceLess
    <3>9. 1 + b \in 1..k /\ a + (1 + b) = 1 + (a + b)
      BY <3>8
    <3>10. left[1 + b] = q[1 + (a + b)]
      BY <1>6, <3>9
    <3>11. z[e] = PieceAt(left, j) /\ p[i] = PieceAt(q, h)
      BY <1>8, <1>9, <3>1, <3>2, <3>4
    <3>12. s[i] = z[e]
      BY <1>11, <2>2, <3>1
    <3> QED
      BY <3>3, <3>6, <3>10, <3>11, <3>12 DEF PieceAt
  <2> QED
    BY <2>1, <2>2
<1>13. s = p
  BY <1>8, <1>11, <1>12, SeqEqual
<1>14. left = <<>> => r = 0
  <2>1. left = <<>> => k = 0
    BY <1>6
  <2>2. k = 0 => 0 = r + n
    BY ONLY <1>7, PiecesInIs
  <2> QED
    BY <1>1, <2>1, <2>2, <1>t
<1>15. rest = r /\ Len(left) <= Len(q) /\ PiecesIn(Len(left)) = rest + n
  BY <1>1, <1>2, <1>5, <1>6, <1>7, <1>t, <1>l, SMTT(30)
<1> QED
  BY <1>6, <1>9, <1>10, <1>13, <1>14, <1>15 DEF s, w, z, p

--------------------------------------------------------------------------------
(* The inductive invariant, part by part.  R, l, f, h, ... stand for S, list, free,  *)
(* hash, ... or for what a handler has made of them half-way.                        *)

SessionRec == [conn : 0..MaxConns, name : Names \cup {0}, mbox : Mboxes \cup {0},
               status : Statuses, queue : Seq(Serials), at : 0..Units - 1]
Used(R) == {s \in Slots : R[s].status # "free"}
Alive(R) == {s \in Slots : R[s].status \in {"op", "preauth"}}
\* Sessions that are or have been authorized: they submit, and they are in groups.
Known(R) == {s \in Slots : R[s].status \in {"op", "killed"}}

\* Sess_insert_new_session, Sess_remove_session: each session is once in the list or
\* once in the free list, and the list is sorted.
ListOK(R, l, f) ==
  /\ l \in Seq(Slots) /\ f \in Seq(Slots) /\ Len(l) + Len(f) = MAX_SESSIONS
  /\ \A i, j \in DOMAIN l : i < j => R[l[i]].name < R[l[j]].name
  /\ \A i, j \in DOMAIN f : f[i] = f[j] => i = j
  /\ \A s \in Slots : /\ s \in Used(R) <=> \E i \in DOMAIN l : l[i] = s
                      /\ s \notin Used(R) <=> \E i \in DOMAIN f : f[i] = s

\* Sess_hash_session, Sess_unhash_session: the sessions with a mailbox are in its
\* chain, once, and the one that may use the mailbox is the first.
HashOK(R, h) ==
  /\ h \in [Mboxes -> Seq(Slots)]
  /\ \A m \in Mboxes :
       /\ \A i, j \in DOMAIN h[m] : h[m][i] = h[m][j] => i = j
       /\ \A s \in Slots : (s \in Used(R) /\ R[s].mbox = m) <=> \E i \in DOMAIN h[m] : h[m][i] = s
  /\ \A s \in Alive(R) : h[R[s].mbox][1] = s

\* Sess_accept, Sess_kill: the descriptors in use are those of the sessions that are not
\* killed and of the connection that is being named, for which a session is left.
OpenOK(R, o, sc, f) ==
  /\ sc \in Mboxes \cup {0} /\ o \subseteq Mboxes
  /\ o = {R[s].mbox : s \in Alive(R)} \cup ({sc} \ {0})
  /\ sc # 0 => f # <<>> /\ \A s \in Alive(R) : R[s].mbox # sc

\* A connection has one session, and the one that is being named has none.
ConnsOK(R, sc, n) ==
  /\ R \in [Slots -> SessionRec] /\ n \in 0..MaxConns /\ (sc # 0 => n # 0)
  /\ \A s \in Used(R) : /\ R[s].conn \in 1..n /\ R[s].name \in Names /\ R[s].mbox \in Mboxes
                        /\ sc # 0 => R[s].conn # n
  /\ \A s, t \in Used(R) : R[s].conn = R[t].conn => s = t

PacketSet == [kind : {"data", "join", "leave", "kill"}, name : Names \cup {-1},
              conn : 0..MaxConns, group : GroupNames \cup {""}]
\* Sess_read, Sess_kill: a join, leave or KILL is of a session that is still there; a
\* killed session has one KILL on its way, behind all that it sent.  Session x is the
\* one whose KILL is being delivered, if one is.
FlightOK(R, fl, x) ==
  /\ fl \in Seq(PacketSet)
  /\ \A i \in DOMAIN fl :
       /\ fl[i].kind # "kill" => fl[i].group \in GroupNames
       /\ fl[i].kind # "data" => \E s \in Known(R) : /\ R[s].conn = fl[i].conn /\ R[s].name = fl[i].name
                                                     /\ fl[i].kind = "kill" => R[s].status = "killed"
  /\ \A i, j \in DOMAIN fl : i < j /\ fl[i].kind = "kill" => fl[j].conn # fl[i].conn
  /\ \A s \in Slots : s # x /\ R[s].status = "killed" =>
       \E i \in DOMAIN fl : fl[i].kind = "kill" /\ fl[i].conn = R[s].conn
  /\ x # 0 => \A i \in DOMAIN fl : fl[i].conn # R[x].conn

\* G_handle_join, G_remove_mailbox: the mailboxes of a group are those of its members,
\* in some order; several members can have the same.
GroupsOK(R, mem, box) ==
  /\ mem \in [GroupNames -> SUBSET Names] /\ box \in [GroupNames -> Seq(Mboxes)]
  /\ \A g \in GroupNames : \E f \in [DOMAIN box[g] -> mem[g]] :
       /\ \A i, j \in DOMAIN box[g] : f[i] = f[j] => i = j
       /\ \A name \in mem[g] : \E i \in DOMAIN box[g] : f[i] = name
       /\ \A i \in DOMAIN box[g] : \E s \in Known(R) : R[s].name = f[i] /\ R[s].mbox = box[g][i]

\* Sess_write, Sess_badger: what was written and what is queued is what was given.
StreamOK(s, giv, o) ==
  /\ s.status = "op" => (s.queue = <<>> => s.at = 0) /\ o[s.conn] \o Pieces(s.queue, s.at) = Pieces(giv[s.conn], 0)
  /\ s.status = "preauth" => s.queue = <<>> /\ s.at = 0 /\ giv[s.conn] = <<>> /\ o[s.conn] = <<>>
StreamsOK(R, giv, o, sc, n) ==
  /\ giv \in [Conns -> Seq(Serials)] /\ o \in [Conns -> Seq(Serials \X Nat)]
  /\ \A s \in Slots : StreamOK(R[s], giv, o)
  /\ \A c \in Conns : c > n \/ (c = n /\ sc # 0) => giv[c] = <<>> /\ o[c] = <<>>

\* Messages that are delivered, on their way, or may still come of a connection.
Ahead(R, fl, ser, sc) == ser + Len(fl) + Cardinality(Alive(R)) + (IF sc = 0 THEN 0 ELSE 1)

SessionInv ==
  /\ ListOK(S, list, free) /\ HashOK(S, hash) /\ OpenOK(S, open, scratch, free)
  /\ ConnsOK(S, scratch, conns) /\ ring \in Seq(PacketSet) /\ down \in Seq(PacketSet)
  /\ FlightOK(S, ring \o down, 0) /\ GroupsOK(S, members, mboxes)
  /\ StreamsOK(S, given, out, scratch, conns)
  /\ joined \in [Conns -> SUBSET GroupNames] /\ strays \subseteq Conns /\ badgers \subseteq Mboxes
  /\ high \in BOOLEAN /\ dead = FALSE
  /\ requests \in 0..MaxRequests /\ serial \in Nat
  /\ Ahead(S, ring \o down, serial, scratch) <= conns + requests

\* What a write or a kill makes of the sessions: nobody's connection, name or mailbox
\* changes, and who is killed stays in the list.
Same(R, Q) ==
  /\ Q \in [Slots -> SessionRec]
  /\ \A s \in Slots : /\ Q[s].conn = R[s].conn /\ Q[s].name = R[s].name /\ Q[s].mbox = R[s].mbox
                      /\ Q[s].status = R[s].status \/ (R[s].status = "op" /\ Q[s].status = "killed")

LEMMA SameSets ==
  ASSUME NEW R, NEW Q, Same(R, Q)
  PROVE  Used(Q) = Used(R) /\ Known(Q) = Known(R) /\ Alive(Q) \subseteq Alive(R)
         /\ Used(R) \subseteq Slots /\ Alive(R) \subseteq Used(R) /\ Known(R) \subseteq Used(R)
  BY DEF Same, Used, Known, Alive

LEMMA SameList ==
  ASSUME NEW R, NEW Q, Same(R, Q), NEW l, NEW f, ListOK(R, l, f)
  PROVE  ListOK(Q, l, f)
<1>1. \A i \in DOMAIN l : l[i] \in Slots /\ Q[l[i]].name = R[l[i]].name
  BY DEF ListOK, Same
<1>2. Used(Q) = Used(R)
  BY SameSets
<1> QED
  BY <1>1, <1>2 DEF ListOK

LEMMA SameHash ==
  ASSUME NEW R, NEW Q, Same(R, Q), NEW h, HashOK(R, h)
  PROVE  HashOK(Q, h)
<1>1. Used(Q) = Used(R) /\ Alive(Q) \subseteq Alive(R) /\ Alive(R) \subseteq Slots
  BY SameSets
<1>2. \A s \in Slots : Q[s].mbox = R[s].mbox
  BY DEF Same
<1> QED
  BY <1>1, <1>2 DEF HashOK

LEMMA SameConns ==
  ASSUME NEW R, NEW Q, Same(R, Q), NEW sc, NEW n, ConnsOK(R, sc, n)
  PROVE  ConnsOK(Q, sc, n)
<1>1. Used(Q) = Used(R) /\ Used(R) \subseteq Slots
  BY SameSets
<1>2. \A s \in Slots : Q[s].conn = R[s].conn /\ Q[s].name = R[s].name /\ Q[s].mbox = R[s].mbox
  BY DEF Same
<1>3. Q \in [Slots -> SessionRec]
  BY DEF Same
<1> QED
  BY <1>1, <1>2, <1>3 DEF ConnsOK

LEMMA SameGroups ==
  ASSUME NEW R, NEW Q, Same(R, Q), NEW mem, NEW box, GroupsOK(R, mem, box)
  PROVE  GroupsOK(Q, mem, box)
<1>1. Known(Q) = Known(R) /\ Known(R) \subseteq Slots
  BY SameSets
<1>2. \A s \in Slots : Q[s].name = R[s].name /\ Q[s].mbox = R[s].mbox
  BY DEF Same
<1>3. ASSUME NEW g \in GroupNames
      PROVE  \E f \in [DOMAIN box[g] -> mem[g]] :
               /\ \A i, j \in DOMAIN box[g] : f[i] = f[j] => i = j
               /\ \A name \in mem[g] : \E i \in DOMAIN box[g] : f[i] = name
               /\ \A i \in DOMAIN box[g] : \E s \in Known(Q) : Q[s].name = f[i] /\ Q[s].mbox = box[g][i]
  <2>1. PICK f \in [DOMAIN box[g] -> mem[g]] :
               /\ \A i, j \in DOMAIN box[g] : f[i] = f[j] => i = j
               /\ \A name \in mem[g] : \E i \in DOMAIN box[g] : f[i] = name
               /\ \A i \in DOMAIN box[g] : \E s \in Known(R) : R[s].name = f[i] /\ R[s].mbox = box[g][i]
    BY DEF GroupsOK
  <2>2. \A i \in DOMAIN box[g] : \E s \in Known(Q) : Q[s].name = f[i] /\ Q[s].mbox = box[g][i]
    BY <1>1, <1>2, <2>1
  <2> QED
    BY <2>1, <2>2
<1> QED
  BY <1>3 DEF GroupsOK

LEMMA SameTrans ==
  ASSUME NEW R, NEW Q, Same(R, Q), NEW P, Same(Q, P)
  PROVE  Same(R, P)
  BY DEF Same

--------------------------------------------------------------------------------
(* Sess_kill *)

WFields == {"S", "open", "badgers", "down", "given", "out", "strays", "dead"}

\* What the list, the hash table and the connections are while a handler writes.
TablesOK == ListOK(S, list, free) /\ HashOK(S, hash) /\ ConnsOK(S, scratch, conns)

\* What writes and kills keep of what they work on, in a handler that leaves the packets
\* rg in the ring and delivers the KILL of session x, if x is not 0.
WriteInv(w, rg, x, n) ==
  /\ DOMAIN w = WFields /\ Same(S, w.S) /\ OpenOK(w.S, w.open, scratch, free)
  /\ rg \in Seq(PacketSet) /\ w.down \in Seq(PacketSet) /\ FlightOK(w.S, rg \o w.down, x)
  /\ x # 0 => x \in Slots /\ w.S[x].status = "killed"
  /\ StreamsOK(w.S, w.given, w.out, scratch, conns)
  /\ w.strays \subseteq Conns /\ w.badgers \subseteq Mboxes /\ w.dead = FALSE
  /\ Len(w.down) + Cardinality(Alive(w.S)) = n

LEMMA SlotsFinite ==
  IsFiniteSet(Slots) /\ \A T \in SUBSET Slots : IsFiniteSet(T) /\ Cardinality(T) \in Nat
<1>1. MAX_SESSIONS \in Nat
  BY SessionAssumption
<1>2. IsFiniteSet(Slots)
  BY <1>1, FS_Interval DEF Slots
<1> QED
  BY <1>2, FS_Subset, FS_CardinalityType

\* Sess_kill of one session.
Killed(R, s) == [R EXCEPT ![s] = [@ EXCEPT !.status = "killed", !.queue = <<>>]]

LEMMA KilledIs ==
  ASSUME NEW R, R \in [Slots -> SessionRec], NEW s \in Slots, R[s].status = "op", NEW Q, Q = Killed(R, s)
  PROVE  /\ Same(R, Q) /\ Q[s].status = "killed" /\ \A t \in Slots : t # s => Q[t] = R[t]
         /\ Alive(Q) = Alive(R) \ {s} /\ Known(Q) = Known(R) /\ s \in Alive(R) /\ s \in Known(R) /\ s \in Used(R)
<1>1. R[s] \in SessionRec
  OBVIOUS
<1>2. /\ [R[s] EXCEPT !.status = "killed", !.queue = <<>>] \in SessionRec
      /\ Q[s] = [R[s] EXCEPT !.status = "killed", !.queue = <<>>]
  <2>1. <<>> \in Seq(Serials) /\ "killed" \in Statuses
    BY DEF Statuses
  <2>2. [R[s] EXCEPT !.status = "killed", !.queue = <<>>] \in SessionRec
    BY ONLY <1>1, <2>1 DEF SessionRec
  <2> QED
    BY <2>2 DEF Killed
<1>3. Q[s].status = "killed" /\ Q[s].conn = R[s].conn /\ Q[s].name = R[s].name /\ Q[s].mbox = R[s].mbox
  BY <1>1, <1>2 DEF SessionRec
<1>4. \A t \in Slots : t # s => Q[t] = R[t]
  BY DEF Killed
<1>5. Q \in [Slots -> SessionRec]
  BY <1>2, <1>4 DEF Killed
<1>6. Same(R, Q)
  BY <1>3, <1>4, <1>5 DEF Same
<1>7. Alive(Q) = Alive(R) \ {s}
  BY <1>3, <1>4 DEF Alive
<1>8. Known(Q) = Known(R) /\ s \in Alive(R) /\ s \in Known(R) /\ s \in Used(R)
  BY <1>6, SameSets DEF Known, Alive, Used
<1> QED
  BY <1>3, <1>4, <1>6, <1>7, <1>8

LEMMA KilledFlight ==
  ASSUME NEW R, NEW s \in Slots, R[s].status = "op", NEW Q, Q = Killed(R, s), NEW sc, NEW n, ConnsOK(R, sc, n),
         NEW fl, NEW x, FlightOK(R, fl, x), x # 0 => x \in Slots /\ R[x].status = "killed",
         NEW p \in PacketSet, p.kind = "kill", p.conn = R[s].conn, p.name = R[s].name
  PROVE  FlightOK(Q, Append(fl, p), x)
<1>1. /\ Same(R, Q) /\ Q[s].status = "killed" /\ \A t \in Slots : t # s => Q[t] = R[t]
      /\ Known(Q) = Known(R) /\ s \in Known(R) /\ s \in Used(R)
  BY KilledIs DEF ConnsOK
<1>2. Known(R) \subseteq Used(R) /\ Used(R) \subseteq Slots
  BY SameSets, <1>1
<1>3. \A t \in Used(R) : t # s => R[t].conn # R[s].conn
  BY <1>1 DEF ConnsOK
<1>4. \A t \in Slots : Q[t].conn = R[t].conn /\ Q[t].name = R[t].name
  BY <1>1 DEF Same
<1> DEFINE gl == Append(fl, p)
<1>5. /\ fl \in Seq(PacketSet) /\ gl \in Seq(PacketSet) /\ Len(gl) = Len(fl) + 1 /\ Len(fl) \in Nat
      /\ DOMAIN fl = 1..Len(fl) /\ DOMAIN gl = 1..(Len(fl) + 1)
      /\ gl[Len(fl) + 1] = p /\ \A i \in 1..Len(fl) : gl[i] = fl[i]
  BY DEF FlightOK
<1> HIDE DEF gl
<1>6. ASSUME NEW i \in DOMAIN gl
      PROVE  /\ gl[i].kind # "kill" => gl[i].group \in GroupNames
             /\ gl[i].kind # "data" => \E t \in Known(Q) : /\ Q[t].conn = gl[i].conn /\ Q[t].name = gl[i].name
                                                           /\ gl[i].kind = "kill" => Q[t].status = "killed"
  <2>1. CASE i \in DOMAIN fl
    <3>1. gl[i] = fl[i]
      BY <1>5, <2>1
    <3>2. fl[i].kind # "kill" => fl[i].group \in GroupNames
      BY <2>1 DEF FlightOK
    <3>3. ASSUME fl[i].kind # "data"
          PROVE  \E t \in Known(Q) : /\ Q[t].conn = fl[i].conn /\ Q[t].name = fl[i].name
                                     /\ fl[i].kind = "kill" => Q[t].status = "killed"
      <4>1. PICK t \in Known(R) : /\ R[t].conn = fl[i].conn /\ R[t].name = fl[i].name
                                  /\ fl[i].kind = "kill" => R[t].status = "killed"
        BY <2>1, <3>3 DEF FlightOK
      <4>2. t \in Slots
        BY <1>2
      <4>3. R[t].status = "killed" => Q[t].status = "killed"
        BY <1>1, <4>2
      <4> QED
        BY <1>1, <1>4, <4>1, <4>2, <4>3
    <3> QED
      BY <3>1, <3>2, <3>3
  <2>2. CASE i \notin DOMAIN fl
    <3>1. gl[i] = p
      BY <1>5, <2>2
    <3> QED
      BY <1>1, <1>4, <3>1
  <2> QED
    BY <2>1, <2>2
<1>7. ASSUME NEW i \in DOMAIN gl, NEW j \in DOMAIN gl, i < j, gl[i].kind = "kill"
      PROVE  gl[j].conn # gl[i].conn
  <2>1. i \in DOMAIN fl /\ gl[i] = fl[i]
    BY <1>5, <1>7
  <2>2. CASE j \in DOMAIN fl
    <3>1. gl[j] = fl[j]
      BY <1>5, <2>2
    <3> QED
      BY <1>7, <2>1, <2>2, <3>1 DEF FlightOK
  <2>3. CASE j \notin DOMAIN fl
    <3>1. gl[j] = p
      BY <1>5, <2>3
    <3>2. PICK t \in Known(R) : R[t].conn = fl[i].conn /\ R[t].status = "killed"
      BY <1>7, <2>1 DEF FlightOK
    <3>3. t # s /\ t \in Used(R)
      BY <1>2, <3>2
    <3> QED
      BY <1>3, <2>1, <3>1, <3>2, <3>3
  <2> QED
    BY <2>2, <2>3
<1>8. ASSUME NEW t \in Slots, t # x, Q[t].status = "killed"
      PROVE  \E i \in DOMAIN gl : gl[i].kind = "kill" /\ gl[i].conn = Q[t].conn
  <2>1. CASE t = s
    <3>1. Len(fl) + 1 \in DOMAIN gl /\ gl[Len(fl) + 1] = p
      BY <1>5
    <3> QED
      BY <1>4, <2>1, <3>1
  <2>2. CASE t # s
    <3>1. R[t].status = "killed"
      BY <1>1, <1>8, <2>2
    <3>2. PICK i \in DOMAIN fl : fl[i].kind = "kill" /\ fl[i].conn = R[t].conn
      BY <1>8, <3>1 DEF FlightOK
    <3>3. i \in DOMAIN gl /\ gl[i] = fl[i]
      BY <1>5
    <3> QED
      BY <1>4, <3>2, <3>3
  <2> QED
    BY <2>1, <2>2
<1>9. ASSUME x # 0, NEW i \in DOMAIN gl
      PROVE  gl[i].conn # Q[x].conn
  <2>1. x \in Slots /\ x # s /\ x \in Used(R)
    BY <1>9 DEF Used
  <2>2. CASE i \in DOMAIN fl
    <3>1. gl[i] = fl[i]
      BY <1>5, <2>2
    <3>2. fl[i].conn # R[x].conn
      BY <1>9, <2>2 DEF FlightOK
    <3> QED
      BY <1>4, <2>1, <3>1, <3>2
  <2>3. CASE i \notin DOMAIN fl
    <3>1. gl[i] = p
      BY <1>5, <2>3
    <3> QED
      BY <1>3, <1>4, <2>1, <3>1
  <2> QED
    BY <2>2, <2>3
<1> QED
  BY <1>5, <1>6, <1>7, <1>8, <1>9 DEF FlightOK, gl

\* Two sessions that may use their mailboxes have two mailboxes.
LEMMA MailboxesDiffer ==
  ASSUME NEW R, NEW h, HashOK(R, h), NEW s \in Alive(R), NEW t \in Alive(R), R[s].mbox = R[t].mbox
  PROVE  s = t
  BY DEF HashOK

LEMMA KilledOpen ==
  ASSUME NEW R, R \in [Slots -> SessionRec], NEW s \in Slots, R[s].status = "op", NEW Q, Q = Killed(R, s),
         NEW h, HashOK(R, h), NEW o, NEW sc, NEW f, OpenOK(R, o, sc, f)
  PROVE  OpenOK(Q, o \ {R[s].mbox}, sc, f)
<1>1. Same(R, Q) /\ Alive(Q) = Alive(R) \ {s} /\ s \in Alive(R) /\ Alive(R) \subseteq Slots
  BY KilledIs DEF Alive
<1>2. \A t \in Slots : Q[t].mbox = R[t].mbox
  BY <1>1 DEF Same
<1>3. \A t \in Alive(R) : t # s => R[t].mbox # R[s].mbox
  BY <1>1, MailboxesDiffer
<1>4. sc # 0 => R[s].mbox # sc
  BY <1>1 DEF OpenOK
<1>5. o = {R[t].mbox : t \in Alive(R)} \cup ({sc} \ {0})
  BY DEF OpenOK
<1>6. {Q[t].mbox : t \in Alive(Q)} = {R[t].mbox : t \in Alive(R)} \ {R[s].mbox}
  BY <1>1, <1>2, <1>3
<1>7. o \ {R[s].mbox} = {Q[t].mbox : t \in Alive(Q)} \cup ({sc} \ {0})
  BY <1>4, <1>5, <1>6
<1>8. sc # 0 => f # <<>> /\ \A t \in Alive(Q) : Q[t].mbox # sc
  BY <1>1, <1>2 DEF OpenOK
<1> QED
  BY <1>7, <1>8 DEF OpenOK

LEMMA KilledStreams ==
  ASSUME NEW R, R \in [Slots -> SessionRec], NEW s \in Slots, R[s].status = "op", NEW Q, Q = Killed(R, s),
         NEW giv, NEW o, NEW sc, NEW n, StreamsOK(R, giv, o, sc, n)
  PROVE  StreamsOK(Q, giv, o, sc, n)
<1>1. Q[s].status = "killed" /\ \A t \in Slots : t # s => Q[t] = R[t]
  BY KilledIs
<1>2. StreamOK(Q[s], giv, o)
  BY <1>1 DEF StreamOK
<1>3. \A t \in Slots : StreamOK(Q[t], giv, o)
  BY <1>1, <1>2 DEF StreamsOK
<1> QED
  BY <1>3 DEF StreamsOK

\* Sess_kill in the middle of a handler.
LEMMA KillKeeps ==
  ASSUME TablesOK, NEW w, NEW rg, NEW x, NEW n, WriteInv(w, rg, x, n), NEW s \in Slots, w.S[s].status = "op"
  PROVE  WriteInv(Kill(w, s), rg, x, n)
<1> DEFINE v == Kill(w, s)
           Q == Killed(w.S, s)
           p == Packet("kill", S[s].name, s, "")
<1>1. Same(S, w.S) /\ w.S \in [Slots -> SessionRec] /\ DOMAIN w = WFields
  BY DEF WriteInv, Same
<1>2. S[s].mbox = w.S[s].mbox /\ S[s].name = w.S[s].name /\ S[s].conn = w.S[s].conn
  BY <1>1 DEF Same
<1>3. /\ DOMAIN v = WFields /\ v.S = Q /\ v.open = w.open \ {w.S[s].mbox} /\ v.badgers = w.badgers \ {w.S[s].mbox}
      /\ v.down = Append(w.down, p) /\ v.given = w.given /\ v.out = w.out /\ v.strays = w.strays
      /\ v.dead = w.dead
  BY <1>1, <1>2 DEF Kill, WFields, Killed, WriteInv
<1>4. HashOK(w.S, hash) /\ ConnsOK(w.S, scratch, conns)
  BY <1>1, SameHash, SameConns DEF TablesOK
<1>5. /\ Same(w.S, Q) /\ Alive(Q) = Alive(w.S) \ {s} /\ s \in Alive(w.S) /\ s \in Used(w.S)
      /\ Q[s].status = "killed" /\ \A t \in Slots : t # s => Q[t] = w.S[t]
  BY <1>1, KilledIs
<1>6. p \in PacketSet /\ p.kind = "kill" /\ p.conn = w.S[s].conn /\ p.name = w.S[s].name
  <2>1. S[s].name \in Names /\ S[s].conn \in 0..MaxConns
    <3>1. w.S[s].name \in Names
      BY <1>4, <1>5 DEF ConnsOK
    <3>2. w.S[s] \in SessionRec
      BY <1>1
    <3> QED
      BY <1>2, <3>1, <3>2 DEF SessionRec
  <2> QED
    BY <1>2, <2>1 DEF Packet, PacketSet
<1> HIDE DEF Q, p, v
<1>7. Same(S, Q)
  BY <1>1, <1>5, SameTrans
<1>8. OpenOK(Q, v.open, scratch, free)
  BY <1>1, <1>3, <1>4, KilledOpen DEF WriteInv, Q
<1>9. v.down \in Seq(PacketSet) /\ Len(v.down) = Len(w.down) + 1 /\ rg \o v.down = Append(rg \o w.down, p)
  <2>1. rg \in Seq(PacketSet) /\ w.down \in Seq(PacketSet)
    BY DEF WriteInv
  <2>2. rg \o Append(w.down, p) = Append(rg \o w.down, p)
    BY <1>6, <2>1
  <2> QED
    BY <1>3, <1>6, <2>1, <2>2
<1>10. FlightOK(Q, Append(rg \o w.down, p), x)
  BY <1>1, <1>4, <1>6, KilledFlight DEF WriteInv, Q
<1>11. StreamsOK(Q, v.given, v.out, scratch, conns)
  BY <1>1, <1>3, KilledStreams, SMTT(30) DEF WriteInv, Q
<1>12. Len(v.down) + Cardinality(Alive(Q)) = n
  <2>1. IsFiniteSet(Alive(w.S)) /\ Cardinality(Alive(w.S)) \in Nat
    BY SlotsFinite DEF Alive
  <2>2. Cardinality(Alive(Q)) = Cardinality(Alive(w.S)) - 1
    BY <1>5, <2>1, FS_RemoveElement
  <2>3. Len(w.down) \in Nat /\ Len(w.down) + Cardinality(Alive(w.S)) = n
    BY DEF WriteInv
  <2> QED
    BY <1>9, <2>1, <2>2, <2>3
<1>13. x # 0 => x \in Slots /\ Q[x].status = "killed"
  BY <1>5 DEF WriteInv
<1> QED
  BY <1>3, <1>7, <1>8, <1>9, <1>10, <1>11, <1>12, <1>13 DEF WriteInv, v

--------------------------------------------------------------------------------
(* Sess_write and Sess_badger *)

\* Where in its first message a session can be.
Offsets == 0..Units - 1

ThreeParts(a, b, c) == {a, b, c} \subseteq Seq(Serials \X Nat)

LEMMA WrittenAssociative ==
  ASSUME NEW a, NEW b, NEW c, ThreeParts(a, b, c)
  PROVE  (a \o b) \o c = a \o (b \o c)
<1>1. a \in Seq(Serials \X Nat) /\ b \in Seq(Serials \X Nat) /\ c \in Seq(Serials \X Nat)
  BY DEF ThreeParts
<1> QED
  BY ONLY <1>1, ConcatAssociative, SMTT(30)

\* A session whose queue and place in its first message are others.
Requeued(R, s, q, at) == [R EXCEPT ![s] = [@ EXCEPT !.queue = q, !.at = at]]

LEMMA RequeuedIs ==
  ASSUME NEW R, R \in [Slots -> SessionRec], NEW s \in Slots, NEW q \in Seq(Serials), NEW at \in Offsets,
         NEW Q, Q = Requeued(R, s, q, at)
  PROVE  /\ Same(R, Q) /\ Q[s].queue = q /\ Q[s].at = at /\ \A t \in Slots : t # s => Q[t] = R[t]
         /\ \A t \in Slots : Q[t].status = R[t].status /\ Q[t].conn = R[t].conn /\ Q[t].name = R[t].name
                             /\ Q[t].mbox = R[t].mbox
         /\ Alive(Q) = Alive(R) /\ Known(Q) = Known(R)
<1>1. R[s] \in SessionRec
  OBVIOUS
<1>2. [R[s] EXCEPT !.queue = q, !.at = at] \in SessionRec /\ Q[s] = [R[s] EXCEPT !.queue = q, !.at = at]
  <2>1. [R[s] EXCEPT !.queue = q, !.at = at] \in SessionRec
    BY ONLY <1>1, q \in Seq(Serials), at \in Offsets DEF SessionRec, Offsets
  <2> QED
    BY <2>1 DEF Requeued
<1>3. /\ Q[s].status = R[s].status /\ Q[s].conn = R[s].conn /\ Q[s].name = R[s].name /\ Q[s].mbox = R[s].mbox
      /\ Q[s].queue = q /\ Q[s].at = at
  BY <1>1, <1>2 DEF SessionRec
<1>4. \A t \in Slots : t # s => Q[t] = R[t]
  BY DEF Requeued
<1>5. Q \in [Slots -> SessionRec]
  BY <1>2, <1>4 DEF Requeued
<1>6. \A t \in Slots : Q[t].status = R[t].status /\ Q[t].conn = R[t].conn /\ Q[t].name = R[t].name
                             /\ Q[t].mbox = R[t].mbox
  BY <1>3, <1>4
<1>7. Same(R, Q)
  BY <1>5, <1>6 DEF Same
<1> QED
  BY <1>3, <1>4, <1>6, <1>7 DEF Alive, Known

LEMMA FlightSame ==
  ASSUME NEW R, NEW Q, \A t \in Slots : Q[t].status = R[t].status /\ Q[t].conn = R[t].conn /\ Q[t].name = R[t].name,
         NEW fl, NEW x \in Slots \cup {0}, FlightOK(R, fl, x)
  PROVE  FlightOK(Q, fl, x)
<1>1. Known(Q) = Known(R) /\ Known(R) \subseteq Slots
  BY DEF Known
<1>2. ASSUME NEW i \in DOMAIN fl, fl[i].kind # "data"
      PROVE  \E t \in Known(Q) : /\ Q[t].conn = fl[i].conn /\ Q[t].name = fl[i].name
                                 /\ fl[i].kind = "kill" => Q[t].status = "killed"
  <2>1. PICK t \in Known(R) : /\ R[t].conn = fl[i].conn /\ R[t].name = fl[i].name
                              /\ fl[i].kind = "kill" => R[t].status = "killed"
    BY <1>2 DEF FlightOK
  <2> QED
    BY <1>1, <2>1
<1>3. ASSUME NEW t \in Slots, t # x, Q[t].status = "killed"
      PROVE  \E i \in DOMAIN fl : fl[i].kind = "kill" /\ fl[i].conn = Q[t].conn
  BY <1>3 DEF FlightOK
<1>4. x # 0 => \A i \in DOMAIN fl : fl[i].conn # Q[x].conn
  <2>1. x # 0 => Q[x].conn = R[x].conn
    OBVIOUS
  <2> QED
    BY <2>1 DEF FlightOK
<1> QED
  BY <1>2, <1>3, <1>4 DEF FlightOK

\* More is written to the socket of connection c.
Extended(o, c, took) == [o EXCEPT ![c] = @ \o took]

\* What was given to connection c is what was written, took and the queue q.
Drained(c, giv, o, gnew, took, q, at) ==
  /\ gnew \in [Conns -> Seq(Serials)] /\ \A d \in Conns : d # c => gnew[d] = giv[d]
  /\ took \in Seq(Serials \X Nat) /\ q \in Seq(Serials) /\ at \in Offsets /\ (q = <<>> => at = 0)
  /\ Pieces(q, at) \in Seq(Serials \X Nat)
  /\ Pieces(gnew[c], 0) = o[c] \o (took \o Pieces(q, at))

\* The stream of a session that is written, and of all others.
LEMMA StreamsDrained ==
  ASSUME NEW R, NEW sc, NEW n, ConnsOK(R, sc, n), NEW giv, NEW o, StreamsOK(R, giv, o, sc, n),
         NEW s \in Slots, R[s].status = "op", NEW c, c = R[s].conn,
         NEW gnew, NEW took, NEW q, NEW at, Drained(c, giv, o, gnew, took, q, at),
         NEW Q, Q = Requeued(R, s, q, at), NEW onew, onew = Extended(o, c, took)
  PROVE  StreamsOK(Q, gnew, onew, sc, n)
<1>d. /\ gnew \in [Conns -> Seq(Serials)] /\ \A d \in Conns : d # c => gnew[d] = giv[d]
      /\ took \in Seq(Serials \X Nat) /\ q \in Seq(Serials) /\ at \in Offsets /\ (q = <<>> => at = 0)
      /\ Pieces(q, at) \in Seq(Serials \X Nat) /\ Pieces(gnew[c], 0) = o[c] \o (took \o Pieces(q, at))
  BY DEF Drained
<1>q. q \in Seq(Serials) /\ at \in Offsets
  BY <1>d
<1>1. /\ Same(R, Q) /\ Q[s].queue = q /\ Q[s].at = at /\ \A t \in Slots : t # s => Q[t] = R[t]
      /\ \A t \in Slots : Q[t].status = R[t].status /\ Q[t].conn = R[t].conn
  <2>1. R \in [Slots -> SessionRec]
    BY DEF ConnsOK
  <2>2. /\ Same(R, Q) /\ Q[s].queue = q /\ Q[s].at = at /\ \A t \in Slots : t # s => Q[t] = R[t]
        /\ \A t \in Slots : Q[t].status = R[t].status /\ Q[t].conn = R[t].conn /\ Q[t].name = R[t].name
                             /\ Q[t].mbox = R[t].mbox
        /\ Alive(Q) = Alive(R) /\ Known(Q) = Known(R)
    BY ONLY <2>1, s \in Slots, <1>q, Q = Requeued(R, s, q, at), RequeuedIs
  <2> QED
    BY ONLY <2>2
<1>2. s \in Used(R) /\ c \in 1..n /\ (sc # 0 => c # n) /\ n \in 0..MaxConns /\ MaxConns \in Nat
  BY SessionAssumption DEF ConnsOK, Used
<1>3. c \in Conns /\ o \in [Conns -> Seq(Serials \X Nat)]
  <2>1. c \in 1..MaxConns
    BY ONLY <1>2
  <2> QED
    BY <2>1 DEF Conns, StreamsOK
<1>4. /\ onew \in [Conns -> Seq(Serials \X Nat)] /\ onew[c] = o[c] \o took
      /\ \A d \in Conns : d # c => onew[d] = o[d]
  <2>1. o[c] \o took \in Seq(Serials \X Nat)
    BY <1>3, ConcatProperties, <1>d, SMTT(30)
  <2> QED
    BY <1>3, <2>1 DEF Extended
<1>5. onew[c] \o Pieces(q, at) = Pieces(gnew[c], 0)
  <2>1. (o[c] \o took) \o Pieces(q, at) = o[c] \o (took \o Pieces(q, at))
    <3>1. o[c] \in Seq(Serials \X Nat)
      BY ONLY <1>3
    <3>2. PICK u, v : u = o[c] /\ v = Pieces(q, at)
      OBVIOUS
    <3>3. ThreeParts(u, took, v)
      BY ONLY <3>1, <3>2, <1>d DEF ThreeParts
    <3>4. (u \o took) \o v = u \o (took \o v)
      BY ONLY <3>3, WrittenAssociative, SMTT(30)
    <3> QED
      BY ONLY <3>2, <3>4
  <2> QED
    BY <1>4, <2>1, <1>d
<1>6. StreamOK(Q[s], gnew, onew)
  <2>1. Q[s].status = "op" /\ Q[s].conn = c
    BY <1>1
  <2> QED
    BY <1>1, <1>5, <2>1, <1>d DEF StreamOK
<1>7. ASSUME NEW t \in Slots, t # s
      PROVE  StreamOK(Q[t], gnew, onew)
  <2>1. StreamOK(R[t], giv, o) /\ Q[t] = R[t]
    BY <1>1, <1>7 DEF StreamsOK
  <2>2. CASE R[t].status \in {"op", "preauth"}
    <3>1. t \in Used(R)
      BY <2>2 DEF Used
    <3>2. R[t].conn # c
      BY <1>2, <1>7, <3>1 DEF ConnsOK
    <3>3. R[t].conn \in 1..n
      BY <3>1 DEF ConnsOK
    <3>4. R[t].conn \in Conns
      <4>1. R[t].conn \in 1..MaxConns
        BY ONLY <1>2, <3>3, SMTT(30)
      <4> QED
        BY <4>1 DEF Conns
    <3>5. gnew[R[t].conn] = giv[R[t].conn] /\ onew[R[t].conn] = o[R[t].conn]
      BY <1>4, <3>2, <3>4, <1>d
    <3> QED
      BY <2>1, <3>5 DEF StreamOK
  <2>3. CASE ~(R[t].status \in {"op", "preauth"})
    BY <2>1, <2>3 DEF StreamOK
  <2> QED
    BY <2>2, <2>3
<1>8. ASSUME NEW d \in Conns, d > n \/ (d = n /\ sc # 0)
      PROVE  gnew[d] = <<>> /\ onew[d] = <<>>
  <2>1. d # c
    BY <1>2, <1>8
  <2>2. giv[d] = <<>> /\ o[d] = <<>>
    BY <1>8 DEF StreamsOK
  <2> QED
    BY <1>4, <2>1, <2>2, <1>d
<1> QED
  BY <1>4, <1>6, <1>7, <1>8, <1>d DEF StreamsOK

\* m pieces of the queue q are not written.
Waiting(q, at, m) == m \in Nat /\ PiecesIn(Len(q)) = at + m

\* What Drain makes of what a handler works on.
DrainsTo(v, w, s, q, left, at, took) ==
  /\ left \in Seq(Serials) /\ at \in Offsets /\ took \in Seq(Serials \X Nat)
  /\ DOMAIN v = WFields /\ v.S = Requeued(w.S, s, left, at)
  /\ v.out = Extended(w.out, S[s].conn, took)
  /\ v.badgers \in {w.badgers, w.badgers \cup {S[s].mbox}}
  /\ v.open = w.open /\ v.down = w.down /\ v.given = w.given /\ v.strays = w.strays /\ v.dead = w.dead
  /\ left = <<>> => at = 0
  /\ Pieces(left, at) \in Seq(Serials \X Nat)
  /\ took \o Pieces(left, at) = Pieces(q, w.S[s].at)

LEMMA DrainIs ==
  ASSUME NEW w, DOMAIN w = WFields, NEW s \in Slots, w.S \in [Slots -> SessionRec],
         NEW q \in Seq(Serials), NEW k \in Nat, NEW m, Waiting(q, w.S[s].at, m),
         NEW v, v = Drain(w, s, q, k)
  PROVE  \E left, at, took : DrainsTo(v, w, s, q, left, at, took)
<1> DEFINE a == w.S[s].at
           t == Lesser(k, PiecesIn(Len(q)) - a)
           end == a + t
           left == SubSeq(q, 1 + (end \div Units), Len(q))
           at == end % Units
           took == SubSeq(Pieces(q, a), 1, t)
<1>1. Units \in Nat \ {0} /\ a \in 0..Units - 1
  <2>1. w.S[s] \in SessionRec
    OBVIOUS
  <2> QED
    BY <2>1, UnitsIs DEF SessionRec
<1>m. m \in Nat /\ PiecesIn(Len(q)) = a + m
  BY DEF Waiting
<1>2. v = [w EXCEPT !.S[s] = [@ EXCEPT !.queue = left, !.at = at], !.out[S[s].conn] = @ \o took,
                    !.badgers = IF left = <<>> THEN @ ELSE @ \cup {S[s].mbox}]
  BY DEF Drain, PiecesIn
<1>3. PiecesIn(Len(q)) - a = m
  BY <1>1, <1>m
<1>4. t \in Nat /\ t <= m
  BY <1>3, <1>m DEF Lesser
<1>5. PICK u \in Nat : m = t + u
  <2>1. m - t \in Nat /\ m = t + (m - t)
    BY ONLY <1>4, <1>m
  <2> QED
    BY <2>1
<1> HIDE DEF a, t
<1>6. end \in Nat /\ PiecesIn(Len(q)) = a + t + u /\ a \in Nat
  <2>1. a \in Nat
    BY <1>1
  <2>2. PiecesIn(Len(q)) = a + m
    BY <1>m
  <2> QED
    BY ONLY <1>4, <1>5, <2>1, <2>2, <1>m
<1>7. /\ left \in Seq(Serials) /\ at \in 0..Units - 1
      /\ Len(left) <= Len(q) /\ PiecesIn(Len(left)) = at + u /\ (left = <<>> => at = 0)
      /\ took \o Pieces(left, at) = Pieces(q, a)
      /\ took \in Seq(Serials \X Nat) /\ Pieces(left, at) \in Seq(Serials \X Nat)
  <2>1. a \in Nat /\ t \in Nat /\ u \in Nat
    BY <1>4, <1>5, <1>6
  <2>2. left = SubSeq(q, 1 + Whole(a + t), Len(q)) /\ at = Part(a + t)
    BY DEF Whole, Part
  <2> HIDE DEF end, left, at
  <2>3. Taken(q, a, t, u, left, at)
    BY <1>6, <2>1, <2>2 DEF Taken
  <2>4. /\ left \in Seq(Serials) /\ at \in 0..Units - 1
        /\ Len(left) <= Len(q) /\ PiecesIn(Len(left)) = at + u /\ (left = <<>> => at = 0)
        /\ SubSeq(Pieces(q, a), 1, t) \o Pieces(left, at) = Pieces(q, a)
        /\ SubSeq(Pieces(q, a), 1, t) \in Seq(Serials \X Nat) /\ Pieces(left, at) \in Seq(Serials \X Nat)
    BY ONLY <2>3, PiecesDrain, SMTT(30)
  <2> QED
    BY ONLY <2>4
<1> HIDE DEF end, left, at, took
<1>8. /\ DOMAIN v = WFields /\ v.S = Requeued(w.S, s, left, at)
      /\ v.out = Extended(w.out, S[s].conn, took)
      /\ v.badgers \in {w.badgers, w.badgers \cup {S[s].mbox}}
      /\ v.open = w.open /\ v.down = w.down /\ v.given = w.given /\ v.strays = w.strays /\ v.dead = w.dead
  BY ONLY <1>2, DOMAIN w = WFields DEF WFields, Requeued, Extended
<1>9. at \in Offsets
  BY <1>7 DEF Offsets
<1> QED
  BY <1>7, <1>8, <1>9 DEF a, DrainsTo

\* y is what a handler w works on, with messages given to connection c that are not
\* written yet.
Given(y, w, c) ==
  /\ DOMAIN y = WFields /\ y.S = w.S /\ y.open = w.open /\ y.down = w.down /\ y.out = w.out /\ y.dead = w.dead
  /\ y.badgers \subseteq Mboxes /\ y.strays \subseteq Conns
  /\ y.given \in [Conns -> Seq(Serials)] /\ \A d \in Conns : d # c => y.given[d] = w.given[d]

\* The end of Sess_write, and Sess_badger.
LEMMA DrainKeeps ==
  ASSUME TablesOK, NEW w, NEW rg, NEW x, NEW n, WriteInv(w, rg, x, n), NEW s \in Slots, w.S[s].status = "op",
         NEW y, Given(y, w, S[s].conn), NEW q \in Seq(Serials), NEW m, Waiting(q, w.S[s].at, m),
         Pieces(y.given[S[s].conn], 0) = w.out[S[s].conn] \o Pieces(q, w.S[s].at), NEW k \in Nat
  PROVE  WriteInv(Drain(y, s, q, k), rg, x, n)
<1>1. Same(S, w.S) /\ w.S \in [Slots -> SessionRec] /\ DOMAIN w = WFields
  BY DEF WriteInv, Same
<1>2. S[s].mbox = w.S[s].mbox /\ S[s].conn = w.S[s].conn
  BY <1>1 DEF Same
<1>3. ConnsOK(w.S, scratch, conns)
  BY ONLY <1>1, TablesOK, SameConns, SMTT(40) DEF TablesOK
<1>4. S[s].mbox \in Mboxes
  BY <1>2, <1>3 DEF ConnsOK, Used
<1>5. /\ DOMAIN y = WFields /\ y.S = w.S /\ y.open = w.open /\ y.down = w.down /\ y.out = w.out /\ y.dead = w.dead
      /\ y.badgers \subseteq Mboxes /\ y.strays \subseteq Conns
      /\ y.given \in [Conns -> Seq(Serials)] /\ \A d \in Conns : d # S[s].conn => y.given[d] = w.given[d]
  BY DEF Given
<1> DEFINE v == Drain(y, s, q, k)
<1>p. PICK left, at, took : DrainsTo(v, y, s, q, left, at, took)
  <2>1. DOMAIN y = WFields /\ y.S \in [Slots -> SessionRec] /\ Waiting(q, y.S[s].at, m)
    BY <1>1, <1>5
  <2> QED
    BY ONLY <2>1, s \in Slots, q \in Seq(Serials), k \in Nat, DrainIs
<1> HIDE DEF v
<1>6. /\ left \in Seq(Serials) /\ at \in Offsets /\ took \in Seq(Serials \X Nat)
      /\ DOMAIN v = WFields /\ v.S = Requeued(y.S, s, left, at)
      /\ v.out = Extended(y.out, S[s].conn, took)
      /\ v.badgers \in {y.badgers, y.badgers \cup {S[s].mbox}}
      /\ v.open = y.open /\ v.down = y.down /\ v.given = y.given /\ v.strays = y.strays /\ v.dead = y.dead
      /\ left = <<>> => at = 0
      /\ Pieces(left, at) \in Seq(Serials \X Nat)
      /\ took \o Pieces(left, at) = Pieces(q, y.S[s].at)
  BY ONLY <1>p DEF DrainsTo
<1>q. left \in Seq(Serials) /\ at \in Offsets
  BY ONLY <1>6, SMTT(30)
<1>7. v.S = Requeued(w.S, s, left, at) /\ v.out = Extended(w.out, S[s].conn, took)
  BY <1>5, <1>6
<1>8. /\ Same(w.S, v.S) /\ Alive(v.S) = Alive(w.S)
      /\ \A t \in Slots : v.S[t].status = w.S[t].status /\ v.S[t].conn = w.S[t].conn /\ v.S[t].name = w.S[t].name
                             /\ v.S[t].mbox = w.S[t].mbox
  BY ONLY <1>1, <1>7, <1>q, s \in Slots, RequeuedIs
<1>9. Same(S, v.S)
  BY ONLY <1>1, <1>8, SameTrans
<1>10. StreamsOK(v.S, v.given, v.out, scratch, conns)
  <2>1. Drained(S[s].conn, w.given, w.out, y.given, took, left, at)
    BY <1>5, <1>6, ZenonT(60) DEF Drained
  <2>2. StreamsOK(w.S, w.given, w.out, scratch, conns)
    BY DEF WriteInv
  <2> DEFINE c == S[s].conn
  <2>3. c = S[s].conn
    OBVIOUS
  <2> HIDE DEF c
  <2>4. /\ w.S[s].status = "op" /\ c = w.S[s].conn /\ Drained(c, w.given, w.out, y.given, took, left, at)
        /\ v.out = Extended(w.out, c, took)
    BY <1>2, <1>7, <2>1, <2>3
  <2>5. StreamsOK(v.S, y.given, v.out, scratch, conns)
    BY ONLY <1>3, <1>7, <2>2, <2>4, s \in Slots, StreamsDrained
  <2> QED
    BY ONLY <1>6, <2>5, SMTT(40)
<1>11. FlightOK(v.S, rg \o v.down, x)
  <2>1. FlightOK(w.S, rg \o w.down, x) /\ x \in Slots \cup {0} /\ v.down = w.down
    BY <1>5, <1>6, SMTT(30) DEF WriteInv
  <2>2. \A t \in Slots : v.S[t].status = w.S[t].status /\ v.S[t].conn = w.S[t].conn /\ v.S[t].name = w.S[t].name
    BY <1>8
  <2>3. FlightOK(v.S, rg \o w.down, x)
    BY ONLY <2>1, <2>2, FlightSame
  <2> QED
    BY <2>1, <2>3
<1>12. OpenOK(v.S, v.open, scratch, free)
  <2>1. Alive(w.S) \subseteq Slots
    BY ONLY TRUE DEF Alive
  <2>2. OpenOK(w.S, w.open, scratch, free) /\ v.open = w.open
    BY <1>5, <1>6, SMTT(30) DEF WriteInv
  <2>3. \A t \in Alive(w.S) : v.S[t].mbox = w.S[t].mbox
    BY <1>8, <2>1
  <2>4. {v.S[t].mbox : t \in Alive(v.S)} = {w.S[t].mbox : t \in Alive(w.S)}
    BY ONLY <1>8, <2>3, SMTT(30)
  <2> QED
    BY <1>8, <2>2, <2>3, <2>4, SMTT(30) DEF OpenOK
<1>13. v.badgers \subseteq Mboxes /\ v.strays \subseteq Conns /\ v.dead = FALSE
  BY <1>4, <1>5, <1>6, SMTT(30) DEF WriteInv
<1>14. x # 0 => x \in Slots /\ v.S[x].status = "killed"
  BY ONLY <1>8, WriteInv(w, rg, x, n) DEF WriteInv
<1>15. v.down = w.down /\ Len(v.down) + Cardinality(Alive(v.S)) = n
  BY <1>5, <1>6, <1>8, SMTT(30) DEF WriteInv
<1>16. rg \in Seq(PacketSet) /\ w.down \in Seq(PacketSet)
  BY DEF WriteInv
<1> QED
  BY <1>6, <1>9, <1>10, <1>11, <1>12, <1>13, <1>14, <1>15, <1>16, SMTT(30) DEF WriteInv, v

LEMMA QueueWaits ==
  ASSUME NEW q \in Seq(Serials), NEW at \in Offsets, q = <<>> => at = 0
  PROVE  \E m : Waiting(q, at, m)
<1>1. Units \in Nat \ {0} /\ Len(q) \in Nat /\ at \in Nat /\ at < Units
  BY UnitsIs DEF Offsets
<1>2. PiecesIn(0) = 0 /\ PiecesIn(Len(q)) \in Nat /\ (0 < Len(q) => PiecesIn(0) + Units <= PiecesIn(Len(q)))
  BY <1>1, PiecesInIs
<1>3. at <= PiecesIn(Len(q))
  BY <1>1, <1>2
<1>4. PiecesIn(Len(q)) - at \in Nat /\ PiecesIn(Len(q)) = at + (PiecesIn(Len(q)) - at)
  BY <1>1, <1>2, <1>3
<1> QED
  BY <1>4 DEF Waiting

\* One message more for a connection and its session.
LEMMA GivenOneMore ==
  ASSUME NEW q \in Seq(Serials), NEW at \in Offsets, q = <<>> => at = 0, NEW gs \in Seq(Serials),
         NEW o \in Seq(Serials \X Nat), o \o Pieces(q, at) = Pieces(gs, 0), NEW x \in Serials
  PROVE  /\ Append(q, x) \in Seq(Serials) /\ \E m : Waiting(Append(q, x), at, m)
         /\ Pieces(Append(gs, x), 0) = o \o Pieces(Append(q, x), at)
<1>1. PICK m : m \in Nat /\ PiecesIn(Len(q)) = at + m
  BY QueueWaits DEF Waiting
<1>2. at \in Nat /\ Units \in Nat
  BY UnitsIs DEF Offsets
<1>3. PICK y : y = <<x>>
  OBVIOUS
<1>4. PICK p : p = Append(q, x)
  OBVIOUS
<1>5. /\ p \in Seq(Serials) /\ PiecesIn(Len(p)) = at + (m + Units)
      /\ Pieces(q, at) \in Seq(Serials \X Nat) /\ Pieces(y, 0) \in Seq(Serials \X Nat)
      /\ Pieces(p, at) = Pieces(q, at) \o Pieces(y, 0)
  <2>1. Adds(q, at, m, x, p, y)
    BY <1>1, <1>2, <1>3, <1>4 DEF Adds
  <2> QED
    BY ONLY <2>1, PiecesAppend
<1>6. PICK h : h = Append(gs, x)
  OBVIOUS
<1>7. Pieces(h, 0) = Pieces(gs, 0) \o Pieces(y, 0)
  <2>1. PICK e \in Nat : e = PiecesIn(Len(gs))
    <3>1. Len(gs) \in Nat
      OBVIOUS
    <3> QED
      BY <3>1, PiecesInIs
  <2>2. PICK z \in Nat : z = 0
    OBVIOUS
  <2>3. Adds(gs, z, e, x, h, y)
    BY <1>3, <1>6, <2>1, <2>2 DEF Adds
  <2>4. Pieces(h, z) = Pieces(gs, z) \o Pieces(y, 0)
    BY ONLY <2>3, PiecesAppend
  <2> QED
    BY ONLY <2>2, <2>4
<1>8. (o \o Pieces(q, at)) \o Pieces(y, 0) = o \o (Pieces(q, at) \o Pieces(y, 0))
  <2>1. ThreeParts(o, Pieces(q, at), Pieces(y, 0))
    BY ONLY <1>5, o \in Seq(Serials \X Nat) DEF ThreeParts
  <2> QED
    BY ONLY <2>1, WrittenAssociative
<1>9. m + Units \in Nat
  BY <1>1, <1>2
<1> QED
  BY <1>4, <1>5, <1>6, <1>7, <1>8, <1>9 DEF Waiting

\* Sess_write of one message to one session.
LEMMA WriteKeeps ==
  ASSUME TablesOK, serial \in Serials, NEW w, NEW rg, NEW x, NEW n, WriteInv(w, rg, x, n), NEW s \in Slots,
         NEW g, NEW k \in Nat
  PROVE  WriteInv(Write(w, s, g, k), rg, x, n)
<1> DEFINE c == S[s].conn
           y == [w EXCEPT !.given[c] = Append(@, serial),
                          !.strays = IF g = "" \/ g \in joined'[c] THEN @ ELSE @ \cup {c}]
           q == Append(w.S[s].queue, serial)
<1>1. s # 0
  BY SessionAssumption DEF Slots
<1>2. CASE w.S[s].status # "op"
  BY <1>1, <1>2 DEF Write
<1>3. CASE w.S[s].status = "op" /\ Len(w.S[s].queue) >= MAX_SESSION_MESSAGES
  <2>1. Write(w, s, g, k) = Kill(w, s)
    BY <1>1, <1>3 DEF Write
  <2> QED
    BY <1>3, <2>1, KillKeeps
<1>4. CASE w.S[s].status = "op" /\ ~(Len(w.S[s].queue) >= MAX_SESSION_MESSAGES)
  <2>1. Write(w, s, g, k) = Drain(y, s, q, k)
    BY <1>1, <1>4 DEF Write
  <2>2. Same(S, w.S) /\ w.S \in [Slots -> SessionRec] /\ DOMAIN w = WFields
    BY DEF WriteInv, Same
  <2>3. ConnsOK(w.S, scratch, conns) /\ w.S[s] \in SessionRec /\ c = w.S[s].conn
    BY <2>2, SameConns DEF TablesOK, Same
  <2>4. c \in Conns
    <3>1. c \in 1..conns /\ conns \in 0..MaxConns /\ MaxConns \in Nat
      BY <1>4, <2>3, SessionAssumption DEF ConnsOK, Used
    <3>2. c \in 1..MaxConns
      BY ONLY <3>1
    <3> QED
      BY <3>2 DEF Conns
  <2>5. w.given \in [Conns -> Seq(Serials)] /\ w.out \in [Conns -> Seq(Serials \X Nat)] /\ StreamOK(w.S[s], w.given, w.out)
    BY DEF WriteInv, StreamsOK
  <2>6. w.S[s].queue \in Seq(Serials) /\ w.S[s].at \in Offsets
    BY <2>3, SMTT(40) DEF SessionRec, Offsets
  <2>7. (w.S[s].queue = <<>> => w.S[s].at = 0) /\ w.out[c] \o Pieces(w.S[s].queue, w.S[s].at) = Pieces(w.given[c], 0)
    BY <1>4, <2>3, <2>5 DEF StreamOK
  <2>8. w.given[c] \in Seq(Serials) /\ w.out[c] \in Seq(Serials \X Nat)
    BY ONLY <2>4, <2>5
  <2>9. /\ q \in Seq(Serials) /\ \E m : Waiting(q, w.S[s].at, m)
        /\ Pieces(Append(w.given[c], serial), 0) = w.out[c] \o Pieces(q, w.S[s].at)
    BY ONLY <2>6, <2>7, <2>8, serial \in Serials, GivenOneMore, ZenonT(60)
  <2>10. /\ DOMAIN y = WFields /\ y.S = w.S /\ y.open = w.open /\ y.down = w.down /\ y.out = w.out
         /\ y.dead = w.dead /\ y.badgers = w.badgers /\ y.strays \in {w.strays, w.strays \cup {c}}
         /\ y.given = [w.given EXCEPT ![c] = Append(@, serial)]
    BY ONLY <2>2 DEF WFields
  <2> HIDE DEF y, q
  <2>11. /\ y.given \in [Conns -> Seq(Serials)] /\ y.given[c] = Append(w.given[c], serial)
         /\ \A d \in Conns : d # c => y.given[d] = w.given[d]
    <3>1. Append(w.given[c], serial) \in Seq(Serials)
      BY <2>8
    <3> QED
      BY <2>4, <2>5, <2>10, <3>1
  <2>12. Given(y, w, c)
    BY ONLY WriteInv(w, rg, x, n), <2>4, <2>10, <2>11, SMTT(30) DEF Given, WriteInv
  <2>13. Pieces(y.given[c], 0) = w.out[c] \o Pieces(q, w.S[s].at)
    BY <2>9, <2>11
  <2> HIDE DEF c
  <2>14. PICK m : Waiting(q, w.S[s].at, m)
    BY <2>9
  <2>15. w.S[s].status = "op" /\ q \in Seq(Serials)
    BY <1>4, <2>9
  <2>16. WriteInv(Drain(y, s, q, k), rg, x, n)
    BY ONLY <2>12, <2>13, <2>14, <2>15, TablesOK, WriteInv(w, rg, x, n), s \in Slots, k \in Nat, DrainKeeps DEF c
  <2> QED
    BY <2>1, <2>16 DEF y, q, c
<1> QED
  BY <1>2, <1>3, <1>4

--------------------------------------------------------------------------------
(* A message to many mailboxes *)

WriteTo(w, box, g, take) ==
  LET s == IndexOf(box) IN Write(w, s, g, IF s = 0 THEN 0 ELSE take[s])

\* What WriteAll goes through, from w to its result.
LEMMA WriteAllSteps ==
  ASSUME NEW w, NEW boxes, Len(boxes) \in Nat, NEW g, NEW take
  PROVE  \E f : /\ f[0] = w /\ WriteAll(w, boxes, g, take) = f[Len(boxes)]
                /\ \A i \in 1..Len(boxes) : f[i] = WriteTo(f[i - 1], boxes[i], g, take)
<1> DEFINE Runs(n, h) == h = [i \in 0..n |-> IF i = 0 THEN w ELSE WriteTo(h[i - 1], boxes[i], g, take)]
           Bad == {n \in Nat : ~\E h : Runs(n, h)}
<1>1. Bad = {}
  <2> SUFFICES ASSUME Bad # {} PROVE FALSE
    OBVIOUS
  <2>1. PICK n \in Bad : \A m \in Bad : n <= m
    BY LeastNumber
  <2>2. n # 0
    <3>1. Runs(0, [i \in 0..0 |-> w])
      OBVIOUS
    <3> QED
      BY <3>1, <2>1
  <2>3. n - 1 \in Nat /\ n - 1 \notin Bad
    BY <2>1, <2>2
  <2>4. PICK h : Runs(n - 1, h)
    BY <2>3
  <2> DEFINE k == [i \in 0..n |-> IF i = 0 THEN w ELSE WriteTo(h[i - 1], boxes[i], g, take)]
  <2>5. \A i \in 0..n : i # 0 => k[i - 1] = h[i - 1]
    BY <2>3, <2>4
  <2>6. Runs(n, k)
    BY <2>5
  <2> QED
    BY <2>1, <2>6
<1>2. \E h : Runs(Len(boxes), h)
  BY <1>1
<1> DEFINE f == CHOOSE h : h = [i \in 0..Len(boxes) |-> IF i = 0 THEN w ELSE WriteTo(h[i - 1], boxes[i], g, take)]
<1>3. f = [i \in 0..Len(boxes) |-> IF i = 0 THEN w ELSE WriteTo(f[i - 1], boxes[i], g, take)]
  BY <1>2
<1>4. WriteAll(w, boxes, g, take) = f[Len(boxes)]
  BY DEF WriteAll, WriteTo
<1> HIDE DEF f
<1>5. f[0] = w
  BY <1>3
<1>6. ASSUME NEW i \in 1..Len(boxes) PROVE f[i] = WriteTo(f[i - 1], boxes[i], g, take)
  <2>1. i \in 0..Len(boxes) /\ i # 0
    OBVIOUS
  <2> QED
    BY <1>3, <2>1
<1> QED
  BY <1>4, <1>5, <1>6

\* Each of these mailboxes has a session (G_get_num_local, Sess_get_session_index).
Reached(boxes) ==
  /\ Len(boxes) \in Nat
  /\ \A i \in 1..Len(boxes) : IndexOf(boxes[i]) \in Slots
Takes(take) == take \in [Slots -> 0..MaxTake]

LEMMA WriteToKeeps ==
  ASSUME TablesOK, serial \in Serials, NEW w, NEW rg, NEW x, NEW n, WriteInv(w, rg, x, n), NEW box,
         IndexOf(box) \in Slots, NEW g, NEW take, Takes(take)
  PROVE  WriteInv(WriteTo(w, box, g, take), rg, x, n)
<1>1. PICK s \in Slots : s = IndexOf(box)
  OBVIOUS
<1>2. take[s] \in Nat /\ s # 0
  BY SessionAssumption DEF Takes, Slots
<1>3. WriteInv(Write(w, s, g, take[s]), rg, x, n)
  BY <1>2, WriteKeeps
<1> QED
  BY <1>1, <1>2, <1>3 DEF WriteTo

LEMMA WriteAllKeeps ==
  ASSUME TablesOK, serial \in Serials, NEW w, NEW rg, NEW x, NEW n, WriteInv(w, rg, x, n), NEW boxes,
         Reached(boxes), NEW g, NEW take, Takes(take)
  PROVE  WriteInv(WriteAll(w, boxes, g, take), rg, x, n)
<1>1. Len(boxes) \in Nat /\ \A i \in 1..Len(boxes) : IndexOf(boxes[i]) \in Slots
  BY DEF Reached
<1>2. PICK f : /\ f[0] = w /\ WriteAll(w, boxes, g, take) = f[Len(boxes)]
               /\ \A i \in 1..Len(boxes) : f[i] = WriteTo(f[i - 1], boxes[i], g, take)
  <2>1. Len(boxes) \in Nat
    BY <1>1
  <2> QED
    BY ONLY <2>1, WriteAllSteps
<1> DEFINE Bad == {i \in 0..Len(boxes) : ~WriteInv(f[i], rg, x, n)}
<1>3. Bad = {}
  <2> SUFFICES ASSUME Bad # {} PROVE FALSE
    OBVIOUS
  <2>1. PICK i \in Bad : \A m \in Bad : i <= m
    <3>1. Bad \in SUBSET Nat
      BY <1>1
    <3> HIDE DEF Bad
    <3> QED
      BY <3>1, LeastNumber
  <2>2. i # 0
    BY <1>2, <2>1
  <2>3. i - 1 \in 0..Len(boxes) /\ i - 1 \notin Bad /\ i \in 1..Len(boxes)
    BY <1>1, <2>1, <2>2
  <2>4. WriteInv(f[i - 1], rg, x, n)
    BY <2>3
  <2>5. WriteInv(WriteTo(f[i - 1], boxes[i], g, take), rg, x, n)
    BY <1>1, <2>3, <2>4, WriteToKeeps
  <2> QED
    BY <1>2, <2>1, <2>3, <2>5
<1>4. WriteInv(f[Len(boxes)], rg, x, n)
  BY <1>1, <1>3
<1> QED
  BY <1>2, <1>4

WriteGroup(w, boxes, h, take) == WriteAll(w, boxes[h], h, take)

LEMMA WriteGroupsSteps ==
  ASSUME NEW w, NEW boxes, NEW gs, Len(gs) \in Nat, NEW take
  PROVE  \E f : /\ f[0] = w /\ WriteGroups(w, boxes, gs, take) = f[Len(gs)]
                /\ \A i \in 1..Len(gs) : f[i] = WriteGroup(f[i - 1], boxes, gs[i], take)
<1> DEFINE Runs(n, h) == h = [i \in 0..n |-> IF i = 0 THEN w ELSE WriteGroup(h[i - 1], boxes, gs[i], take)]
           Bad == {n \in Nat : ~\E h : Runs(n, h)}
<1>1. Bad = {}
  <2> SUFFICES ASSUME Bad # {} PROVE FALSE
    OBVIOUS
  <2>1. PICK n \in Bad : \A m \in Bad : n <= m
    BY LeastNumber
  <2>2. n # 0
    <3>1. Runs(0, [i \in 0..0 |-> w])
      OBVIOUS
    <3> QED
      BY <3>1, <2>1
  <2>3. n - 1 \in Nat /\ n - 1 \notin Bad
    BY <2>1, <2>2, SMTT(30)
  <2>4. PICK h : Runs(n - 1, h)
    BY <2>3
  <2> DEFINE k == [i \in 0..n |-> IF i = 0 THEN w ELSE WriteGroup(h[i - 1], boxes, gs[i], take)]
  <2>5. \A i \in 0..n : i # 0 => k[i - 1] = h[i - 1]
    BY <2>3, <2>4
  <2>6. Runs(n, k)
    BY <2>5
  <2> QED
    BY <2>1, <2>6
<1>2. \E h : Runs(Len(gs), h)
  BY <1>1
<1> DEFINE f == CHOOSE h : h = [i \in 0..Len(gs) |-> IF i = 0 THEN w ELSE WriteGroup(h[i - 1], boxes, gs[i], take)]
<1>3. f = [i \in 0..Len(gs) |-> IF i = 0 THEN w ELSE WriteGroup(f[i - 1], boxes, gs[i], take)]
  BY <1>2
<1>4. WriteGroups(w, boxes, gs, take) = f[Len(gs)]
  BY DEF WriteGroups, WriteGroup
<1> HIDE DEF f
<1>5. f[0] = w
  BY <1>3
<1>6. ASSUME NEW i \in 1..Len(gs) PROVE f[i] = WriteGroup(f[i - 1], boxes, gs[i], take)
  <2>1. i \in 0..Len(gs) /\ i # 0
    OBVIOUS
  <2> QED
    BY <1>3, <2>1
<1> QED
  BY <1>4, <1>5, <1>6

LEMMA WriteGroupsKeeps ==
  ASSUME TablesOK, serial \in Serials, NEW w, NEW rg, NEW x, NEW n, WriteInv(w, rg, x, n), NEW boxes, NEW gs,
         Len(gs) \in Nat, \A i \in 1..Len(gs) : Reached(boxes[gs[i]]), NEW take, Takes(take)
  PROVE  WriteInv(WriteGroups(w, boxes, gs, take), rg, x, n)
<1>2. PICK f : /\ f[0] = w /\ WriteGroups(w, boxes, gs, take) = f[Len(gs)]
               /\ \A i \in 1..Len(gs) : f[i] = WriteGroup(f[i - 1], boxes, gs[i], take)
  BY WriteGroupsSteps
<1> DEFINE Bad == {i \in 0..Len(gs) : ~WriteInv(f[i], rg, x, n)}
<1>3. Bad = {}
  <2> SUFFICES ASSUME Bad # {} PROVE FALSE
    OBVIOUS
  <2>1. PICK i \in Bad : \A m \in Bad : i <= m
    <3>1. Bad \in SUBSET Nat
      OBVIOUS
    <3> HIDE DEF Bad
    <3> QED
      BY <3>1, LeastNumber
  <2>2. i # 0
    BY <1>2, <2>1
  <2>3. i - 1 \in 0..Len(gs) /\ i - 1 \notin Bad /\ i \in 1..Len(gs)
    BY <2>1, <2>2
  <2>4. WriteInv(f[i - 1], rg, x, n) /\ Reached(boxes[gs[i]])
    BY <2>3
  <2>5. WriteInv(WriteGroup(f[i - 1], boxes, gs[i], take), rg, x, n)
    BY <2>4, WriteAllKeeps DEF WriteGroup
  <2> QED
    BY <1>2, <2>1, <2>3, <2>5
<1>4. WriteInv(f[Len(gs)], rg, x, n)
  BY <1>3
<1> QED
  BY <1>2, <1>4

--------------------------------------------------------------------------------
(* The hash table and the list *)

\* Sess_get_session_index.
LEMMA IndexIs ==
  ASSUME HashOK(S, hash), NEW m \in Mboxes
  PROVE  /\ (\E s \in Used(S) : S[s].mbox = m) => /\ IndexOf(m) \in Slots /\ IndexOf(m) \in Used(S)
                                                  /\ S[IndexOf(m)].mbox = m
         /\ (~\E s \in Used(S) : S[s].mbox = m) => IndexOf(m) = 0
         /\ \A s \in Alive(S) : S[s].mbox = m => IndexOf(m) = s
<1>1. /\ hash[m] \in Seq(Slots)
      /\ \A s \in Slots : (s \in Used(S) /\ S[s].mbox = m) <=> \E i \in DOMAIN hash[m] : hash[m][i] = s
      /\ \A s \in Alive(S) : S[s].mbox = m => hash[m][1] = s
  BY DEF HashOK
<1> DEFINE h == hash[m]
<1>2. h # <<>> => 1 \in DOMAIN h /\ IndexOf(m) = h[1] /\ h[1] \in Slots
  BY <1>1 DEF IndexOf
<1>3. h = <<>> => IndexOf(m) = 0 /\ DOMAIN h = {}
  BY DEF IndexOf
<1>4. Used(S) \subseteq Slots /\ Alive(S) \subseteq Used(S)
  BY DEF Used, Alive
<1>5. ASSUME NEW s \in Used(S), S[s].mbox = m
      PROVE  h # <<>>
  BY <1>1, <1>3, <1>4, <1>5
<1>6. h # <<>> => IndexOf(m) \in Slots /\ IndexOf(m) \in Used(S) /\ S[IndexOf(m)].mbox = m
  BY <1>1, <1>2
<1> QED
  BY <1>1, <1>2, <1>3, <1>4, <1>5, <1>6

\* Every mailbox of a group has a session, the same as one of its members.
LEMMA GroupReached ==
  ASSUME HashOK(S, hash), NEW mem, NEW box, GroupsOK(S, mem, box), NEW g \in GroupNames
  PROVE  Reached(box[g])
<1>1. box[g] \in Seq(Mboxes)
  BY DEF GroupsOK
<1>2. Len(box[g]) \in Nat /\ DOMAIN box[g] = 1..Len(box[g])
  BY <1>1
<1>3. ASSUME NEW i \in 1..Len(box[g])
      PROVE  IndexOf(box[g][i]) \in Slots
  <2>1. PICK s \in Known(S) : S[s].mbox = box[g][i]
    BY <1>2 DEF GroupsOK
  <2>2. s \in Used(S) /\ box[g][i] \in Mboxes
    BY <1>1, <1>2 DEF Known, Used
  <2> QED
    BY <2>1, <2>2, IndexIs
<1> QED
  BY <1>2, <1>3 DEF Reached

LEMMA SlotsConcat ==
  ASSUME NEW a \in Seq(Slots), NEW b \in Seq(Slots)
  PROVE  /\ a \o b \in Seq(Slots) /\ Len(a \o b) = Len(a) + Len(b)
         /\ \A i \in 1..(Len(a) + Len(b)) : (a \o b)[i] = IF i <= Len(a) THEN a[i] ELSE b[i - Len(a)]
  BY ConcatProperties

\* r is the list l with s at place p.
Places(l, p, s, r) == l \in Seq(Slots) /\ s \in Slots /\ p \in 1..Len(l) + 1 /\ r = InsertAt(l, p, s)

LEMMA InsertAtIs ==
  ASSUME NEW l, NEW p, NEW s, NEW r, Places(l, p, s, r)
  PROVE  /\ r \in Seq(Slots) /\ Len(r) = Len(l) + 1
         /\ \A i \in 1..Len(l) + 1 : r[i] = IF i < p THEN l[i] ELSE IF i = p THEN s ELSE l[i - 1]
<1> l \in Seq(Slots) /\ s \in Slots /\ p \in 1..Len(l) + 1 /\ r = InsertAt(l, p, s)
  BY DEF Places
<1>1. Len(l) \in Nat /\ p \in Nat /\ p <= Len(l) + 1 /\ 1 <= p
  OBVIOUS
<1> DEFINE a == SubSeq(l, 1, p - 1)
           b == SubSeq(l, p, Len(l))
<1>2. a \in Seq(Slots) /\ Len(a) = p - 1 /\ \A i \in 1..p - 1 : a[i] = l[i]
  BY <1>1
<1>3. b \in Seq(Slots) /\ Len(b) = Len(l) - p + 1 /\ \A i \in 1..(Len(l) - p + 1) : b[i] = l[p + i - 1]
  BY <1>1
<1>4. r = (a \o <<s>>) \o b
  BY DEF InsertAt
<1> HIDE DEF a, b
<1> DEFINE c == a \o <<s>>
<1>5. c \in Seq(Slots) /\ Len(c) = p /\ \A i \in 1..p : c[i] = IF i <= p - 1 THEN a[i] ELSE s
  <2>1. <<s>> \in Seq(Slots) /\ Len(<<s>>) = 1
    OBVIOUS
  <2>2. c \in Seq(Slots) /\ Len(c) = p - 1 + 1 /\ \A i \in 1..(p - 1 + 1) : c[i] = IF i <= p - 1 THEN a[i] ELSE <<s>>[i - (p - 1)]
    <3>1. a \in Seq(Slots) /\ <<s>> \in Seq(Slots)
      BY <1>2, <2>1
    <3>2. /\ c \in Seq(Slots) /\ Len(c) = Len(a) + Len(<<s>>)
          /\ \A i \in 1..(Len(a) + Len(<<s>>)) : c[i] = IF i <= Len(a) THEN a[i] ELSE <<s>>[i - Len(a)]
      BY ONLY <3>1, SlotsConcat
    <3> HIDE DEF c
    <3>3. Len(a) = p - 1 /\ Len(<<s>>) = 1
      BY <1>2, <2>1
    <3> QED
      BY ONLY <3>2, <3>3
  <2>3. \A i \in 1..p : i <= p - 1 \/ i - (p - 1) = 1
    BY <1>1
  <2>4. p - 1 + 1 = p
    BY <1>1
  <2>5. ASSUME NEW i \in 1..p
        PROVE  c[i] = IF i <= p - 1 THEN a[i] ELSE s
    <3>1. <<s>>[1] = s
      OBVIOUS
    <3>2. c[i] = IF i <= p - 1 THEN a[i] ELSE <<s>>[i - (p - 1)]
      BY <2>2, <2>4
    <3> QED
      BY <2>3, <3>1, <3>2
  <2> QED
    BY <2>2, <2>4, <2>5
<1> HIDE DEF c
<1>6. /\ r \in Seq(Slots) /\ Len(r) = Len(c) + Len(b)
      /\ \A i \in 1..(Len(c) + Len(b)) : r[i] = IF i <= Len(c) THEN c[i] ELSE b[i - Len(c)]
  <2>1. c \in Seq(Slots) /\ b \in Seq(Slots)
    BY <1>3, <1>5
  <2>2. r = c \o b
    BY <1>4 DEF c
  <2> QED
    BY ONLY <2>1, <2>2, SlotsConcat
<1>7. Len(c) = p /\ Len(c) + Len(b) = Len(l) + 1
  BY <1>1, <1>3, <1>5
<1>8. ASSUME NEW i \in 1..Len(l) + 1
      PROVE  r[i] = IF i < p THEN l[i] ELSE IF i = p THEN s ELSE l[i - 1]
  <2>1. r[i] = IF i <= p THEN c[i] ELSE b[i - p]
    BY <1>6, <1>7
  <2>2. CASE i <= p
    BY <1>1, <1>2, <1>5, <2>1, <2>2
  <2>3. CASE ~(i <= p)
    <3>1. i - p \in 1..(Len(l) - p + 1) /\ p + (i - p) - 1 = i - 1
      BY <1>1, <2>3
    <3>2. b[i - p] = l[i - 1]
      BY <1>3, <3>1
    <3> QED
      BY <1>1, <2>1, <2>3, <3>2
  <2> QED
    BY <2>2, <2>3
<1> QED
  BY <1>6, <1>7, <1>8

LEMMA RemoveAtIs ==
  ASSUME NEW l \in Seq(Slots), NEW p \in 1..Len(l), NEW r, r = RemoveAt(l, p)
  PROVE  /\ r \in Seq(Slots) /\ Len(r) = Len(l) - 1
         /\ \A i \in 1..Len(l) - 1 : r[i] = IF i < p THEN l[i] ELSE l[i + 1]
<1>1. Len(l) \in Nat /\ p \in Nat /\ p <= Len(l) /\ 1 <= p
  OBVIOUS
<1> DEFINE a == SubSeq(l, 1, p - 1)
           b == SubSeq(l, p + 1, Len(l))
<1>2. a \in Seq(Slots) /\ Len(a) = p - 1 /\ \A i \in 1..p - 1 : a[i] = l[i]
  BY <1>1
<1>3. b \in Seq(Slots) /\ Len(b) = Len(l) - p /\ \A i \in 1..(Len(l) - p) : b[i] = l[p + i]
  BY <1>1
<1>4. r = a \o b
  BY DEF RemoveAt
<1> HIDE DEF a, b
<1>6. /\ r \in Seq(Slots) /\ Len(r) = Len(a) + Len(b)
      /\ \A i \in 1..(Len(a) + Len(b)) : r[i] = IF i <= Len(a) THEN a[i] ELSE b[i - Len(a)]
  <2>1. a \in Seq(Slots) /\ b \in Seq(Slots)
    BY <1>2, <1>3
  <2> QED
    BY ONLY <2>1, <1>4, SlotsConcat
<1>7. Len(a) = p - 1 /\ Len(a) + Len(b) = Len(l) - 1
  BY <1>1, <1>2, <1>3
<1>8. ASSUME NEW i \in 1..Len(l) - 1
      PROVE  r[i] = IF i < p THEN l[i] ELSE l[i + 1]
  <2>1. r[i] = IF i <= p - 1 THEN a[i] ELSE b[i - (p - 1)]
    BY <1>6, <1>7
  <2>2. CASE i < p
    <3>1. i \in 1..p - 1 /\ i <= p - 1
      BY <1>1, <2>2
    <3> QED
      BY <1>2, <2>1, <2>2, <3>1
  <2>3. CASE ~(i < p)
    <3>1. i - (p - 1) \in 1..(Len(l) - p) /\ p + (i - (p - 1)) = i + 1 /\ ~(i <= p - 1)
      BY <1>1, <2>3
    <3>2. b[i - (p - 1)] = l[i + 1]
      BY <1>3, <3>1
    <3> QED
      BY <2>1, <2>3, <3>1, <3>2
  <2> QED
    BY <2>2, <2>3
<1> QED
  BY <1>6, <1>7, <1>8

\* Every listed session has a name, a number.
LEMMA ListNames ==
  ASSUME NEW R, NEW l, NEW f, ListOK(R, l, f), NEW sc, NEW n, ConnsOK(R, sc, n)
  PROVE  /\ Len(l) \in Nat /\ DOMAIN l = 1..Len(l)
         /\ \A i \in 1..Len(l) : l[i] \in Slots /\ l[i] \in Used(R) /\ R[l[i]].name \in Names /\ R[l[i]].name \in Nat
<1>1. l \in Seq(Slots)
  BY DEF ListOK
<1>2. Len(l) \in Nat /\ DOMAIN l = 1..Len(l) /\ \A i \in 1..Len(l) : l[i] \in Slots
  BY <1>1
<1>3. ASSUME NEW i \in 1..Len(l)
      PROVE  l[i] \in Used(R) /\ R[l[i]].name \in Names /\ R[l[i]].name \in Nat
  <2>1. l[i] \in Used(R)
    BY <1>2 DEF ListOK
  <2>2. R[l[i]].name \in Names
    BY <2>1 DEF ConnsOK
  <2> QED
    BY <2>1, <2>2, SessionAssumption
<1> QED
  BY <1>2, <1>3

\* The scan of the list stops between the smaller names and the others.
LEMMA PlaceInList ==
  ASSUME ListOK(S, list, free), ConnsOK(S, scratch, conns), NEW name \in Nat
  PROVE  /\ Place(name) \in 1..Len(list) + 1
         /\ \A i \in 1..Len(list) : i < Place(name) => S[list[i]].name < name
         /\ \A i \in 1..Len(list) : Place(name) <= i => S[list[i]].name >= name
<1>1. /\ Len(list) \in Nat /\ DOMAIN list = 1..Len(list)
      /\ \A i \in 1..Len(list) : S[list[i]].name \in Nat
  BY ListNames
<1> DEFINE later == {i \in DOMAIN list : S[list[i]].name >= name}
<1>2. CASE later = {}
  <2>1. Place(name) = Len(list) + 1
    BY <1>2 DEF Place
  <2>2. \A i \in 1..Len(list) : ~(S[list[i]].name >= name)
    BY <1>1, <1>2
  <2>3. \A i \in 1..Len(list) : S[list[i]].name < name
    BY <1>1, <2>2
  <2> QED
    BY <1>1, <2>1, <2>3
<1>3. CASE later # {}
  <2>1. later \in SUBSET Nat
    BY <1>1
  <2>2. \E n \in later : \A m \in later : n <= m
    <3> HIDE DEF later
    <3> QED
      BY <1>3, <2>1, LeastNumber
  <2>3. Place(name) = CHOOSE i \in later : \A j \in later : i <= j
    BY <1>3 DEF Place
  <2> DEFINE p == Place(name)
  <2>4. p \in later /\ \A j \in later : p <= j
    <3> HIDE DEF later
    <3> QED
      BY <2>2, <2>3
  <2> HIDE DEF p
  <2>5. p \in 1..Len(list) /\ S[list[p]].name >= name
    BY <1>1, <2>4
  <2>6. ASSUME NEW i \in 1..Len(list), i < p
        PROVE  S[list[i]].name < name
    <3>1. ~(p <= i)
      BY <1>1, <2>5, <2>6
    <3>2. ~(S[list[i]].name >= name)
      BY <1>1, <2>4, <3>1
    <3> QED
      BY <1>1, <3>2
  <2>7. ASSUME NEW i \in 1..Len(list), p <= i
        PROVE  S[list[i]].name >= name
    <3>1. CASE p = i
      BY <2>5, <3>1
    <3>2. CASE p # i
      <4>1. p < i
        BY <1>1, <2>5, <2>7, <3>2
      <4>2. S[list[p]].name < S[list[i]].name
        BY <1>1, <2>5, <4>1 DEF ListOK
      <4> QED
        BY <1>1, <2>5, <4>2
    <3> QED
      BY <3>1, <3>2
  <2>8. p \in 1..Len(list) + 1
    BY <1>1, <2>5
  <2> QED
    BY <2>6, <2>7, <2>8 DEF p
<1> QED
  BY <1>2, <1>3

\* Sess_get_session finds the session of a name, if there is one.
LEMMA NamedIs ==
  ASSUME ListOK(S, list, free), ConnsOK(S, scratch, conns), NEW name \in Nat
  PROVE  /\ \A s \in Used(S) : S[s].name = name => Found(name) /\ Named(name) = s
         /\ Found(name) => Named(name) \in Used(S) /\ Named(name) \in Slots /\ S[Named(name)].name = name
         /\ ~Found(name) => Named(name) = 0
<1> DEFINE p == Place(name)
<1>1. /\ Len(list) \in Nat /\ DOMAIN list = 1..Len(list)
      /\ \A i \in 1..Len(list) : list[i] \in Slots /\ list[i] \in Used(S) /\ S[list[i]].name \in Nat
  BY ListNames
<1>2. /\ p \in 1..Len(list) + 1
      /\ \A i \in 1..Len(list) : i < p => S[list[i]].name < name
      /\ \A i \in 1..Len(list) : p <= i => S[list[i]].name >= name
  BY PlaceInList
<1>3. /\ Found(name) <=> p <= Len(list) /\ S[list[p]].name = name
      /\ Found(name) => Named(name) = list[p]
      /\ ~Found(name) => Named(name) = 0
  BY DEF Found, Named
<1> HIDE DEF p
<1>4. ASSUME Found(name)
      PROVE  Named(name) \in Used(S) /\ Named(name) \in Slots /\ S[Named(name)].name = name
  <2>1. p \in 1..Len(list)
    BY <1>1, <1>2, <1>3, <1>4
  <2> QED
    BY <1>1, <1>3, <1>4, <2>1
<1>5. ASSUME NEW s \in Used(S), S[s].name = name
      PROVE  Found(name) /\ Named(name) = s
  <2>1. s \in Slots
    BY DEF Used
  <2>2. PICK i \in 1..Len(list) : list[i] = s
    BY <1>1, <2>1 DEF ListOK
  <2>3. ~(i < p)
    BY <1>1, <1>2, <1>5, <2>2
  <2>4. p <= i /\ p \in 1..Len(list)
    BY <1>1, <1>2, <2>3
  <2>5. ~(p < i)
    <3>1. p < i => S[list[p]].name < S[list[i]].name
      BY <1>1, <2>4 DEF ListOK
    <3>2. S[list[p]].name >= name /\ S[list[p]].name \in Nat
      BY <1>1, <1>2, <2>4
    <3> QED
      BY <1>5, <2>2, <3>1, <3>2
  <2>6. p = i
    BY <1>1, <2>4, <2>5
  <2> QED
    BY <1>1, <1>3, <1>5, <2>2, <2>4, <2>6
<1> QED
  BY <1>3, <1>4, <1>5

--------------------------------------------------------------------------------
(* Sessions enter and leave the list and the chains of the hash table *)

Has(q, s) == \E i \in DOMAIN q : q[i] = s
Once(q) == \A i, j \in DOMAIN q : q[i] = q[j] => i = j

LEMMA PushIs ==
  ASSUME NEW q \in Seq(Slots), Once(q), NEW s \in Slots, ~Has(q, s), NEW r, r = <<s>> \o q
  PROVE  /\ r \in Seq(Slots) /\ Len(r) = Len(q) + 1 /\ Len(q) \in Nat /\ r[1] = s
         /\ Once(r) /\ \A t : Has(r, t) <=> t = s \/ Has(q, t)
<1>1. /\ r \in Seq(Slots) /\ Len(r) = Len(q) + 1 /\ Len(q) \in Nat /\ DOMAIN q = 1..Len(q) /\ DOMAIN r = 1..Len(q) + 1
      /\ \A i \in 1..(Len(q) + 1) : r[i] = IF i = 1 THEN s ELSE q[i - 1]
  OBVIOUS
<1>2. \A i \in DOMAIN r : i = 1 \/ (i - 1 \in DOMAIN q /\ r[i] = q[i - 1])
  BY <1>1
<1>3. \A i \in DOMAIN q : i + 1 \in DOMAIN r /\ r[i + 1] = q[i]
  <2>1. \A i \in DOMAIN q : i + 1 \in 1..(Len(q) + 1) /\ i + 1 # 1 /\ i + 1 - 1 = i
    BY <1>1
  <2> QED
    BY <1>1, <2>1
<1>4. 1 \in DOMAIN r /\ r[1] = s
  BY <1>1
<1>5. Once(r)
  <2>1. ASSUME NEW i \in DOMAIN r, NEW j \in DOMAIN r, r[i] = r[j]
        PROVE  i = j
    <3>1. i \in Nat /\ j \in Nat
      BY <1>1
    <3>2. CASE i = 1 \/ j = 1
      BY <1>2, <1>4, <2>1, <3>2 DEF Has
    <3>3. CASE i # 1 /\ j # 1
      <4>1. i - 1 = j - 1
        BY <1>2, <2>1, <3>3 DEF Once
      <4> QED
        BY <3>1, <4>1
    <3> QED
      BY <3>2, <3>3
  <2> QED
    BY <2>1 DEF Once
<1>6. ASSUME NEW t
      PROVE  Has(r, t) <=> t = s \/ Has(q, t)
  <2>1. Has(r, t) => t = s \/ Has(q, t)
    BY <1>2, <1>4 DEF Has
  <2>2. Has(q, t) => Has(r, t)
    BY <1>3 DEF Has
  <2>3. t = s => Has(r, t)
    BY <1>4 DEF Has
  <2> QED
    BY <2>1, <2>2, <2>3
<1> QED
  BY <1>1, <1>4, <1>5, <1>6

LEMMA PopIs ==
  ASSUME NEW q \in Seq(Slots), q # <<>>, Once(q), NEW s, s = Head(q), NEW r, r = Tail(q)
  PROVE  /\ r \in Seq(Slots) /\ Len(r) = Len(q) - 1 /\ Len(q) \in Nat \ {0}
         /\ Once(r) /\ \A t : Has(r, t) <=> t # s /\ Has(q, t)
         /\ s \in Slots /\ Has(q, s)
<1>1. /\ r \in Seq(Slots) /\ Len(r) = Len(q) - 1 /\ Len(q) \in Nat \ {0} /\ DOMAIN q = 1..Len(q) /\ DOMAIN r = 1..Len(q) - 1
      /\ \A i \in 1..(Len(q) - 1) : r[i] = q[i + 1]
  OBVIOUS
<1>2. s = q[1] /\ 1 \in DOMAIN q /\ s \in Slots
  BY <1>1
<1>3. \A i \in DOMAIN r : i + 1 \in DOMAIN q /\ r[i] = q[i + 1] /\ i \in Nat /\ i + 1 # 1
  BY <1>1
<1>4. \A i \in DOMAIN q : i # 1 => i - 1 \in DOMAIN r /\ r[i - 1] = q[i]
  <2>1. \A i \in DOMAIN q : i # 1 => i - 1 \in 1..(Len(q) - 1) /\ (i - 1) + 1 = i
    BY <1>1
  <2> QED
    BY <1>1, <2>1
<1>5. Once(r)
  <2>1. ASSUME NEW i \in DOMAIN r, NEW j \in DOMAIN r, r[i] = r[j]
        PROVE  i = j
    <3>1. i + 1 = j + 1
      BY <1>3, <2>1 DEF Once
    <3> QED
      BY <1>3, <3>1
  <2> QED
    BY <2>1 DEF Once
<1>6. ASSUME NEW t
      PROVE  Has(r, t) <=> t # s /\ Has(q, t)
  <2>1. ASSUME Has(r, t) PROVE t # s /\ Has(q, t)
    <3>1. PICK i \in DOMAIN r : r[i] = t
      BY <2>1 DEF Has
    <3>2. t = s => i + 1 = 1
      BY <1>2, <1>3, <3>1 DEF Once
    <3> QED
      BY <1>3, <3>1, <3>2 DEF Has
  <2>2. ASSUME t # s, Has(q, t) PROVE Has(r, t)
    <3>1. PICK i \in DOMAIN q : q[i] = t
      BY <2>2 DEF Has
    <3>2. i # 1
      BY <1>2, <2>2, <3>1
    <3> QED
      BY <1>4, <3>1, <3>2 DEF Has
  <2> QED
    BY <2>1, <2>2
<1> QED
  BY <1>1, <1>2, <1>5, <1>6 DEF Has

\* r is q without its place p.
Cut(r, q, p) ==
  /\ r \in Seq(Slots) /\ q \in Seq(Slots) /\ p \in 1..Len(q) /\ Len(r) = Len(q) - 1
  /\ \A i \in 1..Len(q) - 1 : r[i] = IF i < p THEN q[i] ELSE q[i + 1]

LEMMA UnlinkIs ==
  ASSUME NEW q \in Seq(Slots), Once(q), NEW s \in Slots, Has(q, s), NEW r, r = Unlink(q, s)
  PROVE  /\ r \in Seq(Slots) /\ Len(r) = Len(q) - 1 /\ Len(q) \in Nat
         /\ Once(r) /\ \A t : Has(r, t) <=> t # s /\ Has(q, t)
         /\ \E p : Cut(r, q, p) /\ q[p] = s
<1>1. Len(q) \in Nat /\ DOMAIN q = 1..Len(q)
  OBVIOUS
<1>2. PICK p : p = CHOOSE i \in DOMAIN q : q[i] = s
  OBVIOUS
<1>3. p \in 1..Len(q) /\ q[p] = s
  BY <1>1, <1>2 DEF Has
<1>4. /\ r \in Seq(Slots) /\ Len(r) = Len(q) - 1
      /\ \A i \in 1..Len(q) - 1 : r[i] = IF i < p THEN q[i] ELSE q[i + 1]
  <2>1. r = RemoveAt(q, p)
    BY <1>2 DEF Unlink
  <2>2. p \in 1..Len(q)
    BY <1>3
  <2> QED
    BY ONLY <2>1, <2>2, q \in Seq(Slots), RemoveAtIs
<1>5. DOMAIN r = 1..Len(q) - 1
  BY <1>4
<1>6. ASSUME NEW i \in DOMAIN r
      PROVE  \E j \in DOMAIN q : j # p /\ r[i] = q[j] /\ j = IF i < p THEN i ELSE i + 1
  <2>1. i \in 1..Len(q) - 1
    BY <1>5
  <2>2. CASE i < p
    BY <1>1, <1>3, <1>4, <2>1, <2>2
  <2>3. CASE ~(i < p)
    <3>1. i + 1 \in DOMAIN q /\ i + 1 # p /\ r[i] = q[i + 1]
      BY <1>1, <1>3, <1>4, <2>1, <2>3
    <3> QED
      BY <2>3, <3>1
  <2> QED
    BY <2>2, <2>3
<1>7. ASSUME NEW j \in DOMAIN q, j # p
      PROVE  \E i \in DOMAIN r : r[i] = q[j]
  <2>1. CASE j < p
    <3>1. j \in 1..Len(q) - 1
      BY <1>1, <1>3, <2>1
    <3> QED
      BY <1>4, <1>5, <2>1, <3>1
  <2>2. CASE ~(j < p)
    <3>1. j - 1 \in 1..Len(q) - 1 /\ ~(j - 1 < p) /\ (j - 1) + 1 = j
      BY <1>1, <1>3, <1>7, <2>2
    <3> QED
      BY <1>4, <1>5, <3>1
  <2> QED
    BY <2>1, <2>2
<1>8. Once(r)
  <2>1. ASSUME NEW i \in DOMAIN r, NEW k \in DOMAIN r, r[i] = r[k]
        PROVE  i = k
    <3>1. PICK a \in DOMAIN q : r[i] = q[a] /\ a = IF i < p THEN i ELSE i + 1
      BY <1>6
    <3>2. PICK b \in DOMAIN q : r[k] = q[b] /\ b = IF k < p THEN k ELSE k + 1
      BY <1>6
    <3>3. a = b
      BY <2>1, <3>1, <3>2 DEF Once
    <3>4. i \in Nat /\ k \in Nat /\ p \in Nat
      BY <1>1, <1>3, <1>5
    <3> QED
      BY <3>1, <3>2, <3>3, <3>4
  <2> QED
    BY <2>1 DEF Once
<1>9. ASSUME NEW t
      PROVE  Has(r, t) <=> t # s /\ Has(q, t)
  <2>1. ASSUME Has(r, t) PROVE t # s /\ Has(q, t)
    <3>1. PICK i \in DOMAIN r : r[i] = t
      BY <2>1 DEF Has
    <3>2. PICK j \in DOMAIN q : j # p /\ r[i] = q[j]
      BY <1>6
    <3>3. t # s
      BY <1>1, <1>3, <3>1, <3>2 DEF Once
    <3> QED
      BY <3>1, <3>2, <3>3 DEF Has
  <2>2. ASSUME t # s, Has(q, t) PROVE Has(r, t)
    <3>1. PICK j \in DOMAIN q : q[j] = t
      BY <2>2 DEF Has
    <3>2. j # p
      BY <1>3, <2>2, <3>1
    <3> QED
      BY <1>7, <3>1, <3>2 DEF Has
  <2> QED
    BY <2>1, <2>2
<1>10. Cut(r, q, p)
  BY <1>3, <1>4 DEF Cut
<1> QED
  BY <1>1, <1>3, <1>4, <1>8, <1>9, <1>10

\* Session s takes a free entry, or loses its entry: the others stay as they are.
Others(R, Q, s) == Q \in [Slots -> SessionRec] /\ \A t \in Slots : t # s => Q[t] = R[t]
\* Where name x has its place in the list l.
Between(R, l, p, x) ==
  /\ x \in Nat /\ p \in 1..Len(l) + 1
  /\ \A i \in 1..Len(l) : i < p => R[l[i]].name < x
  /\ \A i \in 1..Len(l) : p <= i => x < R[l[i]].name
\* Session s goes from the free list f to place p of the list l.
Gains(R, l, f, s, Q, p, r, g) ==
  /\ ListOK(R, l, f) /\ f # <<>> /\ s = Head(f) /\ Others(R, Q, s) /\ Q[s].status # "free"
  /\ Between(R, l, p, Q[s].name) /\ r = InsertAt(l, p, s) /\ g = Tail(f)

\* Sess_insert_new_session.
LEMMA ListInserts ==
  ASSUME NEW R, NEW sc, NEW n, ConnsOK(R, sc, n), NEW l, NEW f, NEW s, NEW Q, NEW p, NEW r, NEW g,
         Gains(R, l, f, s, Q, p, r, g)
  PROVE  ListOK(Q, r, g) /\ Used(Q) = Used(R) \cup {s} /\ s \in Slots /\ s \notin Used(R)
<1> ListOK(R, l, f) /\ f # <<>> /\ s = Head(f) /\ Others(R, Q, s) /\ Q[s].status # "free"
  BY DEF Gains
<1> Q[s].name \in Nat /\ p \in 1..Len(l) + 1 /\ r = InsertAt(l, p, s) /\ g = Tail(f)
  BY DEF Gains, Between
<1> /\ \A i \in 1..Len(l) : i < p => R[l[i]].name < Q[s].name
    /\ \A i \in 1..Len(l) : p <= i => Q[s].name < R[l[i]].name
  BY DEF Gains, Between
<1>1. l \in Seq(Slots) /\ f \in Seq(Slots) /\ Len(l) + Len(f) = MAX_SESSIONS /\ Once(f)
  BY DEF ListOK, Once
<1>2. \A t \in Slots : (t \in Used(R) <=> Has(l, t)) /\ (t \notin Used(R) <=> Has(f, t))
  BY DEF ListOK, Has
<1>3. /\ g \in Seq(Slots) /\ Len(g) = Len(f) - 1 /\ Len(f) \in Nat \ {0}
      /\ Once(g) /\ (\A t : Has(g, t) <=> t # s /\ Has(f, t))
      /\ s \in Slots /\ Has(f, s)
  BY <1>1, PopIs
<1>4. s \notin Used(R) /\ Used(R) \subseteq Slots
  BY <1>2, <1>3 DEF Used
<1>5. Used(Q) = Used(R) \cup {s}
  BY <1>3, <1>4 DEF Used, Others
<1>6. Len(l) \in Nat /\ DOMAIN l = 1..Len(l) /\ \A i \in 1..Len(l) : l[i] \in Slots /\ l[i] \in Used(R) /\ R[l[i]].name \in Nat
  BY ListNames
<1>7. /\ r \in Seq(Slots) /\ Len(r) = Len(l) + 1
      /\ \A i \in 1..Len(l) + 1 : r[i] = IF i < p THEN l[i] ELSE IF i = p THEN s ELSE l[i - 1]
  <2>1. Places(l, p, s, r)
    BY <1>1, <1>3 DEF Places
  <2> QED
    BY ONLY <2>1, InsertAtIs
<1>8. DOMAIN r = 1..Len(l) + 1 /\ p \in Nat
  BY <1>6, <1>7
<1>9. \A i \in 1..Len(l) : Q[l[i]].name = R[l[i]].name
  BY <1>4, <1>6 DEF Others
<1>10. ASSUME NEW i \in DOMAIN r
       PROVE  \/ i < p /\ i \in 1..Len(l) /\ r[i] = l[i]
              \/ i = p /\ r[i] = s
              \/ i > p /\ i - 1 \in 1..Len(l) /\ r[i] = l[i - 1] /\ p <= i - 1
  BY <1>6, <1>7, <1>8, SMTT(30)
<1>11. ASSUME NEW i \in DOMAIN r, NEW j \in DOMAIN r, i < j
       PROVE  Q[r[i]].name < Q[r[j]].name
  <2>1. i \in Nat /\ j \in Nat
    BY <1>6, <1>8
  <2>2. \A a, b \in 1..Len(l) : a < b => R[l[a]].name < R[l[b]].name
    BY <1>6 DEF ListOK
  <2>3. CASE j < p
    <3>1. i < p
      BY <1>8, <1>11, <2>1, <2>3
    <3>2. /\ i \in 1..Len(l) /\ r[i] = l[i]
          /\ j \in 1..Len(l) /\ r[j] = l[j]
      BY <1>10, <1>8, <2>1, <2>3, <3>1
    <3> QED
      BY <1>9, <1>11, <2>2, <3>2
  <2>4. CASE j = p
    <3>1. i < p /\ i \in 1..Len(l) /\ r[i] = l[i]
      BY <1>10, <1>8, <1>11, <2>1, <2>4
    <3>2. r[j] = s
      BY <1>10, <1>8, <2>1, <2>4
    <3> QED
      BY <1>9, <3>1, <3>2
  <2>5. CASE j > p
    <3>1. j - 1 \in 1..Len(l) /\ r[j] = l[j - 1] /\ p <= j - 1
      BY <1>10, <1>8, <2>1, <2>5
    <3>2. Q[r[j]].name = R[l[j - 1]].name /\ Q[s].name < R[l[j - 1]].name
      BY <1>9, <3>1
    <3>3. CASE i < p
      <4>1. i \in 1..Len(l) /\ r[i] = l[i] /\ i < j - 1
        BY ONLY <1>6, <1>10, <1>8, <2>1, <3>1, <3>3, i \in DOMAIN r
      <4> QED
        BY <1>9, <2>2, <3>1, <3>2, <4>1
    <3>4. CASE i = p
      <4>1. r[i] = s
        BY <1>10, <1>8, <2>1, <3>4
      <4> QED
        BY <3>2, <4>1
    <3>5. CASE i > p
      <4>1. i - 1 \in 1..Len(l) /\ r[i] = l[i - 1] /\ i - 1 < j - 1
        <5>1. ~(i < p) /\ i # p /\ i - 1 < j - 1
          BY <1>8, <1>11, <2>1, <3>5
        <5> QED
          BY <1>10, <5>1
      <4> QED
        BY <1>9, <2>2, <3>1, <3>2, <4>1
    <3> QED
      BY <1>8, <2>1, <3>3, <3>4, <3>5
  <2> QED
    BY <1>8, <2>1, <2>3, <2>4, <2>5
<1>12. \A t \in Slots : Has(r, t) <=> t = s \/ Has(l, t)
  <2>1. ASSUME NEW t \in Slots, Has(r, t) PROVE t = s \/ Has(l, t)
    <3>1. PICK i \in DOMAIN r : r[i] = t
      BY <2>1 DEF Has
    <3> QED
      BY <1>6, <1>10, <3>1 DEF Has
  <2>2. ASSUME NEW t \in Slots, Has(l, t) PROVE Has(r, t)
    <3>1. PICK i \in 1..Len(l) : l[i] = t
      BY <1>6, <2>2 DEF Has
    <3>2. CASE i < p
      <4>1. i \in DOMAIN r /\ r[i] = l[i]
        BY <1>6, <1>7, <1>8, <3>2
      <4> QED
        BY <3>1, <4>1 DEF Has
    <3>3. CASE ~(i < p)
      <4>1. i + 1 \in 1..Len(l) + 1 /\ ~(i + 1 < p) /\ i + 1 # p /\ i + 1 - 1 = i
        BY <1>6, <1>8, <3>3
      <4>2. i + 1 \in DOMAIN r /\ r[i + 1] = l[i]
        <5>1. PICK k : k = i + 1
          OBVIOUS
        <5>2. k \in 1..Len(l) + 1 /\ ~(k < p) /\ k # p /\ k - 1 = i
          BY <4>1, <5>1
        <5>3. r[k] = l[k - 1]
          BY ONLY <1>7, <5>2
        <5> QED
          BY <1>8, <5>1, <5>2, <5>3
      <4> QED
        BY <3>1, <4>2 DEF Has
    <3> QED
      BY <3>2, <3>3
  <2>3. Has(r, s)
    <3>1. p \in DOMAIN r /\ r[p] = s
      BY <1>7, <1>8
    <3> QED
      BY <3>1 DEF Has
  <2> QED
    BY <2>1, <2>2, <2>3
<1>13. Len(r) + Len(g) = MAX_SESSIONS
  <2>1. /\ Len(l) + Len(f) = MAX_SESSIONS /\ Len(l) \in Nat /\ Len(f) \in Nat
        /\ Len(g) = Len(f) - 1 /\ Len(r) = Len(l) + 1
    BY <1>1, <1>3, <1>6, <1>7
  <2> QED
    BY ONLY <2>1
<1>14. \A t \in Slots : (t \in Used(Q) <=> Has(r, t)) /\ (t \notin Used(Q) <=> Has(g, t))
  BY <1>2, <1>3, <1>5, <1>12
<1>15. ListOK(Q, r, g)
  BY <1>3, <1>7, <1>11, <1>13, <1>14 DEF ListOK, Has, Once
<1> QED
  BY <1>3, <1>4, <1>5, <1>15

\* Session s goes from the list l to the free list f.
Drops(R, l, f, s, Q, r, g) ==
  /\ ListOK(R, l, f) /\ s \in Used(R) /\ Others(R, Q, s) /\ Q[s].status = "free"
  /\ r = Unlink(l, s) /\ g = <<s>> \o f

\* Sess_remove_session.
LEMMA ListForgets ==
  ASSUME NEW R, NEW sc, NEW n, ConnsOK(R, sc, n), NEW l, NEW f, NEW s, NEW Q, NEW r, NEW g, Drops(R, l, f, s, Q, r, g)
  PROVE  ListOK(Q, r, g) /\ Used(Q) = Used(R) \ {s} /\ s \in Slots /\ g # <<>>
<1> /\ ListOK(R, l, f) /\ s \in Used(R) /\ Others(R, Q, s) /\ Q[s].status = "free"
    /\ r = Unlink(l, s) /\ g = <<s>> \o f
  BY DEF Drops
<1>1. l \in Seq(Slots) /\ f \in Seq(Slots) /\ Len(l) + Len(f) = MAX_SESSIONS /\ Once(f)
  BY DEF ListOK, Once
<1>2. \A t \in Slots : (t \in Used(R) <=> Has(l, t)) /\ (t \notin Used(R) <=> Has(f, t))
  BY DEF ListOK, Has
<1>3. s \in Slots /\ Used(R) \subseteq Slots /\ Has(l, s) /\ ~Has(f, s)
  BY <1>2 DEF Used
<1>4. Used(Q) = Used(R) \ {s}
  BY <1>3 DEF Used, Others
<1>5. /\ g \in Seq(Slots) /\ Len(g) = Len(f) + 1 /\ Len(f) \in Nat
      /\ Once(g) /\ \A t : Has(g, t) <=> t = s \/ Has(f, t)
  BY <1>1, <1>3, PushIs
<1>6. Len(l) \in Nat /\ DOMAIN l = 1..Len(l) /\ \A i \in 1..Len(l) : l[i] \in Slots /\ l[i] \in Used(R) /\ R[l[i]].name \in Nat
  BY ListNames
<1>7. Once(l)
  <2>1. \A a, b \in 1..Len(l) : a < b => R[l[a]].name < R[l[b]].name
    BY <1>6 DEF ListOK
  <2>2. ASSUME NEW a \in 1..Len(l), NEW b \in 1..Len(l), l[a] = l[b]
        PROVE  a = b
    <3>1. ~(a < b) /\ ~(b < a)
      BY <1>6, <2>1, <2>2
    <3> QED
      BY <1>6, <3>1
  <2> QED
    BY <1>6, <2>2 DEF Once
<1>8. /\ r \in Seq(Slots) /\ Len(r) = Len(l) - 1
      /\ \A t : Has(r, t) <=> t # s /\ Has(l, t)
      /\ \E p : Cut(r, l, p)
  BY <1>1, <1>3, <1>7, UnlinkIs
<1>9. PICK p : Cut(r, l, p)
  BY <1>8
<1>10. p \in 1..Len(l) /\ DOMAIN r = 1..Len(l) - 1 /\ \A i \in 1..Len(l) - 1 : r[i] = IF i < p THEN l[i] ELSE l[i + 1]
  BY <1>8, <1>9 DEF Cut
<1>11. \A i \in DOMAIN r : Q[r[i]].name = R[r[i]].name
  <2>1. \A i \in DOMAIN r : r[i] \in Slots /\ r[i] # s
    <3>1. \A i \in DOMAIN r : r[i] \in Slots
      BY <1>8
    <3>2. \A i \in DOMAIN r : Has(r, r[i])
      BY DEF Has
    <3> QED
      BY <1>8, <3>1, <3>2
  <2> QED
    BY <2>1 DEF Others
<1>12. ASSUME NEW i \in DOMAIN r, NEW j \in DOMAIN r, i < j
       PROVE  Q[r[i]].name < Q[r[j]].name
  <2>1. \A k \in DOMAIN r : \E a \in 1..Len(l) : a = (IF k < p THEN k ELSE k + 1) /\ r[k] = l[a]
    <3>1. ASSUME NEW k \in DOMAIN r
          PROVE  \E a \in 1..Len(l) : a = (IF k < p THEN k ELSE k + 1) /\ r[k] = l[a]
      <4>1. k \in 1..Len(l) /\ k + 1 \in 1..Len(l)
        BY <1>6, <1>10
      <4> QED
        BY <1>10, <4>1
    <3> QED
      BY <3>1
  <2>2. PICK a \in 1..Len(l) : a = (IF i < p THEN i ELSE i + 1) /\ r[i] = l[a]
    BY <2>1
  <2>3. PICK b \in 1..Len(l) : b = (IF j < p THEN j ELSE j + 1) /\ r[j] = l[b]
    BY <2>1
  <2>4. a < b
    <3>1. i \in Nat /\ j \in Nat /\ p \in Nat
      BY <1>6, <1>10
    <3> QED
      BY ONLY <3>1, <1>12, <2>2, <2>3
  <2>5. R[l[a]].name < R[l[b]].name
    BY <1>6, <2>4 DEF ListOK
  <2> QED
    BY <1>11, <2>2, <2>3, <2>5
<1>13. Len(r) + Len(g) = MAX_SESSIONS
  BY <1>1, <1>5, <1>6, <1>8
<1>14. \A t \in Slots : (t \in Used(Q) <=> Has(r, t)) /\ (t \notin Used(Q) <=> Has(g, t))
  BY <1>2, <1>3, <1>4, <1>5, <1>8
<1>15. ListOK(Q, r, g)
  BY <1>5, <1>8, <1>12, <1>13, <1>14 DEF ListOK, Has, Once
<1>16. g # <<>>
  BY <1>5
<1> QED
  BY <1>3, <1>4, <1>15, <1>16

\* Sess_hash_session: the new session comes first in its chain.
LEMMA HashInserts ==
  ASSUME NEW R, NEW h, HashOK(R, h), NEW sc, NEW n, ConnsOK(R, sc, n), NEW s \in Slots, s \notin Used(R),
         NEW Q, Others(R, Q, s), Used(Q) = Used(R) \cup {s}, NEW m \in Mboxes, Q[s].mbox = m,
         \A t \in Alive(R) : R[t].mbox # m, NEW k, k = [h EXCEPT ![m] = <<s>> \o @]
  PROVE  HashOK(Q, k)
<1>1. /\ h \in [Mboxes -> Seq(Slots)] /\ \A a \in Mboxes : Once(h[a])
      /\ \A a \in Mboxes : \A t \in Slots : (t \in Used(R) /\ R[t].mbox = a) <=> Has(h[a], t)
      /\ \A t \in Alive(R) : h[R[t].mbox][1] = t
  BY DEF HashOK, Once, Has
<1>2. PICK r : r = <<s>> \o h[m]
  OBVIOUS
<1>3. /\ r \in Seq(Slots) /\ r[1] = s
      /\ Once(r) /\ \A t : Has(r, t) <=> t = s \/ Has(h[m], t)
  <2>1. h[m] \in Seq(Slots) /\ Once(h[m]) /\ ~Has(h[m], s)
    BY <1>1
  <2> QED
    <3>1. PICK q : q = h[m]
      OBVIOUS
    <3>2. q \in Seq(Slots) /\ Once(q) /\ ~Has(q, s) /\ r = <<s>> \o q
      BY <1>2, <2>1, <3>1
    <3>3. /\ r \in Seq(Slots) /\ Len(r) = Len(q) + 1 /\ Len(q) \in Nat /\ r[1] = s
          /\ Once(r) /\ \A t : Has(r, t) <=> t = s \/ Has(q, t)
      BY ONLY <3>2, s \in Slots, PushIs
    <3> QED
      BY <3>1, <3>3
<1>4. k \in [Mboxes -> Seq(Slots)] /\ k[m] = r /\ \A a \in Mboxes : a # m => k[a] = h[a]
  BY <1>1, <1>2, <1>3
<1>5. ASSUME NEW a \in Mboxes
      PROVE  Once(k[a]) /\ \A t \in Slots : (t \in Used(Q) /\ Q[t].mbox = a) <=> Has(k[a], t)
  <2>1. CASE a = m
    <3>1. k[a] = r
      BY <1>4, <2>1
    <3>2. ASSUME NEW t \in Slots
          PROVE  (t \in Used(Q) /\ Q[t].mbox = a) <=> Has(r, t)
      <4>1. CASE t = s
        BY <1>3, <2>1, <4>1
      <4>2. CASE t # s
        <5>1. Q[t] = R[t]
          BY <4>2 DEF Others
        <5> QED
          BY <1>1, <1>3, <2>1, <4>2, <5>1
      <4> QED
        BY <4>1, <4>2
    <3> QED
      BY <1>3, <3>1, <3>2
  <2>2. CASE a # m
    <3>1. k[a] = h[a]
      BY <1>4, <2>2
    <3>2. ASSUME NEW t \in Slots
          PROVE  (t \in Used(Q) /\ Q[t].mbox = a) <=> Has(h[a], t)
      <4>1. CASE t = s
        BY <1>1, <2>2, <4>1
      <4>2. CASE t # s
        <5>1. Q[t] = R[t]
          BY <4>2 DEF Others
        <5> QED
          BY <1>1, <4>2, <5>1
      <4> QED
        BY <4>1, <4>2
    <3> QED
      BY <1>1, <3>1, <3>2
  <2> QED
    BY <2>1, <2>2
<1>6. ASSUME NEW t \in Alive(Q)
      PROVE  k[Q[t].mbox][1] = t
  <2>1. t \in Slots
    BY DEF Alive
  <2>2. CASE t = s
    BY <1>3, <1>4, <2>2
  <2>3. CASE t # s
    <3>1. Q[t] = R[t]
      BY <2>1, <2>3 DEF Others
    <3>2. t \in Alive(R) /\ t \in Used(R)
      BY <3>1 DEF Alive, Used
    <3>3. R[t].mbox # m /\ R[t].mbox \in Mboxes
      BY <3>2 DEF ConnsOK
    <3> QED
      BY <1>1, <1>4, <3>1, <3>2, <3>3
  <2> QED
    BY <2>2, <2>3
<1> QED
  BY <1>4, <1>5, <1>6 DEF HashOK, Once, Has

\* Sess_unhash_session.
LEMMA HashForgets ==
  ASSUME NEW R, NEW h, HashOK(R, h), NEW sc, NEW n, ConnsOK(R, sc, n), NEW s \in Used(R),
         NEW Q, Others(R, Q, s), Q[s].status = "free", Used(Q) = Used(R) \ {s},
         NEW k, k = [h EXCEPT ![R[s].mbox] = Unlink(@, s)]
  PROVE  HashOK(Q, k)
<1>1. /\ h \in [Mboxes -> Seq(Slots)] /\ \A a \in Mboxes : Once(h[a])
      /\ \A a \in Mboxes : \A t \in Slots : (t \in Used(R) /\ R[t].mbox = a) <=> Has(h[a], t)
      /\ \A t \in Alive(R) : h[R[t].mbox][1] = t
  BY DEF HashOK, Once, Has
<1>2. PICK m \in Mboxes : m = R[s].mbox
  BY DEF ConnsOK
<1>3. s \in Slots /\ Has(h[m], s)
  BY <1>1, <1>2 DEF Used
<1>4. PICK r : r = Unlink(h[m], s)
  OBVIOUS
<1>5. /\ r \in Seq(Slots) /\ Len(r) = Len(h[m]) - 1 /\ Len(h[m]) \in Nat
      /\ Once(r) /\ (\A t : Has(r, t) <=> t # s /\ Has(h[m], t))
      /\ \E p : Cut(r, h[m], p) /\ h[m][p] = s
  <2>1. h[m] \in Seq(Slots) /\ Once(h[m])
    BY <1>1
  <2> QED
    BY ONLY <2>1, <1>3, <1>4, UnlinkIs
<1>6. k \in [Mboxes -> Seq(Slots)] /\ k[m] = r /\ \A a \in Mboxes : a # m => k[a] = h[a]
  BY <1>1, <1>2, <1>4, <1>5
<1>7. ASSUME NEW a \in Mboxes
      PROVE  Once(k[a]) /\ \A t \in Slots : (t \in Used(Q) /\ Q[t].mbox = a) <=> Has(k[a], t)
  <2>1. CASE a = m
    <3>1. k[a] = r
      BY <1>6, <2>1
    <3>2. ASSUME NEW t \in Slots
          PROVE  (t \in Used(Q) /\ Q[t].mbox = a) <=> Has(r, t)
      <4>1. CASE t = s
        BY <1>5, <4>1
      <4>2. CASE t # s
        <5>1. Q[t] = R[t]
          BY <4>2 DEF Others
        <5> QED
          BY <1>1, <1>5, <2>1, <4>2, <5>1
      <4> QED
        BY <4>1, <4>2
    <3> QED
      BY <1>5, <3>1, <3>2
  <2>2. CASE a # m
    <3>1. k[a] = h[a]
      BY <1>6, <2>2
    <3>2. ASSUME NEW t \in Slots
          PROVE  (t \in Used(Q) /\ Q[t].mbox = a) <=> Has(h[a], t)
      <4>1. CASE t = s
        BY <1>1, <1>2, <2>2, <4>1
      <4>2. CASE t # s
        <5>1. Q[t] = R[t]
          BY <4>2 DEF Others
        <5> QED
          BY <1>1, <4>2, <5>1
      <4> QED
        BY <4>1, <4>2
    <3> QED
      BY <1>1, <3>1, <3>2
  <2> QED
    BY <2>1, <2>2
<1>8. ASSUME NEW t \in Alive(Q)
      PROVE  k[Q[t].mbox][1] = t
  <2>1. t \in Slots /\ t # s
    BY DEF Alive
  <2>2. Q[t] = R[t]
    BY <2>1 DEF Others
  <2>3. t \in Alive(R) /\ t \in Used(R)
    BY <2>2 DEF Alive, Used
  <2>4. R[t].mbox \in Mboxes
    BY <2>3 DEF ConnsOK
  <2>5. CASE R[t].mbox # m
    BY <1>1, <1>6, <2>2, <2>3, <2>4, <2>5
  <2>6. CASE R[t].mbox = m
    <3>1. PICK p : Cut(r, h[m], p) /\ h[m][p] = s
      BY <1>5
    <3>2. h[m][1] = t
      BY <1>1, <2>3, <2>6
    <3>3. /\ p \in 1..Len(h[m]) /\ Len(h[m]) \in Nat /\ p # 1
          /\ \A i \in 1..Len(h[m]) - 1 : r[i] = IF i < p THEN h[m][i] ELSE h[m][i + 1]
      BY <1>5, <2>1, <3>1, <3>2 DEF Cut
    <3>4. 1 \in 1..Len(h[m]) - 1 /\ 1 < p
      BY ONLY <3>3
    <3>5. r[1] = h[m][1]
      BY <3>3, <3>4
    <3> QED
      BY <1>6, <2>2, <2>6, <3>2, <3>5
  <2> QED
    BY <2>5, <2>6
<1> QED
  BY <1>6, <1>7, <1>8 DEF HashOK, Once, Has

--------------------------------------------------------------------------------
(* The mailboxes of a group and its members *)

\* f names the member that each mailbox of q is of.
Match(R, M, q, f) ==
  /\ f \in [DOMAIN q -> M]
  /\ \A i, j \in DOMAIN q : f[i] = f[j] => i = j
  /\ \A name \in M : \E i \in DOMAIN q : f[i] = name
  /\ \A i \in DOMAIN q : \E s \in Known(R) : R[s].name = f[i] /\ R[s].mbox = q[i]

LEMMA GroupsMatch ==
  ASSUME NEW R, NEW mem, NEW box
  PROVE  GroupsOK(R, mem, box) <=> /\ mem \in [GroupNames -> SUBSET Names] /\ box \in [GroupNames -> Seq(Mboxes)]
                                   /\ \A g \in GroupNames : \E f : Match(R, mem[g], box[g], f)
  BY DEF GroupsOK, Match

\* Each name is one session's.
NamesDiffer(R) == \A s, t \in Used(R) : R[s].name = R[t].name => s = t

LEMMA NamesAreDifferent ==
  ASSUME NEW R, NEW l, NEW f, ListOK(R, l, f), NEW sc, NEW n, ConnsOK(R, sc, n)
  PROVE  NamesDiffer(R)
<1>1. Len(l) \in Nat /\ DOMAIN l = 1..Len(l) /\ \A i \in 1..Len(l) : R[l[i]].name \in Nat
  BY ListNames
<1>2. ASSUME NEW s \in Used(R), NEW t \in Used(R), R[s].name = R[t].name
      PROVE  s = t
  <2>1. PICK i \in 1..Len(l) : l[i] = s
    BY <1>1 DEF ListOK, Used
  <2>2. PICK j \in 1..Len(l) : l[j] = t
    BY <1>1 DEF ListOK, Used
  <2>3. /\ i < j => R[l[i]].name < R[l[j]].name
        /\ j < i => R[l[j]].name < R[l[i]].name
    BY <1>1 DEF ListOK
  <2>4. ~(i < j) /\ ~(j < i)
    BY <1>1, <1>2, <2>1, <2>2, <2>3
  <2>5. i = j
    BY <1>1, <2>4
  <2> QED
    BY <2>1, <2>2, <2>5
<1> QED
  BY <1>2 DEF NamesDiffer

\* The mailbox of a member is one of its group's.
LEMMA MemberHasMailbox ==
  ASSUME NEW R, NamesDiffer(R), NEW M, NEW q, NEW f, Match(R, M, q, f), NEW s \in Used(R), R[s].name \in M
  PROVE  \E i \in DOMAIN q : q[i] = R[s].mbox /\ f[i] = R[s].name
<1>1. PICK i \in DOMAIN q : f[i] = R[s].name
  BY DEF Match
<1>2. PICK t \in Known(R) : R[t].name = f[i] /\ R[t].mbox = q[i]
  BY DEF Match
<1>3. t \in Used(R)
  BY DEF Known, Used
<1>4. t = s
  BY <1>1, <1>2, <1>3 DEF NamesDiffer
<1> QED
  BY <1>1, <1>2, <1>4

\* G_handle_join: the mailbox of the new member comes last.
LEMMA MatchJoin ==
  ASSUME NEW R, NEW M, NEW q \in Seq(Mboxes), NEW f, Match(R, M, q, f), NEW s \in Known(R), R[s].name \notin M,
         R[s].mbox \in Mboxes
  PROVE  \E h : Match(R, M \cup {R[s].name}, Append(q, R[s].mbox), h)
<1>1. PICK r : r = Append(q, R[s].mbox)
  OBVIOUS
<1>2. PICK L : L = Len(q) + 1
  OBVIOUS
<1>3. /\ L \in Nat /\ DOMAIN q = 1..L - 1 /\ DOMAIN r = 1..L /\ r[L] = R[s].mbox /\ \A i \in DOMAIN q : r[i] = q[i]
      /\ L \notin DOMAIN q /\ DOMAIN r = DOMAIN q \cup {L}
  BY <1>1, <1>2
<1> DEFINE N == M \cup {R[s].name}
           h == [i \in DOMAIN r |-> IF i = L THEN R[s].name ELSE f[i]]
<1>4. /\ f \in [DOMAIN q -> M]
      /\ \A i, j \in DOMAIN q : f[i] = f[j] => i = j
      /\ \A name \in M : \E i \in DOMAIN q : f[i] = name
      /\ \A i \in DOMAIN q : \E t \in Known(R) : R[t].name = f[i] /\ R[t].mbox = q[i]
  BY DEF Match
<1>5. h \in [DOMAIN r -> N] /\ h[L] = R[s].name /\ \A i \in DOMAIN q : h[i] = f[i]
  BY <1>3, <1>4
<1> HIDE DEF h
<1>6. \A i, j \in DOMAIN r : h[i] = h[j] => i = j
  <2>1. \A i \in DOMAIN q : h[i] # h[L]
    BY <1>4, <1>5
  <2> QED
    BY <1>3, <1>4, <1>5, <2>1
<1>7. ASSUME NEW name \in N
      PROVE  \E i \in DOMAIN r : h[i] = name
  <2>1. CASE name = R[s].name
    BY <1>3, <1>5, <2>1
  <2>2. CASE name # R[s].name
    <3>1. PICK i \in DOMAIN q : f[i] = name
      BY <1>4, <2>2
    <3>2. i \in DOMAIN r /\ h[i] = name
      BY <1>3, <1>5, <3>1
    <3> QED
      BY <3>2
  <2> QED
    BY <2>1, <2>2
<1>8. \A i \in DOMAIN r : \E t \in Known(R) : R[t].name = h[i] /\ R[t].mbox = r[i]
  BY <1>3, <1>4, <1>5
<1>9. Match(R, N, r, h)
  BY <1>5, <1>6, <1>7, <1>8 DEF Match
<1> QED
  BY <1>1, <1>9

\* Members with the same mailbox are as good as each other.
LEMMA MatchSwap ==
  ASSUME NEW R, NamesDiffer(R), NEW M, NEW q, NEW f, Match(R, M, q, f), NEW s \in Used(R), R[s].name \in M,
         NEW a \in DOMAIN q, q[a] = R[s].mbox
  PROVE  \E h : Match(R, M, q, h) /\ h[a] = R[s].name
<1>1. PICK b \in DOMAIN q : q[b] = R[s].mbox /\ f[b] = R[s].name
  BY MemberHasMailbox
<1>2. /\ f \in [DOMAIN q -> M]
      /\ \A i, j \in DOMAIN q : f[i] = f[j] => i = j
      /\ \A name \in M : \E i \in DOMAIN q : f[i] = name
      /\ \A i \in DOMAIN q : \E t \in Known(R) : R[t].name = f[i] /\ R[t].mbox = q[i]
  BY DEF Match
<1> DEFINE h == [i \in DOMAIN q |-> IF i = a THEN f[b] ELSE IF i = b THEN f[a] ELSE f[i]]
<1>3. /\ h \in [DOMAIN q -> M] /\ h[a] = f[b] /\ (a # b => h[b] = f[a])
      /\ \A i \in DOMAIN q : i # a /\ i # b => h[i] = f[i]
  BY <1>1, <1>2
<1>4. h[b] = f[a]
  BY <1>1, <1>3
<1> HIDE DEF h
<1>5. \A i, j \in DOMAIN q : h[i] = h[j] => i = j
  BY <1>1, <1>2, <1>3, <1>4
<1>6. ASSUME NEW name \in M
      PROVE  \E i \in DOMAIN q : h[i] = name
  <2>1. PICK i \in DOMAIN q : f[i] = name
    BY <1>2
  <2> QED
    BY <1>1, <1>3, <1>4, <2>1
<1>7. ASSUME NEW i \in DOMAIN q
      PROVE  \E t \in Known(R) : R[t].name = h[i] /\ R[t].mbox = q[i]
  <2>1. CASE i = a
    BY <1>1, <1>2, <1>3, <2>1
  <2>2. CASE i = b
    BY <1>1, <1>2, <1>4, <2>2
  <2>3. CASE i # a /\ i # b
    BY <1>2, <1>3, <2>3
  <2> QED
    BY <2>1, <2>2, <2>3
<1>8. Match(R, M, q, h)
  BY <1>3, <1>5, <1>6, <1>7 DEF Match
<1> QED
  BY <1>1, <1>3, <1>8

\* G_remove_mailbox.
LEMMA MatchLeave ==
  ASSUME NEW R, NamesDiffer(R), NEW M, NEW q \in Seq(Mboxes), NEW g, Match(R, M, q, g), NEW s \in Used(R),
         R[s].name \in M
  PROVE  /\ Without(q, R[s].mbox) \in Seq(Mboxes)
         /\ \E h : Match(R, M \ {R[s].name}, Without(q, R[s].mbox), h)
<1>1. PICK a : a = CHOOSE i \in DOMAIN q : q[i] = R[s].mbox
  OBVIOUS
<1>2. a \in DOMAIN q /\ q[a] = R[s].mbox
  BY <1>1, MemberHasMailbox
<1>3. PICK f : Match(R, M, q, f) /\ f[a] = R[s].name
  BY <1>2, MatchSwap
<1>4. /\ f \in [DOMAIN q -> M]
      /\ \A i, j \in DOMAIN q : f[i] = f[j] => i = j
      /\ \A name \in M : \E i \in DOMAIN q : f[i] = name
      /\ \A i \in DOMAIN q : \E t \in Known(R) : R[t].name = f[i] /\ R[t].mbox = q[i]
  BY <1>3 DEF Match
<1>5. PICK L : L = Len(q)
  OBVIOUS
<1>6. L \in Nat /\ DOMAIN q = 1..L /\ a \in 1..L /\ \A i \in 1..L : q[i] \in Mboxes
  BY <1>2, <1>5
<1>7. L \in 1..L
  BY <1>6
<1>8. PICK v : v = [q EXCEPT ![a] = q[L]]
  OBVIOUS
<1>9. v \in Seq(Mboxes) /\ Len(v) = L /\ \A i \in 1..L : v[i] = IF i = a THEN q[L] ELSE q[i]
  BY <1>5, <1>6, <1>7, <1>8
<1>10. PICK r : r = Without(q, R[s].mbox)
  OBVIOUS
<1>11. /\ r \in Seq(Mboxes) /\ DOMAIN r = 1..L - 1
       /\ \A i \in 1..L - 1 : r[i] = IF i = a THEN q[L] ELSE q[i]
  <2>1. r = SubSeq(v, 1, L - 1)
    <3>1. r = Front([q EXCEPT ![a] = Last(q)])
      BY <1>1, <1>10 DEF Without
    <3>2. r = Front(v)
      BY <1>5, <1>8, <3>1 DEF Last
    <3> QED
      BY <1>9, <3>2 DEF Front
  <2>2. r \in Seq(Mboxes) /\ Len(r) = L - 1 /\ \A i \in 1..L - 1 : r[i] = v[i]
    BY <1>6, <1>7, <1>9, <2>1
  <2>3. \A i \in 1..L - 1 : i \in 1..L
    BY <1>6
  <2> QED
    BY <1>6, <1>9, <2>2, <2>3
<1> DEFINE N == M \ {R[s].name}
           h == [i \in 1..L - 1 |-> IF i = a THEN f[L] ELSE f[i]]
<1>12. \A i \in 1..L - 1 : i \in 1..L /\ i # L
  BY <1>6
<1>13. \A i \in 1..L : i # L => i \in 1..L - 1
  BY <1>6
<1>14. \A i \in 1..L : i # a => f[i] \in N
  BY <1>3, <1>4, <1>6
<1>15. \A i \in 1..L - 1 : h[i] = IF i = a THEN f[L] ELSE f[i]
  OBVIOUS
<1>16. h \in [1..L - 1 -> N]
  <2>1. \A i \in 1..L - 1 : (IF i = a THEN f[L] ELSE f[i]) \in N
    BY <1>7, <1>12, <1>14
  <2> QED
    BY <2>1
<1> HIDE DEF h
<1>17. ASSUME NEW i \in 1..L - 1, NEW j \in 1..L - 1, h[i] = h[j]
       PROVE  i = j
  BY <1>4, <1>6, <1>7, <1>12, <1>15, <1>17
<1>18. ASSUME NEW name \in N
       PROVE  \E i \in 1..L - 1 : h[i] = name
  <2>1. PICK i \in 1..L : f[i] = name
    BY <1>4, <1>6
  <2>2. i # a
    BY <1>3, <2>1
  <2>3. CASE i = L
    <3>1. a \in 1..L - 1
      BY <1>6, <1>13, <2>2, <2>3
    <3> QED
      BY <1>15, <2>1, <2>3, <3>1
  <2>4. CASE i # L
    BY <1>13, <1>15, <2>1, <2>2, <2>4
  <2> QED
    BY <2>3, <2>4
<1>19. ASSUME NEW i \in 1..L - 1
       PROVE  \E t \in Known(R) : R[t].name = h[i] /\ R[t].mbox = r[i]
  <2>1. CASE i = a
    <3>1. h[i] = f[L] /\ r[i] = q[L]
      BY <1>11, <1>15, <2>1
    <3> QED
      BY <1>4, <1>6, <1>7, <3>1
  <2>2. CASE i # a
    <3>1. h[i] = f[i] /\ r[i] = q[i]
      BY <1>11, <1>15, <2>2
    <3> QED
      BY <1>4, <1>6, <1>12, <3>1
  <2> QED
    BY <2>1, <2>2
<1>20. Match(R, N, r, h)
  BY <1>11, <1>16, <1>17, <1>18, <1>19 DEF Match
<1> QED
  BY <1>10, <1>11, <1>20

LEMMA GroupsKeep ==
  ASSUME NEW R, NEW Q, NEW mem, NEW box, GroupsOK(R, mem, box),
         \A t \in Known(R) : (\E g \in GroupNames : R[t].name \in mem[g]) =>
            t \in Known(Q) /\ Q[t].name = R[t].name /\ Q[t].mbox = R[t].mbox
  PROVE  GroupsOK(Q, mem, box)
<1>1. /\ mem \in [GroupNames -> SUBSET Names] /\ box \in [GroupNames -> Seq(Mboxes)]
      /\ \A g \in GroupNames : \E f : Match(R, mem[g], box[g], f)
  BY GroupsMatch
<1>2. ASSUME NEW g \in GroupNames
      PROVE  \E f : Match(Q, mem[g], box[g], f)
  <2>1. PICK f : Match(R, mem[g], box[g], f)
    BY <1>1
  <2>2. ASSUME NEW i \in DOMAIN box[g]
        PROVE  \E t \in Known(Q) : Q[t].name = f[i] /\ Q[t].mbox = box[g][i]
    <3>1. PICK t \in Known(R) : R[t].name = f[i] /\ R[t].mbox = box[g][i]
      BY <2>1 DEF Match
    <3>2. f[i] \in mem[g]
      BY <2>1 DEF Match
    <3> QED
      BY <3>1, <3>2
  <2>3. Match(Q, mem[g], box[g], f)
    BY <2>1, <2>2 DEF Match
  <2> QED
    BY <2>3
<1> QED
  BY <1>1, <1>2, GroupsMatch

LEMMA GroupsJoin ==
  ASSUME NEW R, NEW mem, NEW box, GroupsOK(R, mem, box), NEW g \in GroupNames, NEW s \in Known(R),
         R[s].name \in Names, R[s].name \notin mem[g], R[s].mbox \in Mboxes,
         NEW mem2, mem2 = [mem EXCEPT ![g] = @ \cup {R[s].name}],
         NEW box2, box2 = [box EXCEPT ![g] = Append(@, R[s].mbox)]
  PROVE  GroupsOK(R, mem2, box2)
<1>1. /\ mem \in [GroupNames -> SUBSET Names] /\ box \in [GroupNames -> Seq(Mboxes)]
      /\ \A h \in GroupNames : \E f : Match(R, mem[h], box[h], f)
  BY GroupsMatch
<1>2. mem2 \in [GroupNames -> SUBSET Names] /\ mem2[g] = mem[g] \cup {R[s].name} /\ \A h \in GroupNames : h # g => mem2[h] = mem[h]
  BY <1>1
<1>3. box[g] \in Seq(Mboxes)
  BY <1>1
<1>4. Append(box[g], R[s].mbox) \in Seq(Mboxes)
  BY <1>3
<1>5. box2 \in [GroupNames -> Seq(Mboxes)] /\ box2[g] = Append(box[g], R[s].mbox) /\ \A h \in GroupNames : h # g => box2[h] = box[h]
  BY <1>1, <1>4
<1>6. \E f : Match(R, mem2[g], box2[g], f)
  <2>1. PICK f : Match(R, mem[g], box[g], f)
    BY <1>1
  <2>2. \E h : Match(R, mem[g] \cup {R[s].name}, Append(box[g], R[s].mbox), h)
    BY <1>3, <2>1, MatchJoin
  <2> QED
    BY <1>2, <1>5, <2>2
<1>7. \A h \in GroupNames : \E f : Match(R, mem2[h], box2[h], f)
  BY <1>1, <1>2, <1>5, <1>6
<1> QED
  BY <1>2, <1>5, <1>7, GroupsMatch

\* The groups gs lose session s.
LEMMA GroupsLose ==
  ASSUME NEW R, NamesDiffer(R), NEW mem, NEW box, GroupsOK(R, mem, box), NEW s \in Used(R),
         NEW gs, \A g \in gs : g \in GroupNames /\ R[s].name \in mem[g],
         NEW mem2, mem2 = [g \in GroupNames |-> mem[g] \ IF g \in gs THEN {R[s].name} ELSE {}],
         NEW box2, box2 = [g \in GroupNames |-> IF g \in gs THEN Without(box[g], R[s].mbox) ELSE box[g]]
  PROVE  GroupsOK(R, mem2, box2)
<1>1. /\ mem \in [GroupNames -> SUBSET Names] /\ box \in [GroupNames -> Seq(Mboxes)]
      /\ \A h \in GroupNames : \E f : Match(R, mem[h], box[h], f)
  BY GroupsMatch
<1>2. ASSUME NEW g \in GroupNames
      PROVE  mem2[g] \in SUBSET Names /\ box2[g] \in Seq(Mboxes) /\ \E h : Match(R, mem2[g], box2[g], h)
  <2>1. PICK f : Match(R, mem[g], box[g], f)
    BY <1>1
  <2>2. mem[g] \in SUBSET Names /\ box[g] \in Seq(Mboxes)
    BY <1>1
  <2>3. CASE g \in gs
    <3>1. /\ Without(box[g], R[s].mbox) \in Seq(Mboxes)
          /\ \E h : Match(R, mem[g] \ {R[s].name}, Without(box[g], R[s].mbox), h)
      BY <2>1, <2>2, <2>3, MatchLeave
    <3>2. mem2[g] = mem[g] \ {R[s].name} /\ box2[g] = Without(box[g], R[s].mbox)
      BY <2>3
    <3> QED
      BY <2>2, <3>1, <3>2
  <2>4. CASE g \notin gs
    <3>1. mem2[g] = mem[g] /\ box2[g] = box[g]
      BY <2>4
    <3> QED
      BY <2>1, <2>2, <3>1
  <2> QED
    BY <2>3, <2>4
<1>3. mem2 \in [GroupNames -> SUBSET Names] /\ box2 \in [GroupNames -> Seq(Mboxes)]
  BY <1>2
<1> QED
  BY <1>2, <1>3, GroupsMatch

\* What the guards of the handlers look up is there.
LEMMA MemberIn ==
  ASSUME NamesDiffer(S), GroupsOK(S, members, mboxes), NEW s \in Used(S), NEW g \in GroupNames, S[s].name \in members[g]
  PROVE  In(g, S[s].mbox)
<1>1. PICK f : Match(S, members[g], mboxes[g], f)
  BY GroupsMatch
<1> QED
  BY <1>1, MemberHasMailbox DEF In

--------------------------------------------------------------------------------
(* Packets on their way *)

\* gl is fl with packet p at place q.
Joins(fl, gl, p, q) ==
  /\ fl \in Seq(PacketSet) /\ gl \in Seq(PacketSet) /\ q \in 1..Len(fl) + 1 /\ Len(gl) = Len(fl) + 1
  /\ \A i \in 1..Len(fl) + 1 : gl[i] = IF i < q THEN fl[i] ELSE IF i = q THEN p ELSE fl[i - 1]

\* A client submits a packet (Sess_read), or another daemon sends one.
LEMMA FlightInsert ==
  ASSUME NEW R, NEW fl, FlightOK(R, fl, 0), NEW p \in PacketSet, p.kind # "kill", p.group \in GroupNames,
         p.kind # "data" => \E s \in Known(R) : R[s].conn = p.conn /\ R[s].name = p.name,
         \A i \in DOMAIN fl : fl[i].kind = "kill" => fl[i].conn # p.conn,
         NEW gl, NEW q, Joins(fl, gl, p, q)
  PROVE  FlightOK(R, gl, 0)
<1>1. /\ fl \in Seq(PacketSet) /\ gl \in Seq(PacketSet) /\ q \in 1..Len(fl) + 1 /\ Len(gl) = Len(fl) + 1
      /\ \A i \in 1..Len(fl) + 1 : gl[i] = IF i < q THEN fl[i] ELSE IF i = q THEN p ELSE fl[i - 1]
  BY DEF Joins
<1>2. Len(fl) \in Nat /\ DOMAIN fl = 1..Len(fl) /\ DOMAIN gl = 1..Len(fl) + 1 /\ q \in Nat
  BY <1>1
<1>3. ASSUME NEW i \in DOMAIN gl, i # q
      PROVE  \E a \in DOMAIN fl : gl[i] = fl[a] /\ a = IF i < q THEN i ELSE i - 1
  <2>1. CASE i < q
    <3>1. i \in DOMAIN fl
      BY <1>1, <1>2, <2>1
    <3> QED
      BY <1>1, <1>2, <2>1, <3>1
  <2>2. CASE ~(i < q)
    <3>1. i - 1 \in DOMAIN fl
      BY <1>1, <1>2, <1>3, <2>2
    <3>2. gl[i] = fl[i - 1]
      BY <1>1, <1>2, <1>3, <2>2
    <3> QED
      BY <2>2, <3>1, <3>2
  <2> QED
    BY <2>1, <2>2
<1>4. q \in DOMAIN gl /\ gl[q] = p
  BY <1>1, <1>2
<1>5. ASSUME NEW a \in DOMAIN fl
      PROVE  \E i \in DOMAIN gl : gl[i] = fl[a]
  <2>1. CASE a < q
    <3>1. a \in 1..Len(fl) + 1
      BY <1>2
    <3> QED
      BY <1>1, <1>2, <2>1, <3>1
  <2>2. CASE ~(a < q)
    <3>1. PICK i : i = a + 1
      OBVIOUS
    <3>2. i \in 1..Len(fl) + 1 /\ ~(i < q) /\ i # q /\ i - 1 = a
      BY <1>2, <2>2, <3>1
    <3>3. gl[i] = fl[i - 1]
      BY ONLY <1>1, <3>2
    <3> QED
      BY <1>2, <3>2, <3>3
  <2> QED
    BY <2>1, <2>2
<1>6. /\ \A i \in DOMAIN fl : fl[i].kind # "kill" => fl[i].group \in GroupNames
      /\ \A i \in DOMAIN fl :
           fl[i].kind # "data" => \E s \in Known(R) : /\ R[s].conn = fl[i].conn /\ R[s].name = fl[i].name
                                                      /\ fl[i].kind = "kill" => R[s].status = "killed"
      /\ \A i, j \in DOMAIN fl : i < j /\ fl[i].kind = "kill" => fl[j].conn # fl[i].conn
      /\ \A s \in Slots : R[s].status = "killed" => s = 0 \/ \E i \in DOMAIN fl : fl[i].kind = "kill" /\ fl[i].conn = R[s].conn
  BY DEF FlightOK
<1>7. \A i \in DOMAIN gl : gl[i].kind # "kill" => gl[i].group \in GroupNames
  BY <1>3, <1>4, <1>6
<1>8. ASSUME NEW i \in DOMAIN gl, gl[i].kind # "data"
      PROVE  \E s \in Known(R) : /\ R[s].conn = gl[i].conn /\ R[s].name = gl[i].name
                                 /\ gl[i].kind = "kill" => R[s].status = "killed"
  <2>1. CASE i = q
    BY <1>4, <1>8, <2>1
  <2>2. CASE i # q
    BY <1>3, <1>6, <1>8, <2>2
  <2> QED
    BY <2>1, <2>2
<1>9. ASSUME NEW i \in DOMAIN gl, NEW j \in DOMAIN gl, i < j, gl[i].kind = "kill"
      PROVE  gl[j].conn # gl[i].conn
  <2>1. i # q
    BY <1>4, <1>9
  <2>2. PICK a \in DOMAIN fl : gl[i] = fl[a] /\ a = IF i < q THEN i ELSE i - 1
    BY <1>3, <2>1
  <2>3. CASE j = q
    BY <1>4, <1>9, <2>2, <2>3
  <2>4. CASE j # q
    <3>1. PICK b \in DOMAIN fl : gl[j] = fl[b] /\ b = IF j < q THEN j ELSE j - 1
      BY <1>3, <2>4
    <3>2. i \in Nat /\ j \in Nat /\ q \in Nat
      BY <1>2
    <3>3. a < b
      BY ONLY <1>9, <2>1, <2>2, <2>4, <3>1, <3>2
    <3> QED
      BY <1>6, <1>9, <2>2, <3>1, <3>3
  <2> QED
    BY <2>3, <2>4
<1>10. ASSUME NEW s \in Slots, s # 0, R[s].status = "killed"
       PROVE  \E i \in DOMAIN gl : gl[i].kind = "kill" /\ gl[i].conn = R[s].conn
  <2>1. PICK a \in DOMAIN fl : fl[a].kind = "kill" /\ fl[a].conn = R[s].conn
    BY <1>6, <1>10
  <2> QED
    BY <1>5, <2>1
<1> QED
  BY <1>1, <1>7, <1>8, <1>9, <1>10 DEF FlightOK

\* A packet is delivered; session x is the one whose KILL it is.
LEMMA FlightDrop ==
  ASSUME NEW R, NEW sc, NEW n, ConnsOK(R, sc, n), NEW fl, FlightOK(R, fl, 0), fl # <<>>,
         NEW x, x = 0 => Head(fl).kind # "kill",
         x # 0 => Head(fl).kind = "kill" /\ x \in Slots /\ R[x].status = "killed" /\ R[x].conn = Head(fl).conn
  PROVE  FlightOK(R, Tail(fl), x)
<1>1. PICK p : p = Head(fl)
  OBVIOUS
<1>2. PICK gl : gl = Tail(fl)
  OBVIOUS
<1>3. /\ fl \in Seq(PacketSet)
      /\ \A i \in DOMAIN fl : fl[i].kind # "kill" => fl[i].group \in GroupNames
      /\ \A i \in DOMAIN fl :
           fl[i].kind # "data" => \E s \in Known(R) : /\ R[s].conn = fl[i].conn /\ R[s].name = fl[i].name
                                                      /\ fl[i].kind = "kill" => R[s].status = "killed"
      /\ \A i, j \in DOMAIN fl : i < j /\ fl[i].kind = "kill" => fl[j].conn # fl[i].conn
      /\ \A s \in Slots : R[s].status = "killed" => s = 0 \/ \E i \in DOMAIN fl : fl[i].kind = "kill" /\ fl[i].conn = R[s].conn
  BY DEF FlightOK
<1>4. /\ gl \in Seq(PacketSet) /\ Len(fl) \in Nat \ {0} /\ DOMAIN fl = 1..Len(fl) /\ DOMAIN gl = 1..Len(fl) - 1
      /\ p = fl[1] /\ \A i \in 1..Len(fl) - 1 : gl[i] = fl[i + 1]
  BY <1>1, <1>2, <1>3
<1>5. 1 \in DOMAIN fl /\ \A i \in DOMAIN gl : i + 1 \in DOMAIN fl /\ gl[i] = fl[i + 1] /\ i \in Nat /\ 1 < i + 1
  BY <1>4
<1>6. \A i \in DOMAIN fl : i # 1 => i - 1 \in DOMAIN gl /\ gl[i - 1] = fl[i]
  <2>1. \A i \in DOMAIN fl : i # 1 => i - 1 \in 1..Len(fl) - 1 /\ (i - 1) + 1 = i
    BY <1>4
  <2> QED
    BY <1>4, <2>1
<1>7. \A i, j \in DOMAIN gl : i < j => i + 1 < j + 1
  BY <1>5
<1>8. \A i \in DOMAIN gl : gl[i].kind # "kill" => gl[i].group \in GroupNames
  BY <1>3, <1>5
<1>9. ASSUME NEW i \in DOMAIN gl, gl[i].kind # "data"
      PROVE  \E s \in Known(R) : /\ R[s].conn = gl[i].conn /\ R[s].name = gl[i].name
                                 /\ gl[i].kind = "kill" => R[s].status = "killed"
  BY <1>3, <1>5, <1>9
<1>10. ASSUME NEW i \in DOMAIN gl, NEW j \in DOMAIN gl, i < j, gl[i].kind = "kill"
       PROVE  gl[j].conn # gl[i].conn
  BY <1>3, <1>5, <1>7, <1>10
<1>11. ASSUME NEW s \in Slots, s # x, R[s].status = "killed"
       PROVE  \E i \in DOMAIN gl : gl[i].kind = "kill" /\ gl[i].conn = R[s].conn
  <2>1. s # 0
    BY SessionAssumption DEF Slots
  <2>2. PICK i \in DOMAIN fl : fl[i].kind = "kill" /\ fl[i].conn = R[s].conn
    BY <1>3, <1>11, <2>1
  <2>3. i # 1
    <3>1. CASE x = 0
      BY <1>1, <1>4, <2>2, <3>1
    <3>2. CASE x # 0
      <4>1. x \in Used(R) /\ s \in Used(R)
        BY <1>11, <3>2 DEF Used
      <4>2. R[s].conn # R[x].conn
        BY <1>11, <4>1 DEF ConnsOK
      <4> QED
        BY <1>1, <1>4, <2>2, <3>2, <4>2
    <3> QED
      BY <3>1, <3>2
  <2> QED
    BY <1>6, <2>2, <2>3
<1>12. ASSUME x # 0, NEW i \in DOMAIN gl
       PROVE  gl[i].conn # R[x].conn
  BY <1>1, <1>3, <1>4, <1>5, <1>12
<1>13. FlightOK(R, gl, x)
  BY <1>4, <1>8, <1>9, <1>10, <1>11, <1>12 DEF FlightOK
<1> QED
  BY <1>2, <1>13

\* What became of the sessions that have sent no packet does not matter.
LEMMA FlightKeeps ==
  ASSUME NEW R, NEW Q, NEW fl, NEW x, FlightOK(R, fl, x),
         \A t \in Known(R) : t # x =>
            t \in Slots /\ Q[t].status = R[t].status /\ Q[t].conn = R[t].conn /\ Q[t].name = R[t].name,
         \A t \in Slots : Q[t].status = "killed" => t # x /\ R[t].status = "killed"
  PROVE  FlightOK(Q, fl, 0)
<1>1. ASSUME NEW i \in DOMAIN fl, fl[i].kind # "data"
      PROVE  \E s \in Known(Q) : /\ Q[s].conn = fl[i].conn /\ Q[s].name = fl[i].name
                                 /\ fl[i].kind = "kill" => Q[s].status = "killed"
  <2>1. PICK s \in Known(R) : /\ R[s].conn = fl[i].conn /\ R[s].name = fl[i].name
                              /\ fl[i].kind = "kill" => R[s].status = "killed"
    BY <1>1 DEF FlightOK
  <2>2. s # x
    <3>1. CASE x = 0
      BY SessionAssumption, <3>1 DEF Known, Slots
    <3>2. CASE x # 0
      BY <2>1, <3>2 DEF FlightOK
    <3> QED
      BY <3>1, <3>2
  <2>3. s \in Slots /\ Q[s].status = R[s].status /\ Q[s].conn = R[s].conn /\ Q[s].name = R[s].name
    BY <2>2
  <2>4. s \in Known(Q)
    BY <2>3 DEF Known
  <2> QED
    BY <2>1, <2>3, <2>4
<1>2. ASSUME NEW t \in Slots, t # 0, Q[t].status = "killed"
      PROVE  \E i \in DOMAIN fl : fl[i].kind = "kill" /\ fl[i].conn = Q[t].conn
  <2>1. t # x /\ R[t].status = "killed"
    BY <1>2
  <2>2. t \in Known(R)
    BY <2>1 DEF Known
  <2> QED
    BY <2>1, <2>2 DEF FlightOK
<1> QED
  BY <1>1, <1>2 DEF FlightOK

LEMMA PacketsConcat ==
  ASSUME NEW a \in Seq(PacketSet), NEW b \in Seq(PacketSet)
  PROVE  /\ a \o b \in Seq(PacketSet) /\ Len(a \o b) = Len(a) + Len(b) /\ Len(a) \in Nat /\ Len(b) \in Nat
         /\ DOMAIN a = 1..Len(a) /\ DOMAIN b = 1..Len(b) /\ DOMAIN (a \o b) = 1..(Len(a) + Len(b))
         /\ \A i \in 1..(Len(a) + Len(b)) : (a \o b)[i] = IF i <= Len(a) THEN a[i] ELSE b[i - Len(a)]
<1>1. /\ a \o b \in Seq(PacketSet) /\ Len(a \o b) = Len(a) + Len(b)
      /\ \A i \in 1..(Len(a) + Len(b)) : (a \o b)[i] = IF i <= Len(a) THEN a[i] ELSE b[i - Len(a)]
  BY ConcatProperties
<1> QED
  BY <1>1

\* A packet goes from the down queue into the ring.
LEMMA PacketMoves ==
  ASSUME NEW a \in Seq(PacketSet), NEW b \in Seq(PacketSet), b # <<>>
  PROVE  /\ Append(a, Head(b)) \o Tail(b) = a \o b /\ Append(a, Head(b)) \in Seq(PacketSet)
         /\ Tail(b) \in Seq(PacketSet) /\ Len(Tail(b)) = Len(b) - 1
<1>1. PICK c : c = Append(a, Head(b))
  OBVIOUS
<1>2. PICK d : d = Tail(b)
  OBVIOUS
<1>3. PICK m, n : m = Len(a) /\ n = Len(b)
  OBVIOUS
<1>4. /\ m \in Nat /\ n \in Nat \ {0} /\ c \in Seq(PacketSet) /\ Len(c) = m + 1
      /\ c[m + 1] = b[1] /\ \A i \in 1..m : c[i] = a[i]
  <2>1. Head(b) \in PacketSet /\ Head(b) = b[1]
    OBVIOUS
  <2> QED
    BY <1>1, <1>3, <2>1
<1>5. d \in Seq(PacketSet) /\ Len(d) = n - 1 /\ \A i \in 1..n - 1 : d[i] = b[i + 1]
  BY <1>2, <1>3
<1>6. /\ a \o b \in Seq(PacketSet) /\ Len(a \o b) = m + n
      /\ \A i \in 1..(m + n) : (a \o b)[i] = IF i <= m THEN a[i] ELSE b[i - m]
  BY <1>3, PacketsConcat
<1>7. /\ c \o d \in Seq(PacketSet) /\ Len(c \o d) = Len(c) + Len(d)
      /\ \A i \in 1..(Len(c) + Len(d)) : (c \o d)[i] = IF i <= Len(c) THEN c[i] ELSE d[i - Len(c)]
  BY ONLY <1>4, <1>5, PacketsConcat
<1>8. Len(c) + Len(d) = m + n
  BY ONLY <1>4, <1>5
<1>9. ASSUME NEW i \in 1..(m + n)
      PROVE  (c \o d)[i] = (a \o b)[i]
  <2>1. (c \o d)[i] = (IF i <= m + 1 THEN c[i] ELSE d[i - (m + 1)]) /\ (a \o b)[i] = IF i <= m THEN a[i] ELSE b[i - m]
    BY <1>4, <1>6, <1>7, <1>8
  <2>2. i \in Nat /\ i >= 1 /\ i <= m + n /\ m \in Nat /\ n \in Nat
    BY <1>4
  <2>3. CASE i <= m
    <3>1. i <= m + 1 /\ i \in 1..m
      BY ONLY <2>2, <2>3
    <3> QED
      BY <1>4, <2>1, <2>3, <3>1
  <2>4. CASE i = m + 1
    <3>1. i <= m + 1 /\ ~(i <= m) /\ i - m = 1
      BY ONLY <2>2, <2>4
    <3> QED
      BY <1>4, <2>1, <2>4, <3>1
  <2>5. CASE ~(i <= m + 1)
    <3>1. PICK j \in 1..n - 1 : j = i - (m + 1) /\ j + 1 = i - m /\ ~(i <= m)
      BY ONLY <2>2, <2>5
    <3> QED
      BY <1>5, <2>1, <2>5, <3>1
  <2>6. i <= m \/ i = m + 1 \/ ~(i <= m + 1)
    BY ONLY <2>2
  <2> QED
    BY ONLY <2>3, <2>4, <2>5, <2>6
<1>10. c \o d = a \o b
  BY ONLY <1>6, <1>7, <1>8, <1>9, SeqEqual
<1> QED
  BY <1>1, <1>2, <1>3, <1>4, <1>5, <1>10

\* A packet goes to the end of the ring or to the end of the down queue.
LEMMA PacketJoins ==
  ASSUME NEW a \in Seq(PacketSet), NEW b \in Seq(PacketSet), NEW p \in PacketSet
  PROVE  /\ Joins(a \o b, a \o Append(b, p), p, Len(a) + Len(b) + 1)
         /\ Joins(a \o b, Append(a, p) \o b, p, Len(a) + 1)
         /\ Append(a, p) \in Seq(PacketSet) /\ Append(b, p) \in Seq(PacketSet)
<1>1. PICK c : c = Append(a, p)
  OBVIOUS
<1>2. PICK d : d = Append(b, p)
  OBVIOUS
<1>3. PICK m, n : m = Len(a) /\ n = Len(b)
  OBVIOUS
<1>4. m \in Nat /\ n \in Nat /\ c \in Seq(PacketSet) /\ Len(c) = m + 1 /\ c[m + 1] = p /\ \A i \in 1..m : c[i] = a[i]
  BY <1>1, <1>3
<1>5. d \in Seq(PacketSet) /\ Len(d) = n + 1 /\ d[n + 1] = p /\ \A i \in 1..n : d[i] = b[i]
  BY <1>2, <1>3
<1>6. PICK e : e = a \o b
  OBVIOUS
<1>7. /\ e \in Seq(PacketSet) /\ Len(e) = m + n
      /\ \A i \in 1..(m + n) : e[i] = IF i <= m THEN a[i] ELSE b[i - m]
  BY <1>3, <1>6, PacketsConcat
<1>8. PICK f : f = c \o b
  OBVIOUS
<1>9. /\ f \in Seq(PacketSet) /\ Len(f) = m + 1 + n
      /\ \A i \in 1..(m + 1 + n) : f[i] = IF i <= m + 1 THEN c[i] ELSE b[i - (m + 1)]
  <2>1. /\ f \in Seq(PacketSet) /\ Len(f) = Len(c) + Len(b)
        /\ \A i \in 1..(Len(c) + Len(b)) : f[i] = IF i <= Len(c) THEN c[i] ELSE b[i - Len(c)]
    BY ONLY <1>4, <1>8, b \in Seq(PacketSet), PacketsConcat
  <2> QED
    BY <1>3, <1>4, <2>1
<1>10. PICK g : g = a \o d
  OBVIOUS
<1>11. /\ g \in Seq(PacketSet) /\ Len(g) = m + (n + 1)
       /\ \A i \in 1..(m + (n + 1)) : g[i] = IF i <= m THEN a[i] ELSE d[i - m]
  <2>1. /\ g \in Seq(PacketSet) /\ Len(g) = Len(a) + Len(d)
        /\ \A i \in 1..(Len(a) + Len(d)) : g[i] = IF i <= Len(a) THEN a[i] ELSE d[i - Len(a)]
    BY ONLY <1>5, <1>10, a \in Seq(PacketSet), PacketsConcat
  <2> QED
    BY <1>3, <1>5, <2>1
<1>12. m + n + 1 = m + 1 + n /\ m + n + 1 = m + (n + 1) /\ m + 1 \in 1..(m + n + 1) /\ m + n + 1 \in 1..(m + n + 1)
  BY ONLY <1>4
<1>13. ASSUME NEW i \in 1..(m + n + 1)
       PROVE  /\ f[i] = IF i < m + 1 THEN e[i] ELSE IF i = m + 1 THEN p ELSE e[i - 1]
              /\ g[i] = IF i < m + n + 1 THEN e[i] ELSE p
  <2>1. i \in Nat /\ i >= 1 /\ i <= m + n + 1 /\ m \in Nat /\ n \in Nat
    BY <1>4
  <2>2. f[i] = (IF i <= m + 1 THEN c[i] ELSE b[i - (m + 1)]) /\ g[i] = IF i <= m THEN a[i] ELSE d[i - m]
    BY <1>9, <1>11, <1>12
  <2>3. CASE i <= m
    <3>1. i < m + 1 /\ i <= m + 1 /\ i < m + n + 1 /\ i \in 1..m /\ i \in 1..(m + n)
      BY ONLY <2>1, <2>3
    <3>2. e[i] = a[i]
      BY <1>7, <2>3, <3>1
    <3> QED
      BY <1>4, <2>2, <2>3, <3>1, <3>2
  <2>4. CASE ~(i <= m)
    <3>1. PICK j \in 1..n + 1 : j = i - m
      BY ONLY <2>1, <2>4
    <3>2. /\ i < m + n + 1 => j \in 1..n /\ i \in 1..(m + n)
          /\ ~(i < m + n + 1) => j = n + 1
      BY ONLY <2>1, <3>1
    <3>3. g[i] = IF i < m + n + 1 THEN e[i] ELSE p
      <4>1. g[i] = d[j]
        BY <2>2, <2>4, <3>1
      <4>2. i < m + n + 1 => e[i] = b[j]
        BY <1>7, <2>4, <3>1, <3>2
      <4> QED
        BY <1>5, <3>2, <4>1, <4>2
    <3>4. CASE i = m + 1
      <4>1. i <= m + 1 /\ ~(i < m + 1)
        BY ONLY <2>1, <3>4
      <4> QED
        BY <1>4, <2>2, <3>3, <3>4, <4>1
    <3>5. CASE i # m + 1
      <4>1. /\ ~(i <= m + 1) /\ ~(i < m + 1) /\ i - 1 \in 1..(m + n) /\ ~(i - 1 <= m)
            /\ i - (m + 1) = i - 1 - m
        BY ONLY <2>1, <2>4, <3>5
      <4>2. PICK h : h = i - 1
        OBVIOUS
      <4>3. h \in 1..(m + n) /\ ~(h <= m) /\ i - (m + 1) = h - m
        BY ONLY <4>1, <4>2
      <4>4. e[h] = b[h - m]
        BY <1>7, <4>3
      <4>5. f[i] = e[h]
        BY <2>2, <4>1, <4>3, <4>4
      <4> QED
        BY <3>3, <3>5, <4>1, <4>2, <4>5
    <3> QED
      BY <3>4, <3>5
  <2> QED
    BY <2>3, <2>4
<1>14. Joins(e, f, p, m + 1)
  BY <1>7, <1>9, <1>12, <1>13 DEF Joins
<1>15. Joins(e, g, p, m + n + 1)
  <2>1. \A i \in 1..(m + n + 1) : g[i] = IF i < m + n + 1 THEN e[i] ELSE IF i = m + n + 1 THEN p ELSE e[i - 1]
    <3>1. \A i \in 1..(m + n + 1) : i < m + n + 1 \/ i = m + n + 1
      BY ONLY <1>4
    <3> QED
      BY <1>13, <3>1
  <2> QED
    BY <1>7, <1>11, <1>12, <2>1 DEF Joins
<1> QED
  BY <1>1, <1>2, <1>3, <1>4, <1>5, <1>6, <1>8, <1>10, <1>14, <1>15

\* The first packet of the ring is the first of all that are on their way.
LEMMA PacketLeaves ==
  ASSUME NEW a \in Seq(PacketSet), NEW b \in Seq(PacketSet), a # <<>>
  PROVE  /\ Tail(a) \o b = Tail(a \o b) /\ Head(a) = Head(a \o b) /\ a \o b # <<>> /\ Head(a) \in PacketSet
         /\ Tail(a) \in Seq(PacketSet) /\ Len(Tail(a)) = Len(a) - 1 /\ Len(Tail(a \o b)) = Len(a \o b) - 1
<1>1. PICK c : c = Tail(a)
  OBVIOUS
<1>2. PICK m, n : m = Len(a) /\ n = Len(b)
  OBVIOUS
<1>3. /\ m \in Nat \ {0} /\ n \in Nat /\ c \in Seq(PacketSet) /\ Len(c) = m - 1
      /\ (\A i \in 1..m - 1 : c[i] = a[i + 1]) /\ Head(a) = a[1] /\ a[1] \in PacketSet
  BY <1>1, <1>2
<1>4. PICK e : e = a \o b
  OBVIOUS
<1>5. /\ e \in Seq(PacketSet) /\ Len(e) = m + n
      /\ \A i \in 1..(m + n) : e[i] = IF i <= m THEN a[i] ELSE b[i - m]
  BY <1>2, <1>4, PacketsConcat
<1>6. PICK f : f = c \o b
  OBVIOUS
<1>7. /\ f \in Seq(PacketSet) /\ Len(f) = m - 1 + n
      /\ \A i \in 1..(m - 1 + n) : f[i] = IF i <= m - 1 THEN c[i] ELSE b[i - (m - 1)]
  <2>1. /\ f \in Seq(PacketSet) /\ Len(f) = Len(c) + Len(b)
        /\ \A i \in 1..(Len(c) + Len(b)) : f[i] = IF i <= Len(c) THEN c[i] ELSE b[i - Len(c)]
    BY ONLY <1>3, <1>6, b \in Seq(PacketSet), PacketsConcat
  <2> QED
    BY <1>2, <1>3, <2>1
<1>8. e # <<>> /\ Head(e) = e[1] /\ 1 \in 1..(m + n) /\ 1 <= m
  BY <1>3, <1>5
<1>9. PICK g : g = Tail(e)
  OBVIOUS
<1>10. g \in Seq(PacketSet) /\ Len(g) = m + n - 1 /\ \A i \in 1..(m + n - 1) : g[i] = e[i + 1]
  <2>1. Len(e) \in Nat /\ g \in Seq(PacketSet) /\ Len(g) = Len(e) - 1 /\ \A i \in 1..(Len(e) - 1) : g[i] = e[i + 1]
    BY ONLY <1>3, <1>5, <1>8, <1>9
  <2>2. Len(e) = m + n
    BY ONLY <1>5
  <2>3. m \in Nat /\ n \in Nat
    BY ONLY <1>3
  <2>4. Len(g) = m + n - 1
    BY ONLY <2>1, <2>2, <2>3
  <2>5. ASSUME NEW i \in 1..(m + n - 1)
        PROVE  g[i] = e[i + 1]
    <3>1. i \in 1..(Len(e) - 1)
      BY ONLY <2>2, <2>3, i \in 1..(m + n - 1)
    <3> QED
      BY ONLY <2>1, <3>1
  <2> QED
    BY ONLY <2>1, <2>4, <2>5
<1>11. m - 1 + n = m + n - 1
  BY ONLY <1>3
<1>12. ASSUME NEW i \in 1..(m + n - 1)
       PROVE  f[i] = g[i]
  <2>1. PICK h : h = i + 1
    OBVIOUS
  <2>2. i \in Nat /\ i >= 1 /\ i <= m + n - 1 /\ m \in Nat /\ n \in Nat
    BY <1>3
  <2>3. h \in 1..(m + n) /\ (h <= m <=> i <= m - 1) /\ h - m = i - (m - 1) /\ (i <= m - 1 => i \in 1..m - 1)
    BY ONLY <2>1, <2>2
  <2>4. g[i] = IF h <= m THEN a[h] ELSE b[h - m]
    BY <1>5, <1>10, <2>1, <2>3
  <2>5. f[i] = IF i <= m - 1 THEN c[i] ELSE b[i - (m - 1)]
    BY <1>7, <1>11
  <2> QED
    BY <1>3, <2>1, <2>3, <2>4, <2>5
<1>13. f = g
  BY ONLY <1>7, <1>10, <1>11, <1>12, SeqEqual
<1>14. Head(e) = a[1]
  BY <1>5, <1>8
<1> QED
  BY <1>1, <1>2, <1>3, <1>4, <1>5, <1>6, <1>8, <1>9, <1>10, <1>13, <1>14

--------------------------------------------------------------------------------
(* The initial state and the ends of the handlers *)

LEMMA InvFacts ==
  ASSUME SessionInv
  PROVE  /\ TablesOK /\ NamesDiffer(S) /\ S \in [Slots -> SessionRec]
         /\ Used(S) \subseteq Slots /\ Alive(S) \subseteq Used(S) /\ Known(S) \subseteq Used(S)
         /\ \A s \in Slots : S[s] \in SessionRec
         /\ Cardinality(Alive(S)) \in Nat /\ Len(ring) \in Nat /\ Len(down) \in Nat
         /\ Len(ring \o down) = Len(ring) + Len(down) /\ Len(ring \o down) \in Nat
         /\ serial \in Serials /\ conns \in Nat /\ requests \in Nat
<1>1. TablesOK /\ S \in [Slots -> SessionRec] /\ conns \in 0..MaxConns
  BY DEF SessionInv, TablesOK, ConnsOK
<1>2. NamesDiffer(S)
  BY <1>1, NamesAreDifferent DEF TablesOK
<1>3. Used(S) \subseteq Slots /\ Alive(S) \subseteq Used(S) /\ Known(S) \subseteq Used(S)
  BY DEF Used, Alive, Known
<1>4. Cardinality(Alive(S)) \in Nat
  BY <1>3, SlotsFinite
<1>5. Len(ring) \in Nat /\ Len(down) \in Nat /\ Len(ring \o down) = Len(ring) + Len(down)
  BY PacketsConcat DEF SessionInv
<1>6. serial \in Serials
  <2>1. serial \in Nat /\ requests \in 0..MaxRequests /\ MaxConns \in Nat /\ MaxRequests \in Nat
    BY SessionAssumption DEF SessionInv
  <2>2. serial + Len(ring \o down) + Cardinality(Alive(S)) + (IF scratch = 0 THEN 0 ELSE 1) <= conns + requests
    BY DEF SessionInv, Ahead
  <2>3. PICK a, b : a = Len(ring \o down) + Cardinality(Alive(S)) /\ b = IF scratch = 0 THEN 0 ELSE 1
    OBVIOUS
  <2>4. a \in Nat /\ b \in Nat
    BY <1>4, <1>5, <2>3
  <2>5. serial + a + b <= conns + requests
    BY <1>4, <1>5, <2>1, <2>2, <2>3
  <2> QED
    BY ONLY <1>1, <2>1, <2>4, <2>5 DEF Serials
<1>7. conns \in Nat /\ requests \in Nat
  BY <1>1, SessionAssumption DEF SessionInv
<1>8. Len(ring \o down) \in Nat
  BY <1>5
<1> QED
  BY <1>1, <1>2, <1>3, <1>4, <1>5, <1>6, <1>7, <1>8

\* A handler that begins, in the ring rg, with the KILL of session x if x is not 0.
LEMMA CurIs ==
  ASSUME SessionInv, NEW rg \in Seq(PacketSet), NEW x, FlightOK(S, rg \o down, x),
         x # 0 => x \in Slots /\ S[x].status = "killed"
  PROVE  WriteInv(Cur, rg, x, Len(down) + Cardinality(Alive(S)))
<1>1. /\ DOMAIN Cur = WFields /\ Cur.S = S /\ Cur.open = open /\ Cur.badgers = badgers /\ Cur.down = down
      /\ Cur.given = given /\ Cur.out = out /\ Cur.strays = strays /\ Cur.dead = dead
  BY DEF Cur, WFields
<1>2. Same(S, S)
  BY InvFacts DEF Same
<1> QED
  BY <1>1, <1>2 DEF WriteInv, SessionInv

\* The end of a handler that leaves the tables of sessions alone.
LEMMA BecomeKeeps ==
  ASSUME SessionInv, NEW w, NEW n, WriteInv(w, ring', 0, n), Become(w),
         list' = list, hash' = hash, free' = free, scratch' = scratch, conns' = conns,
         GroupsOK(S, members', mboxes'), joined' \in [Conns -> SUBSET GroupNames],
         requests' \in 0..MaxRequests, serial' \in Nat,
         serial' + Len(ring') + n + (IF scratch = 0 THEN 0 ELSE 1) <= conns + requests'
  PROVE  SessionInv'
<1>1. /\ S' = w.S /\ open' = w.open /\ badgers' = w.badgers /\ down' = w.down
      /\ given' = w.given /\ out' = w.out /\ strays' = w.strays /\ dead' = w.dead /\ high' \in BOOLEAN
  BY DEF Become, SessionInv
<1>2. Same(S, S')
  BY <1>1 DEF WriteInv
<1>3. ListOK(S', list', free') /\ HashOK(S', hash') /\ ConnsOK(S', scratch', conns') /\ GroupsOK(S', members', mboxes')
  BY <1>2, SameList, SameHash, SameConns, SameGroups DEF SessionInv
<1>4. /\ OpenOK(S', open', scratch', free') /\ ring' \in Seq(PacketSet) /\ down' \in Seq(PacketSet)
      /\ FlightOK(S', ring' \o down', 0) /\ StreamsOK(S', given', out', scratch', conns')
      /\ strays' \subseteq Conns /\ badgers' \subseteq Mboxes /\ dead' = FALSE
      /\ Len(down') + Cardinality(Alive(S')) = n
  BY <1>1 DEF WriteInv
<1>5. Ahead(S', ring' \o down', serial', scratch') <= conns' + requests'
  <2>1. PICK a, b, c, d : /\ a = Len(ring') /\ b = Len(down') /\ c = Cardinality(Alive(S'))
                          /\ d = IF scratch = 0 THEN 0 ELSE 1
    OBVIOUS
  <2>2. Len(ring' \o down') = a + b /\ a \in Nat /\ b \in Nat
    BY <1>4, <2>1, PacketsConcat
  <2>3. c \in Nat
    <3>1. Alive(S') \subseteq Slots
      BY DEF Alive
    <3> QED
      BY <2>1, <3>1, SlotsFinite
  <2>4. d \in Nat
    BY <2>1
  <2>5. serial' + a + n + d <= conns + requests' /\ b + c = n
    BY <1>4, <2>1
  <2>6. serial' + (a + b) + c + d <= conns + requests'
    BY ONLY <2>2, <2>3, <2>4, <2>5, serial' \in Nat
  <2> QED
    BY ONLY <2>1, <2>2, <2>6, scratch' = scratch, conns' = conns DEF Ahead
<1> QED
  BY <1>1, <1>3, <1>4, <1>5 DEF SessionInv

LEMMA InitHolds ==
  ASSUME Init
  PROVE  SessionInv
<1>1. /\ MAX_SESSIONS \in Nat \ {0} /\ MaxConns \in Nat /\ MaxRequests \in Nat /\ Units \in Nat \ {0}
  BY SessionAssumption
<1>2. S = [s \in Slots |-> NoSession] /\ list = <<>> /\ hash = [m \in Mboxes |-> <<>>] /\ free = [i \in Slots |-> i]
  BY DEF Init
<1>3. S \in [Slots -> SessionRec]
  <2>1. NoSession \in SessionRec
    BY <1>1 DEF NoSession, SessionRec, Statuses
  <2> QED
    BY <1>2, <2>1
<1>4. \A s \in Slots : S[s].status = "free"
  BY <1>2 DEF NoSession
<1>5. Used(S) = {} /\ Alive(S) = {} /\ Known(S) = {}
  BY <1>4 DEF Used, Alive, Known
<1>6. ListOK(S, list, free)
  <2>1. /\ free \in Seq(Slots) /\ Len(free) = MAX_SESSIONS /\ DOMAIN free = Slots
        /\ \A i \in Slots : free[i] = i
    BY <1>1, <1>2 DEF Slots
  <2>2. list \in Seq(Slots) /\ Len(list) = 0 /\ DOMAIN list = {}
    BY <1>2
  <2> QED
    BY <1>1, <1>5, <2>1, <2>2 DEF ListOK
<1>7. HashOK(S, hash)
  <2>1. \A m \in Mboxes : hash[m] = <<>> /\ DOMAIN hash[m] = {}
    BY <1>2
  <2>2. hash \in [Mboxes -> Seq(Slots)]
    BY <1>2
  <2> QED
    BY <1>5, <2>1, <2>2 DEF HashOK
<1>8. OpenOK(S, open, scratch, free)
  BY <1>5 DEF Init, OpenOK
<1>9. ConnsOK(S, scratch, conns)
  BY <1>1, <1>3, <1>5 DEF Init, ConnsOK
<1>10. ring = <<>> /\ down = <<>> /\ ring \in Seq(PacketSet) /\ down \in Seq(PacketSet)
  BY DEF Init
<1>11. /\ ring \o down \in Seq(PacketSet) /\ Len(ring \o down) = 0 /\ DOMAIN (ring \o down) = {}
  BY <1>10
<1>12. FlightOK(S, ring \o down, 0)
  BY <1>4, <1>11 DEF FlightOK
<1>13. GroupsOK(S, members, mboxes)
  <2>1. members = [g \in GroupNames |-> {}] /\ mboxes = [g \in GroupNames |-> <<>>]
    BY DEF Init
  <2>2. ASSUME NEW g \in GroupNames
        PROVE  \E f : Match(S, members[g], mboxes[g], f)
    <3>1. members[g] = {} /\ mboxes[g] = <<>> /\ DOMAIN mboxes[g] = {}
      BY <2>1
    <3>2. PICK f : f = [i \in DOMAIN mboxes[g] |-> i]
      OBVIOUS
    <3>3. Match(S, members[g], mboxes[g], f)
      BY <3>1, <3>2 DEF Match
    <3> QED
      BY <3>3
  <2>3. members \in [GroupNames -> SUBSET Names] /\ mboxes \in [GroupNames -> Seq(Mboxes)]
    <3>1. <<>> \in Seq(Mboxes) /\ {} \in SUBSET Names
      OBVIOUS
    <3> QED
      BY <2>1, <3>1
  <2> QED
    BY ONLY <2>2, <2>3, GroupsMatch
<1>14. StreamsOK(S, given, out, scratch, conns)
  <2>1. /\ given \in [Conns -> Seq(Serials)] /\ out \in [Conns -> Seq(Serials \X Nat)]
        /\ \A c \in Conns : given[c] = <<>> /\ out[c] = <<>>
    BY DEF Init
  <2> QED
    BY <1>4, <2>1 DEF StreamsOK, StreamOK
<1>15. Ahead(S, ring \o down, serial, scratch) <= conns + requests
  <2>1. Cardinality(Alive(S)) = 0
    BY <1>5, FS_EmptySet
  <2> QED
    BY <1>11, <2>1 DEF Ahead, Init
<1>16. /\ joined \in [Conns -> SUBSET GroupNames] /\ strays \subseteq Conns /\ badgers \subseteq Mboxes
       /\ high \in BOOLEAN /\ dead = FALSE /\ requests \in 0..MaxRequests /\ serial \in Nat
  <2>1. joined = [c \in Conns |-> {}] /\ strays = {} /\ badgers = {} /\ high = FALSE /\ dead = FALSE
    BY DEF Init
  <2>2. joined \in [Conns -> SUBSET GroupNames]
    BY ONLY <2>1
  <2>3. requests = 0 /\ serial = 0
    BY DEF Init
  <2>4. requests \in 0..MaxRequests /\ serial \in Nat
    BY ONLY <1>1, <2>3
  <2> QED
    BY ONLY <2>1, <2>2, <2>4
<1> QED
  BY <1>6, <1>7, <1>8, <1>9, <1>10, <1>12, <1>13, <1>14, <1>15, <1>16 DEF SessionInv

--------------------------------------------------------------------------------
(* Each handler keeps the invariant *)

LEMMA SendKeeps ==
  ASSUME SessionInv, Send
  PROVE  SessionInv'
<1>1. down # <<>> /\ ring' = Append(ring, Head(down)) /\ down' = Tail(down)
  BY DEF Send
<1>2. /\ S' = S /\ list' = list /\ hash' = hash /\ free' = free /\ scratch' = scratch /\ open' = open
      /\ badgers' = badgers /\ members' = members /\ mboxes' = mboxes /\ joined' = joined /\ given' = given
      /\ out' = out /\ strays' = strays /\ dead' = dead /\ conns' = conns /\ requests' = requests /\ serial' = serial
  BY DEF Send, sessVars, groupVars, outVars, bounds
<1>3. high' \in BOOLEAN
  BY DEF Send, SessionInv
<1>4. ring' \o down' = ring \o down /\ ring' \in Seq(PacketSet) /\ down' \in Seq(PacketSet)
  BY <1>1, PacketMoves DEF SessionInv
<1> QED
  BY <1>2, <1>3, <1>4 DEF SessionInv

LEMMA RemoteKeeps ==
  ASSUME SessionInv, NEW g \in GroupNames, Remote(g)
  PROVE  SessionInv'
<1>1. PICK p : p = [kind |-> "data", name |-> -1, conn |-> 0, group |-> g]
  OBVIOUS
<1>2. /\ S' = S /\ list' = list /\ hash' = hash /\ free' = free /\ scratch' = scratch /\ open' = open
      /\ badgers' = badgers /\ members' = members /\ mboxes' = mboxes /\ joined' = joined /\ given' = given
      /\ out' = out /\ strays' = strays /\ dead' = dead /\ conns' = conns /\ serial' = serial
      /\ high' = high /\ down' = down
  BY DEF Remote, sessVars, groupVars, outVars
<1>3. requests' = requests + 1 /\ requests < MaxRequests /\ ring' = Append(ring, p)
  BY <1>1 DEF Remote
<1>4. p \in PacketSet /\ p.kind = "data" /\ p.group \in GroupNames /\ p.conn = 0
  <2>1. -1 \in Names \cup {-1} /\ 0 \in 0..MaxConns /\ g \in GroupNames \cup {""} /\ "data" \in {"data", "join", "leave", "kill"}
    <3>1. MaxConns \in Nat
      BY SessionAssumption
    <3>2. 0 \in 0..MaxConns
      BY ONLY <3>1
    <3> QED
      BY ONLY <3>2, g \in GroupNames
  <2> QED
    BY ONLY <1>1, <2>1, g \in GroupNames DEF PacketSet
<1>5. Joins(ring \o down, ring' \o down', p, Len(ring) + 1) /\ ring' \in Seq(PacketSet) /\ down' \in Seq(PacketSet)
  BY <1>2, <1>3, <1>4, PacketJoins DEF SessionInv
<1>6. \A i \in DOMAIN (ring \o down) : (ring \o down)[i].kind = "kill" => (ring \o down)[i].conn # p.conn
  <2>1. FlightOK(S, ring \o down, 0)
    BY DEF SessionInv
  <2>2. ASSUME NEW i \in DOMAIN (ring \o down), (ring \o down)[i].kind = "kill"
        PROVE  (ring \o down)[i].conn # 0
    <3>1. PICK s \in Known(S) : S[s].conn = (ring \o down)[i].conn
      BY <2>1, <2>2 DEF FlightOK
    <3>2. s \in Used(S)
      BY <3>1, InvFacts
    <3>3. S[s].conn \in 1..conns
      BY <3>2 DEF SessionInv, ConnsOK
    <3> QED
      BY <3>1, <3>3, InvFacts
  <2> QED
    BY <1>4, <2>2
<1>7. FlightOK(S', ring' \o down', 0)
  <2>1. FlightOK(S, ring \o down, 0)
    BY DEF SessionInv
  <2>2. FlightOK(S, ring' \o down', 0)
    BY ONLY <1>4, <1>5, <1>6, <2>1, FlightInsert
  <2> QED
    BY <1>2, <2>2
<1>8. Ahead(S', ring' \o down', serial', scratch') <= conns' + requests'
  <2>1. Len(ring' \o down') = Len(ring \o down) + 1
    BY <1>5 DEF Joins
  <2>2. Ahead(S, ring \o down, serial, scratch) <= conns + requests
    BY DEF SessionInv
  <2>3. PICK d : d = IF scratch = 0 THEN 0 ELSE 1
    OBVIOUS
  <2>4. d \in Nat
    BY <2>3
  <2>5. serial + Len(ring \o down) + Cardinality(Alive(S)) + d <= conns + requests
    BY <2>2, <2>3 DEF Ahead
  <2>6. PICK a, b : a = Len(ring \o down) /\ b = Cardinality(Alive(S))
    OBVIOUS
  <2>7. a \in Nat /\ b \in Nat /\ serial \in Nat /\ conns \in Nat /\ requests \in Nat
    BY <2>6, InvFacts DEF SessionInv
  <2>8. serial + (a + 1) + b + d <= conns + (requests + 1)
    BY ONLY <2>4, <2>5, <2>6, <2>7
  <2> QED
    BY ONLY <1>2, <1>3, <2>1, <2>3, <2>6, <2>8 DEF Ahead
<1>9. requests' \in 0..MaxRequests
  BY <1>3, InvFacts, SessionAssumption, SMTT(30)
<1> QED
  BY <1>2, <1>5, <1>7, <1>8, <1>9 DEF SessionInv

LEMMA RefuseKeeps ==
  ASSUME SessionInv, Refuse
  PROVE  SessionInv'
<1>1. scratch # 0 /\ scratch' = 0 /\ open' = open \ {scratch}
  BY DEF Refuse
<1>2. /\ S' = S /\ list' = list /\ hash' = hash /\ free' = free /\ high' = high /\ down' = down /\ ring' = ring
      /\ badgers' = badgers /\ members' = members /\ mboxes' = mboxes /\ joined' = joined /\ given' = given
      /\ out' = out /\ strays' = strays /\ dead' = dead /\ conns' = conns /\ requests' = requests /\ serial' = serial
  BY DEF Refuse, sessVars, groupVars, outVars, bounds
<1>3. OpenOK(S', open', scratch', free')
  <2>1. open = {S[s].mbox : s \in Alive(S)} \cup {scratch} /\ \A s \in Alive(S) : S[s].mbox # scratch
    BY <1>1 DEF SessionInv, OpenOK
  <2>2. open' = {S[s].mbox : s \in Alive(S)}
    BY <1>1, <2>1
  <2> QED
    BY <1>1, <1>2, <2>2 DEF SessionInv, OpenOK
<1>4. ConnsOK(S', scratch', conns')
  BY <1>1, <1>2 DEF SessionInv, ConnsOK
<1>5. StreamsOK(S', given', out', scratch', conns')
  BY <1>1, <1>2 DEF SessionInv, StreamsOK
<1>6. Ahead(S', ring' \o down', serial', scratch') <= conns' + requests'
  <2>1. serial + Len(ring \o down) + Cardinality(Alive(S)) + 1 <= conns + requests
    BY <1>1 DEF SessionInv, Ahead
  <2>2. PICK a, b : a = Len(ring \o down) /\ b = Cardinality(Alive(S))
    OBVIOUS
  <2>3. a \in Nat /\ b \in Nat /\ serial \in Nat /\ conns \in Nat /\ requests \in Nat
    BY <2>2, InvFacts DEF SessionInv
  <2>4. serial + a + b + 0 <= conns + requests
    BY ONLY <2>1, <2>2, <2>3
  <2> QED
    BY ONLY <1>1, <1>2, <2>2, <2>4 DEF Ahead
<1> QED
  BY <1>2, <1>3, <1>4, <1>5, <1>6 DEF SessionInv

\* There are more descriptors than sessions: accept() finds one.
LEMMA MailboxLeft ==
  ASSUME SessionInv, scratch = 0
  PROVE  \E m \in Mboxes \ open : \A n \in Mboxes \ open : m <= n
<1>1. MAX_SESSIONS \in Nat /\ MAX_SESSIONS + 1 \in Nat
  BY SessionAssumption
<1>2. open = {S[s].mbox : s \in Alive(S)} /\ Alive(S) \subseteq Slots
  BY InvFacts DEF SessionInv, OpenOK
<1>3. Mboxes \ open # {}
  <2> SUFFICES ASSUME Mboxes \subseteq open
               PROVE  FALSE
    OBVIOUS
  <2> DEFINE f == [m \in Mboxes |-> CHOOSE s \in Alive(S) : S[s].mbox = m]
  <2>1. \A m \in Mboxes : f[m] \in Slots /\ S[f[m]].mbox = m
    <3> SUFFICES ASSUME NEW m \in Mboxes
                 PROVE  f[m] \in Slots /\ S[f[m]].mbox = m
      OBVIOUS
    <3>1. \E s \in Alive(S) : S[s].mbox = m
      BY <1>2
    <3>2. f[m] \in Alive(S) /\ S[f[m]].mbox = m
      BY <3>1
    <3> QED
      BY <1>2, <3>2
  <2>2. f \in [Mboxes -> Slots]
    BY <2>1
  <2>3. /\ IsFiniteSet(Mboxes) /\ Cardinality(Mboxes) = MAX_SESSIONS + 1
        /\ IsFiniteSet(Slots) /\ Cardinality(Slots) = MAX_SESSIONS
    <3>1. 1 \in Int /\ MAX_SESSIONS \in Int /\ MAX_SESSIONS + 1 \in Int /\ ~(1 > MAX_SESSIONS + 1)
      BY <1>1
    <3>2. IsFiniteSet(1..MAX_SESSIONS + 1) /\ Cardinality(1..MAX_SESSIONS + 1) = MAX_SESSIONS + 1 - 1 + 1
      BY <3>1, FS_Interval
    <3>3. IsFiniteSet(1..MAX_SESSIONS) /\ Cardinality(1..MAX_SESSIONS) = MAX_SESSIONS
      <4>1. ~(1 > MAX_SESSIONS)
        BY SessionAssumption
      <4>2. IsFiniteSet(1..MAX_SESSIONS) /\ Cardinality(1..MAX_SESSIONS) = MAX_SESSIONS - 1 + 1
        BY <3>1, <4>1, FS_Interval
      <4> QED
        BY <1>1, <4>2
    <3> QED
      BY <1>1, <3>2, <3>3 DEF Mboxes, Slots
  <2>4. Cardinality(Slots) < Cardinality(Mboxes)
    BY <1>1, <2>3
  <2> HIDE DEF f
  <2>5. PICK x, y \in Mboxes : x # y /\ f[x] = f[y]
    BY <2>2, <2>3, <2>4, FS_PigeonHole
  <2> QED
    BY <2>1, <2>5
<1>4. (Mboxes \ open) \in SUBSET Nat
  BY <1>1 DEF Mboxes
<1> QED
  BY <1>3, <1>4, LeastNumber

LEMMA AcceptKeeps ==
  ASSUME SessionInv, Accept
  PROVE  SessionInv'
<1>1. scratch = 0 /\ conns < MaxConns
  BY DEF Accept, Accepting
<1>2. PICK m : /\ m = CHOOSE k \in Mboxes \ open : \A n \in Mboxes \ open : k <= n
               /\ conns' = conns + 1
               /\ IF NumSessions = MAX_SESSIONS
                    THEN UNCHANGED <<scratch, open, dead>>
                    ELSE /\ scratch' = m /\ open' = open \cup {m}
                         /\ dead' = (IndexOf(m) # 0 /\ S[IndexOf(m)].status = "op")
  BY DEF Accept
<1>3. m \in Mboxes /\ m \notin open
  BY <1>1, <1>2, MailboxLeft
<1>4. /\ S' = S /\ list' = list /\ hash' = hash /\ free' = free /\ high' = high /\ down' = down /\ ring' = ring
      /\ badgers' = badgers /\ members' = members /\ mboxes' = mboxes /\ joined' = joined /\ given' = given
      /\ out' = out /\ strays' = strays /\ requests' = requests /\ serial' = serial
  BY DEF Accept, sessVars, groupVars, outVars
<1>5. conns' \in 0..MaxConns /\ conns' # 0 /\ conns \in Nat /\ MaxConns \in Nat
  BY <1>1, <1>2, InvFacts, SessionAssumption, SMTT(30)
<1>6. Alive(S) \subseteq Used(S) /\ Used(S) \subseteq Slots
  BY InvFacts
<1>7. scratch' \in Mboxes \cup {0}
  BY <1>1, <1>2, <1>3
<1>8. \A s \in Used(S) : S[s].conn \in 1..conns' /\ S[s].conn # conns'
  <2>1. \A s \in Used(S) : S[s].conn \in 1..conns
    BY DEF SessionInv, ConnsOK
  <2> QED
    BY <1>2, <1>5, <2>1
<1>9. ConnsOK(S', scratch', conns')
  BY <1>4, <1>5, <1>8 DEF SessionInv, ConnsOK
<1>10. StreamsOK(S', given', out', scratch', conns')
  <2>1. \A c \in Conns : c >= conns' => c > conns
    BY <1>2, <1>5 DEF Conns
  <2>2. \A c \in Conns : c > conns' \/ (c = conns' /\ scratch' # 0) => c >= conns'
    BY <1>5 DEF Conns
  <2> QED
    BY <1>4, <2>1, <2>2 DEF SessionInv, StreamsOK
<1>11. \A s \in Alive(S) : S[s].mbox # m
  BY <1>1, <1>3 DEF SessionInv, OpenOK
<1>12. OpenOK(S', open', scratch', free') /\ dead' = FALSE
  <2>1. CASE NumSessions = MAX_SESSIONS
    BY <1>2, <1>4, <2>1 DEF SessionInv
  <2>2. CASE NumSessions # MAX_SESSIONS
    <3>1. scratch' = m /\ open' = open \cup {m}
      BY <1>2, <2>2
    <3>2. free # <<>>
      <4>1. list \in Seq(Slots) /\ free \in Seq(Slots) /\ Len(list) + Len(free) = MAX_SESSIONS
        BY DEF SessionInv, ListOK
      <4>2. Len(list) # MAX_SESSIONS
        BY <2>2 DEF NumSessions
      <4> QED
        BY ONLY <4>1, <4>2
    <3>3. m # 0
      BY <1>3, SessionAssumption DEF Mboxes
    <3>4. OpenOK(S', open', scratch', free')
      <4>1. open \subseteq Mboxes /\ open = {S[s].mbox : s \in Alive(S)}
        BY <1>1 DEF SessionInv, OpenOK
      <4>2. open' = {S'[s].mbox : s \in Alive(S')} \cup ({scratch'} \ {0})
        BY <1>4, <3>1, <3>3, <4>1
      <4>3. \A s \in Alive(S') : S'[s].mbox # scratch'
        BY <1>4, <1>11, <3>1
      <4> QED
        BY <1>3, <1>4, <1>7, <3>1, <3>2, <4>1, <4>2, <4>3 DEF OpenOK
    <3>5. ~(IndexOf(m) # 0 /\ S[IndexOf(m)].status = "op")
      <4>1. HashOK(S, hash)
        BY DEF SessionInv
      <4>2. CASE \E s \in Used(S) : S[s].mbox = m
        <5>1. IndexOf(m) \in Slots /\ S[IndexOf(m)].mbox = m
          BY ONLY <1>3, <4>1, <4>2, IndexIs
        <5>2. IndexOf(m) \notin Alive(S)
          BY <1>11, <5>1
        <5> QED
          BY <5>1, <5>2 DEF Alive
      <4>3. CASE ~\E s \in Used(S) : S[s].mbox = m
        BY ONLY <1>3, <4>1, <4>3, IndexIs
      <4> QED
        BY <4>2, <4>3
    <3> QED
      BY <1>2, <2>2, <3>4, <3>5
  <2> QED
    BY <2>1, <2>2
<1>13. Ahead(S', ring' \o down', serial', scratch') <= conns' + requests'
  <2>1. PICK d : d = IF scratch' = 0 THEN 0 ELSE 1
    OBVIOUS
  <2>2. PICK a, b : a = Len(ring \o down) /\ b = Cardinality(Alive(S))
    OBVIOUS
  <2>3. a \in Nat /\ b \in Nat /\ serial \in Nat /\ conns \in Nat /\ requests \in Nat
    BY <2>2, InvFacts DEF SessionInv
  <2>4. serial + a + b + 0 <= conns + requests
    BY <1>1, <2>2 DEF SessionInv, Ahead
  <2>5. d \in {0, 1}
    BY <2>1
  <2>6. serial + a + b + d <= conns + 1 + requests
    BY ONLY <2>3, <2>4, <2>5
  <2> QED
    BY ONLY <1>2, <1>4, <2>1, <2>2, <2>6 DEF Ahead
<1> QED
  BY <1>4, <1>9, <1>10, <1>12, <1>13 DEF SessionInv

LEMMA NoPieces ==
  Pieces(<<>>, 0) = <<>> /\ <<>> \o Pieces(<<>>, 0) = Pieces(<<>>, 0)
<1>1. <<>> \in Seq(Serials) /\ Len(<<>>) = 0 /\ 0 \in Nat
  OBVIOUS
<1>2. PiecesIn(0) = 0
  BY PiecesInIs
<1>3. PiecesIn(Len(<<>>)) = 0 + 0
  BY ONLY <1>1, <1>2
<1>4. PICK p : p = Pieces(<<>>, 0)
  OBVIOUS
<1>5. p \in Seq(Serials \X Nat) /\ Len(p) = 0
  BY ONLY <1>1, <1>3, <1>4, PiecesType
<1>6. p = <<>> /\ <<>> \o p = p
  BY ONLY <1>5
<1> QED
  BY <1>4, <1>6

\* Nothing was given to a session that is new, and nothing written.
LEMMA NewStream ==
  ASSUME NEW r, r.queue = <<>>, r.at = 0, NEW giv, NEW o, giv[r.conn] = <<>>, o[r.conn] = <<>>
  PROVE  StreamOK(r, giv, o)
  BY NoPieces DEF StreamOK

\* The session that is named (Sess_accept_continue).
Fresh(c, name, m, status) == [NoSession EXCEPT !.conn = c, !.name = name, !.mbox = m, !.status = status]

LEMMA FreshIs ==
  ASSUME NEW c \in 0..MaxConns, NEW name \in Names, NEW m \in Mboxes, NEW status \in {"op", "preauth"},
         NEW r, r = Fresh(c, name, m, status)
  PROVE  /\ r \in SessionRec /\ r.conn = c /\ r.name = name /\ r.mbox = m /\ r.status = status
         /\ r.queue = <<>> /\ r.at = 0
<1>1. 0 \in 0..Units - 1
  BY UnitsIs
<1>2. r = [conn |-> c, name |-> name, mbox |-> m, status |-> status, queue |-> <<>>, at |-> 0]
  BY DEF Fresh, NoSession
<1>3. <<>> \in Seq(Serials) /\ status \in Statuses
  BY DEF Statuses
<1>4. r \in SessionRec
  BY ONLY <1>1, <1>2, <1>3, c \in 0..MaxConns, name \in Names, m \in Mboxes DEF SessionRec
<1> QED
  BY <1>2, <1>4

\* The tables when the session of the connection that is being named is inserted.
LEMMA Inserted ==
  ASSUME SessionInv, scratch # 0, NEW name \in Names, ~Found(name), NEW status \in {"op", "preauth"},
         NEW s, s = Head(free), NEW Q, Q = [S EXCEPT ![s] = Fresh(conns, name, scratch, status)],
         NEW l, l = InsertAt(list, Place(name), s), NEW f, f = Tail(free),
         NEW h, h = [hash EXCEPT ![scratch] = <<s>> \o @]
  PROVE  /\ s \in Slots /\ s \notin Used(S) /\ Others(S, Q, s) /\ Q[s] = Fresh(conns, name, scratch, status)
         /\ Used(Q) = Used(S) \cup {s} /\ ListOK(Q, l, f) /\ HashOK(Q, h)
         /\ conns \in 0..MaxConns /\ conns # 0 /\ scratch \in Mboxes
<1>1. ListOK(S, list, free) /\ HashOK(S, hash) /\ ConnsOK(S, scratch, conns) /\ S \in [Slots -> SessionRec]
  BY DEF SessionInv, ConnsOK
<1>2. conns \in 0..MaxConns /\ conns # 0 /\ scratch \in Mboxes /\ \A t \in Alive(S) : S[t].mbox # scratch
  BY DEF SessionInv, ConnsOK, OpenOK
<1>3. free # <<>> /\ s \in Slots
  BY <1>1 DEF SessionInv, OpenOK, ListOK
<1>4. PICK r : r = Fresh(conns, name, scratch, status)
  OBVIOUS
<1>5. r \in SessionRec /\ r.name = name /\ r.mbox = scratch /\ r.status = status
  BY ONLY <1>2, <1>4, name \in Names, status \in {"op", "preauth"}, FreshIs
<1>6. Others(S, Q, s) /\ Q[s] = r
  BY <1>1, <1>3, <1>4, <1>5 DEF Others
<1>7. name \in Nat
  BY SessionAssumption
<1>8. PICK p : p = Place(name)
  OBVIOUS
<1>9. p \in 1..Len(list) + 1 /\ \A i \in 1..Len(list) : i < p => S[list[i]].name < name
  BY <1>1, <1>7, <1>8, PlaceInList
<1>10. \A i \in 1..Len(list) : p <= i => name < S[list[i]].name
  <2>1. \A i \in 1..Len(list) : p <= i => S[list[i]].name >= name
    BY <1>1, <1>7, <1>8, PlaceInList
  <2>2. \A i \in 1..Len(list) : S[list[i]].name # name
    <3>1. \A t \in Used(S) : S[t].name # name
      BY ONLY <1>1, <1>7, ~Found(name), NamedIs
    <3>2. \A i \in 1..Len(list) : list[i] \in Used(S)
      BY <1>1, ListNames
    <3> QED
      BY ONLY <3>1, <3>2
  <2>3. \A i \in 1..Len(list) : S[list[i]].name \in Nat
    BY <1>1, ListNames
  <2> QED
    BY ONLY <1>7, <2>1, <2>2, <2>3
<1>11. ListOK(Q, l, f) /\ Used(Q) = Used(S) \cup {s} /\ s \notin Used(S)
  <2>1. Q[s].status # "free" /\ Q[s].name = name
    BY <1>5, <1>6
  <2>2. l = InsertAt(list, p, s) /\ f = Tail(free) /\ s = Head(free)
    BY <1>8
  <2> QED
    <3>1. Between(S, list, p, name)
      BY ONLY <1>7, <1>9, <1>10 DEF Between
    <3>2. Between(S, list, p, Q[s].name)
      BY ONLY <2>1, <3>1
    <3>3. Gains(S, list, free, s, Q, p, l, f)
      BY ONLY <1>1, <1>3, <1>6, <2>1, <2>2, <3>2 DEF Gains
    <3> QED
      BY ONLY <1>1, <3>3, ListInserts
<1>12. HashOK(Q, h)
  <2>1. Q[s].mbox = scratch
    BY <1>5, <1>6
  <2>2. h = [hash EXCEPT ![scratch] = <<s>> \o @]
    OBVIOUS
  <2> QED
    BY ONLY <1>1, <1>2, <1>3, <1>6, <1>11, <2>1, <2>2, HashInserts
<1> QED
  BY <1>2, <1>3, <1>4, <1>6, <1>11, <1>12

LEMMA AcceptContinueKeeps ==
  ASSUME SessionInv, NEW name \in Names, AcceptContinue(name)
  PROVE  SessionInv'
<1>1. scratch # 0 /\ scratch' = 0 /\ ~Found(name) /\ free # <<>>
  BY DEF AcceptContinue, SessionInv, OpenOK
<1>2. PICK status \in {"op", "preauth"} : Insert(name, status) /\ dead' = dead
  BY <1>1 DEF AcceptContinue
<1>3. /\ high' = high /\ down' = down /\ ring' = ring /\ open' = open
      /\ badgers' = badgers /\ members' = members /\ mboxes' = mboxes /\ joined' = joined /\ given' = given
      /\ out' = out /\ strays' = strays /\ requests' = requests /\ serial' = serial /\ conns' = conns
  BY DEF AcceptContinue, groupVars, outVars, bounds
<1>4. PICK s : s = Head(free)
  OBVIOUS
<1>5. /\ S' = [S EXCEPT ![s] = Fresh(conns, name, scratch, status)]
      /\ list' = InsertAt(list, Place(name), s) /\ hash' = [hash EXCEPT ![scratch] = <<s>> \o @]
      /\ free' = Tail(free)
  BY <1>2, <1>4 DEF Insert, Fresh
<1>6. /\ s \in Slots /\ s \notin Used(S) /\ Others(S, S', s) /\ S'[s] = Fresh(conns, name, scratch, status)
      /\ Used(S') = Used(S) \cup {s} /\ ListOK(S', list', free') /\ HashOK(S', hash')
      /\ conns \in 0..MaxConns /\ conns # 0 /\ scratch \in Mboxes
  BY ONLY SessionInv, <1>1, <1>4, <1>5, name \in Names, status \in {"op", "preauth"}, Inserted, ZenonT(60)
<1>7. /\ S'[s].conn = conns /\ S'[s].name = name /\ S'[s].mbox = scratch /\ S'[s].status = status
      /\ S'[s].queue = <<>> /\ S'[s].at = 0
  BY ONLY <1>6, name \in Names, status \in {"op", "preauth"}, FreshIs
<1>8. S' \in [Slots -> SessionRec] /\ \A t \in Slots : t # s => S'[t] = S[t]
  BY <1>6 DEF Others
<1>9. Alive(S') = Alive(S) \cup {s} /\ s \notin Alive(S) /\ Known(S) \subseteq Known(S')
  BY <1>6, <1>7, <1>8 DEF Alive, Used, Known
<1>10. Alive(S) \subseteq Slots /\ Used(S) \subseteq Slots /\ Known(S) \subseteq Slots /\ s \notin Known(S)
  BY <1>6, InvFacts
<1>11. OpenOK(S', open', scratch', free')
  <2>1. open \subseteq Mboxes /\ open = {S[t].mbox : t \in Alive(S)} \cup {scratch}
    BY <1>1 DEF SessionInv, OpenOK
  <2>2. \A t \in Alive(S) : S'[t].mbox = S[t].mbox
    BY <1>8, <1>9, <1>10
  <2>3. {S'[t].mbox : t \in Alive(S')} = {S[t].mbox : t \in Alive(S)} \cup {scratch}
    BY <1>7, <1>9, <2>2
  <2> QED
    BY <1>1, <1>3, <2>1, <2>3 DEF OpenOK
<1>12. ConnsOK(S', scratch', conns')
  <2>1. \A t \in Used(S) : /\ S[t].conn \in 1..conns /\ S[t].name \in Names /\ S[t].mbox \in Mboxes /\ S[t].conn # conns
                           /\ S'[t] = S[t] /\ t # s
    BY <1>1, <1>6, <1>8, <1>10 DEF SessionInv, ConnsOK
  <2>2. \A t, u \in Used(S) : S[t].conn = S[u].conn => t = u
    BY DEF SessionInv, ConnsOK
  <2>3. conns \in 1..conns
    BY <1>6, InvFacts
  <2>4. \A t \in Used(S') : S'[t].conn \in 1..conns /\ S'[t].name \in Names /\ S'[t].mbox \in Mboxes
    BY <1>6, <1>7, <2>1, <2>3
  <2>5. \A t, u \in Used(S') : S'[t].conn = S'[u].conn => t = u
    BY <1>6, <1>7, <2>1, <2>2
  <2> QED
    BY <1>1, <1>3, <1>6, <1>8, <2>4, <2>5 DEF ConnsOK
<1>13. FlightOK(S', ring' \o down', 0)
  <2>1. FlightOK(S, ring \o down, 0)
    BY DEF SessionInv
  <2>2. \A t \in Known(S) : t # 0 => t \in Slots /\ S'[t].status = S[t].status /\ S'[t].conn = S[t].conn /\ S'[t].name = S[t].name
    BY <1>8, <1>10
  <2>3. \A t \in Slots : S'[t].status = "killed" => t # 0 /\ S[t].status = "killed"
    <3>1. \A t \in Slots : t # 0
      BY SessionAssumption DEF Slots
    <3> QED
      BY <1>7, <1>8, <3>1
  <2>4. FlightOK(S', ring \o down, 0)
    BY ONLY <2>1, <2>2, <2>3, FlightKeeps
  <2> QED
    BY <1>3, <2>4
<1>14. GroupsOK(S', members', mboxes')
  <2>1. GroupsOK(S, members, mboxes)
    BY DEF SessionInv
  <2>2. \A t \in Known(S) : t \in Known(S') /\ S'[t].name = S[t].name /\ S'[t].mbox = S[t].mbox
    BY <1>8, <1>9, <1>10
  <2>3. GroupsOK(S', members, mboxes)
    BY ONLY <2>1, <2>2, GroupsKeep
  <2> QED
    BY <1>3, <2>3
<1>15. StreamsOK(S', given', out', scratch', conns')
  <2>1. /\ given \in [Conns -> Seq(Serials)] /\ out \in [Conns -> Seq(Serials \X Nat)]
        /\ \A t \in Slots : StreamOK(S[t], given, out)
        /\ \A c \in Conns : c > conns \/ c = conns => given[c] = <<>> /\ out[c] = <<>>
    BY <1>1 DEF SessionInv, StreamsOK
  <2>2. conns \in Conns
    BY <1>6, InvFacts DEF Conns
  <2>3. StreamOK(S'[s], given, out)
    <3>1. PICK r : r = S'[s]
      OBVIOUS
    <3>2. r.queue = <<>> /\ r.at = 0 /\ given[r.conn] = <<>> /\ out[r.conn] = <<>>
      BY <1>7, <2>1, <2>2, <3>1
    <3>3. StreamOK(r, given, out)
      BY ONLY <3>2, NewStream
    <3> QED
      BY <3>1, <3>3
  <2>4. \A t \in Slots : StreamOK(S'[t], given, out)
    BY ONLY <1>8, <2>1, <2>3
  <2> QED
    BY ONLY <1>1, <1>3, <2>1, <2>4 DEF StreamsOK
<1>16. Ahead(S', ring' \o down', serial', scratch') <= conns' + requests'
  <2>1. PICK a, b : a = Len(ring \o down) /\ b = Cardinality(Alive(S))
    OBVIOUS
  <2>2. a \in Nat /\ b \in Nat /\ serial \in Nat /\ conns \in Nat /\ requests \in Nat
    BY <2>1, InvFacts DEF SessionInv
  <2>3. serial + a + b + 1 <= conns + requests
    BY <1>1, <2>1 DEF SessionInv, Ahead
  <2>4. IsFiniteSet(Alive(S))
    BY <1>10, SlotsFinite
  <2>5. Cardinality(Alive(S')) = b + 1
    BY ONLY <1>9, <2>1, <2>4, FS_AddElement
  <2>6. serial + a + (b + 1) + 0 <= conns + requests
    BY ONLY <2>2, <2>3
  <2> QED
    BY ONLY <1>1, <1>3, <2>1, <2>5, <2>6 DEF Ahead
<1>17. /\ ring' \in Seq(PacketSet) /\ down' \in Seq(PacketSet) /\ joined' \in [Conns -> SUBSET GroupNames]
       /\ strays' \subseteq Conns /\ badgers' \subseteq Mboxes /\ high' \in BOOLEAN /\ dead' = FALSE
       /\ requests' \in 0..MaxRequests /\ serial' \in Nat
  BY <1>2, <1>3 DEF SessionInv
<1> QED
  BY <1>6, <1>11, <1>12, <1>13, <1>14, <1>15, <1>16, <1>17 DEF SessionInv

\* Sess_remove_session and Sess_unhash_session of session s.
Forgets(R, l, f, h, s, Q, l2, f2, h2) ==
  /\ ListOK(R, l, f) /\ HashOK(R, h) /\ s \in Used(R) /\ Q = [R EXCEPT ![s] = NoSession]
  /\ l2 = Unlink(l, s) /\ f2 = <<s>> \o f /\ h2 = [h EXCEPT ![R[s].mbox] = Unlink(@, s)]

LEMMA Forgotten ==
  ASSUME NEW R, NEW sc, NEW n, ConnsOK(R, sc, n), NEW l, NEW f, NEW h, NEW s, NEW Q, NEW l2, NEW f2, NEW h2,
         Forgets(R, l, f, h, s, Q, l2, f2, h2)
  PROVE  /\ ListOK(Q, l2, f2) /\ HashOK(Q, h2) /\ ConnsOK(Q, sc, n) /\ f2 # <<>> /\ s \in Slots
         /\ Others(R, Q, s) /\ Q[s] = NoSession /\ Used(Q) = Used(R) \ {s}
         /\ Alive(Q) = Alive(R) \ {s} /\ Known(Q) = Known(R) \ {s}
<1>0. /\ ListOK(R, l, f) /\ HashOK(R, h) /\ s \in Used(R) /\ Q = [R EXCEPT ![s] = NoSession]
      /\ l2 = Unlink(l, s) /\ f2 = <<s>> \o f /\ h2 = [h EXCEPT ![R[s].mbox] = Unlink(@, s)]
  BY DEF Forgets
<1>1. R \in [Slots -> SessionRec] /\ s \in Slots
  BY <1>0 DEF ConnsOK, Used
<1>2. NoSession \in SessionRec /\ NoSession.status = "free"
  <2>1. 0 \in 0..MaxConns /\ 0 \in 0..Units - 1
    BY SessionAssumption
  <2> QED
    BY <2>1 DEF NoSession, SessionRec, Statuses
<1>3. Others(R, Q, s) /\ Q[s] = NoSession
  BY <1>0, <1>1, <1>2 DEF Others
<1>4. Q[s].status = "free"
  BY <1>2, <1>3
<1>5. ListOK(Q, l2, f2) /\ Used(Q) = Used(R) \ {s} /\ f2 # <<>>
  <2>1. Drops(R, l, f, s, Q, l2, f2)
    BY ONLY <1>0, <1>3, <1>4 DEF Drops
  <2> QED
    BY ONLY ConnsOK(R, sc, n), <2>1, ListForgets
<1>6. HashOK(Q, h2)
  BY ONLY ConnsOK(R, sc, n), <1>0, <1>3, <1>4, <1>5, HashForgets
<1>7. ConnsOK(Q, sc, n)
  <2>1. \A t \in Used(Q) : t \in Used(R) /\ Q[t] = R[t]
    BY <1>3, <1>5 DEF Others, Used
  <2>2. Q \in [Slots -> SessionRec]
    BY <1>3 DEF Others
  <2> QED
    BY <2>1, <2>2 DEF ConnsOK
<1>8. Alive(Q) = Alive(R) \ {s} /\ Known(Q) = Known(R) \ {s}
  BY <1>3, <1>4 DEF Others, Alive, Known
<1> QED
  BY <1>1, <1>3, <1>5, <1>6, <1>7, <1>8

LEMMA ForgottenStreams ==
  ASSUME NEW R, NEW Q, NEW s, Others(R, Q, s), Q[s] = NoSession, s \in Slots,
         NEW giv, NEW o, NEW sc, NEW n, StreamsOK(R, giv, o, sc, n)
  PROVE  StreamsOK(Q, giv, o, sc, n)
<1>1. \A t \in Slots : t # s => StreamOK(Q[t], giv, o)
  BY DEF StreamsOK, Others
<1>2. StreamOK(Q[s], giv, o)
  BY DEF StreamOK, NoSession
<1> QED
  BY <1>1, <1>2 DEF StreamsOK

LEMMA DenyKeeps ==
  ASSUME SessionInv, NEW s \in Slots, S[s].status = "preauth", Deny(s),
         UNCHANGED <<scratch, badgers, high, down, ring, groupVars, outVars, dead, bounds>>
  PROVE  SessionInv'
<1>1. /\ S' = [S EXCEPT ![s] = NoSession] /\ open' = open \ {S[s].mbox} /\ list' = Unlink(list, s)
      /\ free' = <<s>> \o free /\ hash' = [hash EXCEPT ![S[s].mbox] = Unlink(@, s)]
  BY DEF Deny, Forget
<1>2. /\ high' = high /\ down' = down /\ ring' = ring /\ scratch' = scratch
      /\ badgers' = badgers /\ members' = members /\ mboxes' = mboxes /\ joined' = joined /\ given' = given
      /\ out' = out /\ strays' = strays /\ requests' = requests /\ serial' = serial /\ conns' = conns /\ dead' = dead
  BY DEF groupVars, outVars, bounds
<1>3. s \in Used(S) /\ s \in Alive(S) /\ s \notin Known(S)
  BY DEF Used, Alive, Known
<1>4. ListOK(S, list, free) /\ HashOK(S, hash) /\ ConnsOK(S, scratch, conns)
  BY DEF SessionInv
<1>5. /\ ListOK(S', list', free') /\ HashOK(S', hash') /\ ConnsOK(S', scratch, conns) /\ free' # <<>>
      /\ Others(S, S', s) /\ S'[s] = NoSession
      /\ Alive(S') = Alive(S) \ {s} /\ Known(S') = Known(S) \ {s}
  <2>1. Forgets(S, list, free, hash, s, S', list', free', hash')
    BY ONLY <1>1, <1>3, <1>4 DEF Forgets
  <2> QED
    BY ONLY <1>4, <2>1, Forgotten
<1>6. \A t \in Slots : t # s => S'[t] = S[t]
  BY <1>5 DEF Others
<1>7. Alive(S) \subseteq Slots /\ Known(S) \subseteq Slots
  BY InvFacts
<1>8. OpenOK(S', open', scratch', free')
  <2>1. /\ scratch \in Mboxes \cup {0} /\ open \subseteq Mboxes
        /\ open = {S[t].mbox : t \in Alive(S)} \cup ({scratch} \ {0})
        /\ scratch # 0 => \A t \in Alive(S) : S[t].mbox # scratch
    BY DEF SessionInv, OpenOK
  <2>2. \A t \in Alive(S) : t # s => S[t].mbox # S[s].mbox /\ S'[t] = S[t]
    <3>1. \A t \in Alive(S) : S[t].mbox = S[s].mbox => t = s
      BY ONLY <1>3, <1>4, MailboxesDiffer
    <3> QED
      BY <1>6, <1>7, <3>1
  <2>3. \A t \in Alive(S') : t \in Alive(S) /\ t # s /\ S'[t].mbox = S[t].mbox
    BY <1>5, <2>2
  <2>4. open' = {S'[t].mbox : t \in Alive(S')} \cup ({scratch} \ {0})
    <3>1. \A m : m \in open' => m \in {S'[t].mbox : t \in Alive(S')} \cup ({scratch} \ {0})
      BY <1>1, <1>5, <2>1, <2>3, ZenonT(60)
    <3>2. ASSUME NEW t \in Alive(S')
          PROVE  S'[t].mbox \in open'
      <4>1. t \in Alive(S) /\ S'[t].mbox = S[t].mbox /\ S[t].mbox # S[s].mbox
        BY <2>2, <2>3, <3>2
      <4>2. S[t].mbox \in open
        BY ONLY <2>1, <4>1
      <4> QED
        BY <1>1, <4>1, <4>2
    <3>3. \A m : m \in {scratch} \ {0} => m \in open'
      BY <1>1, <1>3, <2>1
    <3> QED
      BY ONLY <3>1, <3>2, <3>3
  <2> QED
    BY <1>1, <1>2, <1>5, <2>1, <2>3, <2>4 DEF OpenOK
<1>9. FlightOK(S', ring' \o down', 0)
  <2>1. FlightOK(S, ring \o down, 0)
    BY DEF SessionInv
  <2>2. \A t \in Known(S) : t # 0 => t \in Slots /\ S'[t].status = S[t].status /\ S'[t].conn = S[t].conn /\ S'[t].name = S[t].name
    BY <1>3, <1>6, <1>7
  <2>3. \A t \in Slots : S'[t].status = "killed" => t # 0 /\ S[t].status = "killed"
    <3>1. \A t \in Slots : t # 0
      BY SessionAssumption DEF Slots
    <3> QED
      BY <1>5, <1>6, <3>1 DEF NoSession
  <2>4. FlightOK(S', ring \o down, 0)
    BY ONLY <2>1, <2>2, <2>3, FlightKeeps
  <2> QED
    BY <1>2, <2>4
<1>10. GroupsOK(S', members', mboxes')
  <2>1. GroupsOK(S, members, mboxes)
    BY DEF SessionInv
  <2>2. \A t \in Known(S) : t \in Known(S') /\ S'[t].name = S[t].name /\ S'[t].mbox = S[t].mbox
    BY <1>3, <1>5, <1>6, <1>7
  <2>3. GroupsOK(S', members, mboxes)
    BY ONLY <2>1, <2>2, GroupsKeep
  <2> QED
    BY <1>2, <2>3
<1>11. StreamsOK(S', given', out', scratch', conns')
  <2>1. StreamsOK(S, given, out, scratch, conns)
    BY DEF SessionInv
  <2>2. StreamsOK(S', given, out, scratch, conns)
    BY ONLY <1>5, <2>1, s \in Slots, ForgottenStreams
  <2> QED
    BY <1>2, <2>2
<1>12. Ahead(S', ring' \o down', serial', scratch') <= conns' + requests'
  <2>1. PICK a, b, d : a = Len(ring \o down) /\ b = Cardinality(Alive(S)) /\ d = IF scratch = 0 THEN 0 ELSE 1
    OBVIOUS
  <2>2. a \in Nat /\ b \in Nat /\ serial \in Nat /\ conns \in Nat /\ requests \in Nat /\ d \in Nat
    BY <2>1, InvFacts DEF SessionInv
  <2>3. serial + a + b + d <= conns + requests
    BY <2>1 DEF SessionInv, Ahead
  <2>4. IsFiniteSet(Alive(S))
    BY <1>7, SlotsFinite
  <2>5. Cardinality(Alive(S')) = b - 1
    BY ONLY <1>3, <1>5, <2>1, <2>4, FS_RemoveElement
  <2>6. serial + a + (b - 1) + d <= conns + requests
    BY ONLY <2>2, <2>3
  <2> QED
    BY ONLY <1>2, <2>1, <2>5, <2>6 DEF Ahead
<1>13. /\ ring' \in Seq(PacketSet) /\ down' \in Seq(PacketSet) /\ joined' \in [Conns -> SUBSET GroupNames]
       /\ strays' \subseteq Conns /\ badgers' \subseteq Mboxes /\ high' \in BOOLEAN /\ dead' = FALSE
       /\ requests' \in 0..MaxRequests /\ serial' \in Nat
  BY <1>2 DEF SessionInv
<1> QED
  BY <1>2, <1>5, <1>8, <1>9, <1>10, <1>11, <1>12, <1>13 DEF SessionInv

LEMMA AuthorizeKeeps ==
  ASSUME SessionInv, NEW s \in Slots, S[s].status = "preauth", Authorize(s),
         UNCHANGED <<scratch, badgers, high, down, ring, groupVars, outVars, dead, bounds>>
  PROVE  SessionInv'
<1>1. S' = [S EXCEPT ![s].status = "op"]
  BY DEF Authorize
<1>2. /\ high' = high /\ down' = down /\ ring' = ring /\ scratch' = scratch /\ list' = list /\ hash' = hash
      /\ free' = free /\ open' = open
      /\ badgers' = badgers /\ members' = members /\ mboxes' = mboxes /\ joined' = joined /\ given' = given
      /\ out' = out /\ strays' = strays /\ requests' = requests /\ serial' = serial /\ conns' = conns /\ dead' = dead
  BY DEF Authorize, groupVars, outVars, bounds
<1>3. S \in [Slots -> SessionRec] /\ S[s] \in SessionRec
  BY InvFacts
<1>4. /\ S'[s] \in SessionRec /\ S'[s].status = "op" /\ S'[s].conn = S[s].conn /\ S'[s].name = S[s].name
      /\ S'[s].mbox = S[s].mbox /\ S'[s].queue = S[s].queue /\ S'[s].at = S[s].at
  <2>1. "op" \in Statuses
    BY DEF Statuses
  <2>2. [S[s] EXCEPT !.status = "op"] \in SessionRec
    BY ONLY <1>3, <2>1 DEF SessionRec
  <2>3. S'[s] = [S[s] EXCEPT !.status = "op"]
    BY <1>1, <1>3
  <2> QED
    BY <1>3, <2>2, <2>3 DEF SessionRec
<1>5. S' \in [Slots -> SessionRec] /\ \A t \in Slots : t # s => S'[t] = S[t]
  BY <1>1, <1>3, <1>4
<1>6. /\ Used(S') = Used(S) /\ Alive(S') = Alive(S) /\ Known(S) \subseteq Known(S') /\ s \in Alive(S) /\ s \notin Known(S)
      /\ \A t \in Slots : S'[t].conn = S[t].conn /\ S'[t].name = S[t].name /\ S'[t].mbox = S[t].mbox
  BY <1>4, <1>5 DEF Used, Alive, Known
<1>7. Used(S) \subseteq Slots /\ Alive(S) \subseteq Slots /\ Known(S) \subseteq Slots
  BY InvFacts
<1>8. ListOK(S', list', free')
  <2>1. ListOK(S, list, free)
    BY DEF SessionInv
  <2>2. \A i \in DOMAIN list : list[i] \in Slots /\ S'[list[i]].name = S[list[i]].name
    BY <1>6, <2>1 DEF ListOK
  <2> QED
    BY <1>2, <1>6, <2>1, <2>2 DEF ListOK
<1>9. HashOK(S', hash')
  <2>1. HashOK(S, hash)
    BY DEF SessionInv
  <2>2. \A t \in Alive(S') : hash'[S'[t].mbox][1] = t
    BY <1>2, <1>6, <1>7, <2>1 DEF HashOK
  <2>3. \A n \in Mboxes, t \in Slots : (t \in Used(S') /\ S'[t].mbox = n) <=> (t \in Used(S) /\ S[t].mbox = n)
    BY <1>6
  <2> QED
    BY ONLY <1>2, <2>1, <2>2, <2>3 DEF HashOK
<1>10. OpenOK(S', open', scratch', free')
  BY <1>2, <1>6, <1>7 DEF SessionInv, OpenOK
<1>11. ConnsOK(S', scratch', conns')
  BY <1>2, <1>5, <1>6, <1>7 DEF SessionInv, ConnsOK
<1>12. FlightOK(S', ring' \o down', 0)
  <2>1. FlightOK(S, ring \o down, 0)
    BY DEF SessionInv
  <2>2. \A t \in Known(S) : t # 0 => t \in Slots /\ S'[t].status = S[t].status /\ S'[t].conn = S[t].conn /\ S'[t].name = S[t].name
    BY <1>5, <1>6, <1>7
  <2>3. \A t \in Slots : S'[t].status = "killed" => t # 0 /\ S[t].status = "killed"
    <3>1. \A t \in Slots : t # 0
      BY SessionAssumption DEF Slots
    <3> QED
      BY <1>4, <1>5, <3>1
  <2>4. FlightOK(S', ring \o down, 0)
    BY ONLY <2>1, <2>2, <2>3, FlightKeeps
  <2> QED
    BY <1>2, <2>4
<1>13. GroupsOK(S', members', mboxes')
  <2>1. GroupsOK(S, members, mboxes)
    BY DEF SessionInv
  <2>2. \A t \in Known(S) : t \in Known(S') /\ S'[t].name = S[t].name /\ S'[t].mbox = S[t].mbox
    BY <1>6, <1>7
  <2>3. GroupsOK(S', members, mboxes)
    BY ONLY <2>1, <2>2, GroupsKeep
  <2> QED
    BY <1>2, <2>3
<1>14. StreamsOK(S', given', out', scratch', conns')
  <2>1. StreamsOK(S, given, out, scratch, conns)
    BY DEF SessionInv
  <2>2. StreamOK(S'[s], given, out)
    <3>1. PICK r : r = S'[s]
      OBVIOUS
    <3>2. StreamOK(S[s], given, out)
      BY <2>1 DEF StreamsOK
    <3>3. r.queue = <<>> /\ r.at = 0 /\ given[r.conn] = <<>> /\ out[r.conn] = <<>>
      BY <1>4, <3>1, <3>2 DEF StreamOK
    <3>4. StreamOK(r, given, out)
      BY ONLY <3>3, NewStream
    <3> QED
      BY <3>1, <3>4
  <2>3. \A t \in Slots : StreamOK(S'[t], given, out)
    BY <1>5, <2>1, <2>2 DEF StreamsOK
  <2> QED
    BY ONLY <1>2, <2>1, <2>3 DEF StreamsOK
<1>15. Ahead(S', ring' \o down', serial', scratch') <= conns' + requests'
  BY <1>2, <1>6 DEF SessionInv, Ahead
<1>16. /\ ring' \in Seq(PacketSet) /\ down' \in Seq(PacketSet) /\ joined' \in [Conns -> SUBSET GroupNames]
       /\ strays' \subseteq Conns /\ badgers' \subseteq Mboxes /\ high' \in BOOLEAN /\ dead' = FALSE
       /\ requests' \in 0..MaxRequests /\ serial' \in Nat
  BY <1>2 DEF SessionInv
<1> QED
  BY <1>8, <1>9, <1>10, <1>11, <1>12, <1>13, <1>14, <1>15, <1>16 DEF SessionInv

LEMMA AuthenticatedKeeps ==
  ASSUME SessionInv, NEW s \in Slots, Authenticated(s)
  PROVE  SessionInv'
  BY AuthorizeKeeps, DenyKeeps DEF Authenticated

\* What is left of the bounds, as a handler that writes counts it.
LEMMA BudgetIs ==
  ASSUME SessionInv
  PROVE  /\ serial + Len(ring) + (Len(down) + Cardinality(Alive(S))) + (IF scratch = 0 THEN 0 ELSE 1) <= conns + requests
         /\ (IF scratch = 0 THEN 0 ELSE 1) \in Nat
<1>1. PICK a, b, c, d : /\ a = Len(ring) /\ b = Len(down) /\ c = Cardinality(Alive(S))
                        /\ d = IF scratch = 0 THEN 0 ELSE 1
  OBVIOUS
<1>2. a \in Nat /\ b \in Nat /\ c \in Nat /\ serial \in Nat /\ conns \in Nat /\ requests \in Nat
  BY <1>1, InvFacts DEF SessionInv
<1>3. d \in Nat
  BY <1>1
<1>4. Len(ring \o down) = a + b
  BY <1>1, InvFacts
<1>5. serial + (a + b) + c + d <= conns + requests
  BY <1>1, <1>4 DEF SessionInv, Ahead
<1>6. serial + a + (b + c) + d <= conns + requests
  BY ONLY <1>2, <1>3, <1>5
<1> QED
  BY ONLY <1>1, <1>3, <1>6

\* The session of a client that is read.
LEMMA AttachedIs ==
  ASSUME SessionInv, NEW m \in Mboxes, Attached(m)
  PROVE  /\ IndexOf(m) \in Slots /\ S[IndexOf(m)].status = "op" /\ IndexOf(m) \in Known(S) /\ IndexOf(m) \in Used(S)
         /\ S[IndexOf(m)].conn \in 1..conns /\ S[IndexOf(m)].conn \in Conns /\ S[IndexOf(m)].name \in Names
<1>1. PICK s \in Slots : S[s].status = "op" /\ S[s].mbox = m
  BY DEF Attached
<1>2. s \in Alive(S) /\ s \in Known(S) /\ s \in Used(S)
  BY <1>1 DEF Alive, Known, Used
<1>3. IndexOf(m) = s
  BY <1>1, <1>2, IndexIs DEF SessionInv
<1>4. S[s].conn \in 1..conns /\ S[s].name \in Names /\ conns \in 0..MaxConns
  BY <1>2 DEF SessionInv, ConnsOK
<1>5. S[s].conn \in Conns
  BY <1>4, SessionAssumption DEF Conns
<1> QED
  BY <1>1, <1>2, <1>3, <1>4, <1>5

LEMMA ReadEndKeeps ==
  ASSUME SessionInv, NEW m \in Mboxes, ReadEnd(m)
  PROVE  SessionInv'
<1>1. PICK s : s = IndexOf(m)
  OBVIOUS
<1>2. s \in Slots /\ S[s].status = "op"
  BY <1>1, AttachedIs DEF ReadEnd
<1>3. PICK n : n = Len(down) + Cardinality(Alive(S))
  OBVIOUS
<1>4. WriteInv(Cur, ring, 0, n)
  BY <1>3, CurIs DEF SessionInv
<1>5. PICK w : w = Kill(Cur, s)
  OBVIOUS
<1>6. Cur.S = S
  BY DEF Cur
<1>7. WriteInv(w, ring, 0, n)
  BY <1>2, <1>4, <1>5, <1>6, KillKeeps, InvFacts
<1>8. /\ Become(w) /\ list' = list /\ hash' = hash /\ free' = free /\ scratch' = scratch /\ ring' = ring
      /\ members' = members /\ mboxes' = mboxes /\ joined' = joined
      /\ conns' = conns /\ requests' = requests /\ serial' = serial
  BY <1>1, <1>5 DEF ReadEnd, groupVars, bounds
<1>9. /\ GroupsOK(S, members', mboxes') /\ joined' \in [Conns -> SUBSET GroupNames]
      /\ requests' \in 0..MaxRequests /\ serial' \in Nat
  BY <1>8 DEF SessionInv
<1>10. serial' + Len(ring') + n + (IF scratch = 0 THEN 0 ELSE 1) <= conns + requests'
  BY <1>3, <1>8, BudgetIs
<1>11. WriteInv(w, ring', 0, n)
  BY <1>7, <1>8
<1> QED
  BY ONLY SessionInv, <1>8, <1>9, <1>10, <1>11, BecomeKeeps

LEMMA BadgerKeeps ==
  ASSUME SessionInv, NEW m, NEW k \in 0..MaxTake, Badger(m, k)
  PROVE  SessionInv'
<1>1. PICK s : s = IndexOf(m)
  OBVIOUS
<1>2. PICK y : y = [Cur EXCEPT !.badgers = @ \ {m}]
  OBVIOUS
<1>3. PICK n : n = Len(down) + Cardinality(Alive(S))
  OBVIOUS
<1>4. WriteInv(Cur, ring, 0, n)
  BY <1>3, CurIs DEF SessionInv
<1>5. /\ Cur.S = S /\ Cur.out = out /\ Cur.given = given /\ DOMAIN Cur = WFields
      /\ DOMAIN y = WFields /\ y.S = S /\ y.open = open /\ y.badgers = badgers \ {m} /\ y.down = down
      /\ y.given = given /\ y.out = out /\ y.strays = strays /\ y.dead = dead
  BY <1>2 DEF Cur, WFields
<1>6. m \in badgers /\ m \in Mboxes
  BY DEF Badger, SessionInv
<1>7. \E w : WriteInv(w, ring, 0, n) /\ Become(w)
  <2>1. CASE s # 0 /\ S[s].status = "op" /\ S[s].queue # <<>>
    <3>1. PICK q : q = S[s].queue
      OBVIOUS
    <3>2. s \in Slots
      <4>1. HashOK(S, hash)
        BY DEF SessionInv
      <4> QED
        BY ONLY <1>1, <1>6, <2>1, <4>1, IndexIs
    <3>3. q \in Seq(Serials) /\ S[s].at \in Offsets /\ q # <<>>
      BY <2>1, <3>1, <3>2, InvFacts DEF SessionRec, Offsets
    <3>4. PICK waits : Waiting(q, S[s].at, waits)
      BY <3>3, QueueWaits
    <3>5. PICK c : c = S[s].conn
      OBVIOUS
    <3>6. out[c] \o Pieces(q, S[s].at) = Pieces(given[c], 0)
      <4>1. StreamOK(S[s], given, out)
        BY <3>2 DEF SessionInv, StreamsOK
      <4> QED
        BY <2>1, <3>1, <3>5, <4>1 DEF StreamOK
    <3>7. Given(y, Cur, c)
      <4>1. given \in [Conns -> Seq(Serials)] /\ badgers \subseteq Mboxes /\ strays \subseteq Conns
        BY DEF SessionInv, StreamsOK
      <4>2. y.open = Cur.open /\ y.down = Cur.down /\ y.dead = Cur.dead
        BY <1>5 DEF Cur
      <4> QED
        BY <1>5, <4>1, <4>2 DEF Given
    <3>8. k \in Nat
      BY SessionAssumption
    <3>9. TablesOK
      BY InvFacts
    <3>10. Pieces(y.given[c], 0) = Cur.out[c] \o Pieces(q, Cur.S[s].at)
      BY <1>5, <3>6
    <3>11. Waiting(q, Cur.S[s].at, waits) /\ Cur.S[s].status = "op"
      BY <1>5, <2>1, <3>4, SMTT(30)
    <3>12. WriteInv(Drain(y, s, q, k), ring, 0, n)
      BY ONLY <1>4, <3>2, <3>3, <3>5, <3>7, <3>8, <3>9, <3>10, <3>11, DrainKeeps
    <3>13. Become(Drain(y, s, q, k))
      BY <1>1, <1>2, <2>1, <3>1 DEF Badger
    <3> QED
      BY <3>12, <3>13
  <2>2. CASE ~(s # 0 /\ S[s].status = "op" /\ S[s].queue # <<>>)
    <3>1. Become(y)
      BY <1>1, <1>2, <2>2 DEF Badger
    <3>2. WriteInv(y, ring, 0, n)
      <4>1. Cur.open = open /\ Cur.down = down /\ Cur.strays = strays /\ Cur.dead = dead /\ Cur.badgers = badgers
        BY DEF Cur
      <4>2. badgers \ {m} \subseteq Mboxes
        BY DEF SessionInv
      <4> QED
        BY ONLY <1>4, <1>5, <4>1, <4>2 DEF WriteInv
    <3> QED
      BY <3>1, <3>2
  <2> QED
    BY <2>1, <2>2
<1>8. PICK w : WriteInv(w, ring, 0, n) /\ Become(w)
  BY <1>7
<1>9. /\ list' = list /\ hash' = hash /\ free' = free /\ scratch' = scratch /\ ring' = ring
      /\ members' = members /\ mboxes' = mboxes /\ joined' = joined
      /\ conns' = conns /\ requests' = requests /\ serial' = serial
  BY DEF Badger, groupVars, bounds
<1>10. /\ GroupsOK(S, members', mboxes') /\ joined' \in [Conns -> SUBSET GroupNames]
       /\ requests' \in 0..MaxRequests /\ serial' \in Nat
  BY <1>9 DEF SessionInv
<1>11. serial' + Len(ring') + n + (IF scratch = 0 THEN 0 ELSE 1) <= conns + requests'
  BY <1>3, <1>9, BudgetIs
<1>12. WriteInv(w, ring', 0, n) /\ Become(w)
  BY <1>8, <1>9
<1> QED
  BY ONLY SessionInv, <1>9, <1>10, <1>11, <1>12, BecomeKeeps

\* A packet of a client that is read comes before its KILL.
LEMMA Submitted ==
  ASSUME SessionInv, NEW s \in Known(S), S[s].status = "op", NEW kind \in {"join", "leave", "data"},
         NEW g \in GroupNames, NEW p, p = Packet(kind, S[s].name, s, g)
  PROVE  /\ p \in PacketSet /\ Append(down, p) \in Seq(PacketSet) /\ Len(Append(down, p)) = Len(down) + 1
         /\ FlightOK(S, ring \o Append(down, p), 0)
<1>1. ConnsOK(S, scratch, conns) /\ FlightOK(S, ring \o down, 0) /\ ring \in Seq(PacketSet) /\ down \in Seq(PacketSet)
  BY DEF SessionInv
<1>2. s \in Used(S) /\ s \in Slots /\ Known(S) \subseteq Used(S)
  BY InvFacts
<1>3. p.kind = kind /\ p.name = S[s].name /\ p.conn = S[s].conn /\ p.group = g
  BY DEF Packet
<1>4. p \in PacketSet
  <2>1. S[s].name \in Names \cup {-1} /\ S[s].conn \in 0..MaxConns
    <3>1. S[s].name \in Names
      BY <1>1, <1>2 DEF ConnsOK
    <3>2. S[s] \in SessionRec
      BY <1>2, InvFacts
    <3>3. S[s].conn \in 0..MaxConns
      BY ONLY <3>2 DEF SessionRec
    <3> QED
      BY <3>1, <3>3
  <2>2. p = [kind |-> kind, name |-> S[s].name, conn |-> S[s].conn, group |-> g]
    BY DEF Packet
  <2> QED
    BY ONLY <2>1, <2>2, kind \in {"join", "leave", "data"}, g \in GroupNames DEF PacketSet
<1>5. p.kind # "kill" /\ p.group \in GroupNames /\ \E t \in Known(S) : S[t].conn = p.conn /\ S[t].name = p.name
  BY <1>3
<1>6. ASSUME NEW i \in DOMAIN (ring \o down), (ring \o down)[i].kind = "kill"
      PROVE  (ring \o down)[i].conn # p.conn
  <2>1. PICK t \in Known(S) : S[t].conn = (ring \o down)[i].conn /\ S[t].status = "killed"
    BY <1>1, <1>6 DEF FlightOK
  <2>2. t \in Used(S) /\ t # s
    BY <1>2, <2>1
  <2>3. S[t].conn # S[s].conn
    BY <1>1, <1>2, <2>2 DEF ConnsOK
  <2> QED
    BY <1>3, <2>1, <2>3
<1>7. Joins(ring \o down, ring \o Append(down, p), p, Len(ring) + Len(down) + 1)
  BY ONLY <1>1, <1>4, PacketJoins
<1>8. FlightOK(S, ring \o Append(down, p), 0)
  <2>1. \A i \in DOMAIN (ring \o down) : (ring \o down)[i].kind = "kill" => (ring \o down)[i].conn # p.conn
    BY <1>6
  <2>2. p.kind # "data" => \E t \in Known(S) : S[t].conn = p.conn /\ S[t].name = p.name
    BY <1>5
  <2> QED
    BY ONLY <1>1, <1>4, <1>5, <1>7, <2>1, <2>2, FlightInsert
<1>9. Append(down, p) \in Seq(PacketSet) /\ Len(Append(down, p)) = Len(down) + 1
  BY <1>1, <1>4
<1> QED
  BY <1>4, <1>8, <1>9

LEMMA ReadKeeps ==
  ASSUME SessionInv, NEW m \in Mboxes, Read(m)
  PROVE  SessionInv'
<1>1. PICK s : s = IndexOf(m)
  OBVIOUS
<1>2. s \in Slots /\ S[s].status = "op" /\ s \in Known(S)
  BY <1>1, AttachedIs DEF Read
<1>3. PICK n : n = Len(down) + Cardinality(Alive(S))
  OBVIOUS
<1>4. WriteInv(Cur, ring, 0, n)
  BY <1>3, CurIs DEF SessionInv
<1>5. PICK kind \in {"join", "leave", "data"}, name \in Names, g \in GroupNames :
        /\ name = S[s].name
        /\ \/ Reject(s)
           \/ /\ Become([Cur EXCEPT !.down = Append(@, Packet(kind, name, s, g))])
              /\ serial' = serial
  BY <1>1 DEF Read, ValidHeader
<1>6. /\ list' = list /\ hash' = hash /\ free' = free /\ scratch' = scratch /\ ring' = ring
      /\ members' = members /\ mboxes' = mboxes /\ joined' = joined
      /\ conns' = conns /\ requests' = requests + 1 /\ requests < MaxRequests
  BY DEF Read, groupVars
<1>7. /\ GroupsOK(S, members', mboxes') /\ joined' \in [Conns -> SUBSET GroupNames]
      /\ requests' \in 0..MaxRequests
  BY <1>6, InvFacts, SessionAssumption, SMTT(30) DEF SessionInv
<1>8. TablesOK /\ serial \in Serials /\ serial \in Nat /\ requests \in Nat /\ conns \in Nat /\ Len(ring) \in Nat /\ n \in Nat
  <2>1. TablesOK /\ serial \in Serials /\ requests \in Nat /\ conns \in Nat /\ Len(ring) \in Nat
    BY InvFacts
  <2>2. serial \in Nat
    BY DEF SessionInv
  <2>3. Len(down) \in Nat /\ Cardinality(Alive(S)) \in Nat
    BY InvFacts
  <2>4. n \in Nat
    BY ONLY <1>3, <2>3
  <2> QED
    BY ONLY <2>1, <2>2, <2>4
<1>9. PICK d : d = IF scratch = 0 THEN 0 ELSE 1
  OBVIOUS
<1>10. serial + Len(ring) + n + d <= conns + requests /\ d \in Nat
  BY <1>3, <1>9, BudgetIs
<1>11. CASE Reject(s)
  <2>1. PICK k \in 0..MaxTake : Become(Write(Cur, s, "", k))
    BY <1>11 DEF Reject
  <2>2. serial' = serial + 1
    BY <1>11 DEF Reject
  <2>3. k \in Nat
    BY SessionAssumption
  <2>4. PICK w : w = Write(Cur, s, "", k)
    OBVIOUS
  <2>5. WriteInv(w, ring, 0, n)
    BY ONLY <1>2, <1>4, <1>8, <2>3, <2>4, WriteKeeps
  <2>6. WriteInv(w, ring', 0, n) /\ Become(w)
    BY <1>6, <2>1, <2>4, <2>5
  <2>7. serial + 1 + Len(ring) + n + d <= conns + (requests + 1) /\ serial + 1 \in Nat
    BY ONLY <1>8, <1>10
  <2>8. serial' + Len(ring') + n + (IF scratch = 0 THEN 0 ELSE 1) <= conns + requests' /\ serial' \in Nat
    BY <1>6, <1>9, <2>2, <2>7
  <2> QED
    BY ONLY SessionInv, <1>6, <1>7, <2>6, <2>8, BecomeKeeps
<1>12. CASE /\ Become([Cur EXCEPT !.down = Append(@, Packet(kind, name, s, g))])
            /\ serial' = serial
  <2>1. PICK p : p = Packet(kind, name, s, g)
    OBVIOUS
  <2>2. PICK w : w = [Cur EXCEPT !.down = Append(@, p)]
    OBVIOUS
  <2>3. /\ Append(down, p) \in Seq(PacketSet) /\ Len(Append(down, p)) = Len(down) + 1
        /\ FlightOK(S, ring \o Append(down, p), 0)
    BY ONLY SessionInv, <1>2, <1>5, <2>1, kind \in {"join", "leave", "data"}, g \in GroupNames, Submitted
  <2>4. /\ DOMAIN w = WFields /\ w.S = S /\ w.open = open /\ w.badgers = badgers /\ w.down = Append(down, p)
        /\ w.given = given /\ w.out = out /\ w.strays = strays /\ w.dead = dead
        /\ Cur.S = S /\ Cur.open = open /\ Cur.badgers = badgers /\ Cur.down = down
        /\ Cur.given = given /\ Cur.out = out /\ Cur.strays = strays /\ Cur.dead = dead
    BY <2>2 DEF Cur, WFields
  <2>5. Len(down) + 1 + Cardinality(Alive(S)) = n + 1
    BY <1>3, InvFacts
  <2>6. WriteInv(w, ring, 0, n + 1)
    BY ONLY <1>4, <2>3, <2>4, <2>5 DEF WriteInv
  <2>7. WriteInv(w, ring', 0, n + 1) /\ Become(w)
    BY <1>6, <1>12, <2>1, <2>2, <2>6
  <2>8. serial + Len(ring) + (n + 1) + d <= conns + (requests + 1)
    BY ONLY <1>8, <1>10
  <2>9. serial' + Len(ring') + (n + 1) + (IF scratch = 0 THEN 0 ELSE 1) <= conns + requests' /\ serial' \in Nat
    BY <1>6, <1>8, <1>9, <1>12, <2>8
  <2> QED
    BY ONLY SessionInv, <1>6, <1>7, <2>7, <2>9, BecomeKeeps
<1> QED
  BY <1>5, <1>11, <1>12

--------------------------------------------------------------------------------
(* Each delivery keeps the invariant *)

\* The groups of a session, one after the other.
LEMMA GroupSeq ==
  ASSUME NEW gs \in SUBSET GroupNames, NEW q, q = SetToSeq(gs)
  PROVE  Len(q) \in Nat /\ \A i \in 1..Len(q) : q[i] \in gs
<1>1. IsFiniteSet(gs)
  BY SessionAssumption, FS_Subset
<1>2. PICK n : n = Cardinality(gs)
  OBVIOUS
<1>3. n \in Nat /\ ExistsBijection(1..n, gs)
  BY <1>1, <1>2, FS_CardinalityType
<1>4. PICK f : f \in Bijection(1..n, gs)
  BY <1>3 DEF ExistsBijection
<1>5. f \in [1..n -> gs] /\ IsInjective(f)
  BY <1>4 DEF Bijection, Injection, IsInjective
<1>6. q = CHOOSE h \in [1..n -> gs] : IsInjective(h)
  BY <1>2 DEF SetToSeq
<1>7. q \in [1..n -> gs]
  BY <1>5, <1>6
<1>8. q \in Seq(gs) /\ Len(q) = n
  BY <1>3, <1>7
<1> QED
  BY <1>3, <1>7, <1>8

\* The packet that is delivered.
LEMMA HeadIs ==
  ASSUME SessionInv, ring # <<>>, NEW p, p = Head(ring)
  PROVE  /\ p \in PacketSet /\ (p.kind # "kill" => p.group \in GroupNames)
         /\ p.kind # "data" => \E s \in Known(S) : /\ S[s].conn = p.conn /\ S[s].name = p.name
                                                   /\ p.kind = "kill" => S[s].status = "killed"
<1>1. ring \in Seq(PacketSet) /\ down \in Seq(PacketSet) /\ FlightOK(S, ring \o down, 0)
  BY DEF SessionInv
<1>2. PICK fl : fl = ring \o down
  OBVIOUS
<1>3. p = Head(fl) /\ fl # <<>> /\ p \in PacketSet
  BY ONLY <1>1, <1>2, ring # <<>>, p = Head(ring), PacketLeaves
<1>4. fl \in Seq(PacketSet)
  BY <1>1, <1>2 DEF FlightOK
<1>5. 1 \in DOMAIN fl /\ fl[1] = p
  BY ONLY <1>3, <1>4
<1>6. /\ (fl[1].kind # "kill" => fl[1].group \in GroupNames)
      /\ fl[1].kind # "data" => \E s \in Known(S) : /\ S[s].conn = fl[1].conn /\ S[s].name = fl[1].name
                                                    /\ fl[1].kind = "kill" => S[s].status = "killed"
  BY ONLY <1>1, <1>2, <1>5 DEF FlightOK
<1> QED
  BY ONLY <1>3, <1>5, <1>6

\* What Sess_get_session finds for the name in a join, a leave or a KILL.
LEMMA SenderIs ==
  ASSUME SessionInv, ring # <<>>, NEW p, p = Head(ring), p.kind # "data"
  PROVE  /\ Named(p.name) \in Known(S) /\ Named(p.name) \in Used(S) /\ Named(p.name) \in Slots /\ Named(p.name) # 0
         /\ S[Named(p.name)].conn = p.conn /\ S[Named(p.name)].name = p.name /\ p.name \in Names
         /\ S[Named(p.name)].mbox \in Mboxes /\ p.conn \in Conns
         /\ p.kind = "kill" => S[Named(p.name)].status = "killed"
<1>1. PICK s \in Known(S) : S[s].conn = p.conn /\ S[s].name = p.name /\ (p.kind = "kill" => S[s].status = "killed")
  BY HeadIs
<1>2. s \in Used(S) /\ s \in Slots
  BY <1>1, InvFacts
<1>3. S[s].conn \in 1..conns /\ conns \in 0..MaxConns /\ S[s].name \in Names /\ S[s].mbox \in Mboxes
  BY <1>2 DEF SessionInv, ConnsOK
<1>4. p.name \in Nat /\ s # 0 /\ p.conn \in Conns
  <2>1. p.name \in Nat
    BY <1>1, <1>3, SessionAssumption
  <2>2. s # 0
    BY <1>2, SessionAssumption DEF Slots
  <2>3. MaxConns \in Nat
    BY SessionAssumption
  <2>4. S[s].conn \in 1..MaxConns
    BY ONLY <1>3, <2>3
  <2> QED
    BY <1>1, <2>1, <2>2, <2>4 DEF Conns
<1>5. Named(p.name) = s
  BY <1>1, <1>2, <1>4, NamedIs DEF SessionInv
<1> QED
  BY <1>1, <1>2, <1>3, <1>4, <1>5

\* A handler of a delivery begins; session x is the one that is removed, if one is.
LEMMA DeliveryBegins ==
  ASSUME SessionInv, ring # <<>>, NEW p, p = Head(ring), NEW x, x = 0 => p.kind # "kill",
         x # 0 => p.kind = "kill" /\ x \in Slots /\ S[x].status = "killed" /\ S[x].conn = p.conn
  PROVE  /\ WriteInv(Cur, Tail(ring), x, Len(down) + Cardinality(Alive(S)))
         /\ Tail(ring) \in Seq(PacketSet) /\ Len(Tail(ring)) = Len(ring) - 1
<1>1. ring \in Seq(PacketSet) /\ down \in Seq(PacketSet) /\ FlightOK(S, ring \o down, 0) /\ ConnsOK(S, scratch, conns)
  BY DEF SessionInv
<1>2. PICK fl, rg : fl = ring \o down /\ rg = Tail(ring)
  OBVIOUS
<1>3. rg \o down = Tail(fl) /\ p = Head(fl) /\ fl # <<>> /\ rg \in Seq(PacketSet) /\ Len(rg) = Len(ring) - 1
  BY ONLY <1>1, <1>2, ring # <<>>, p = Head(ring), PacketLeaves
<1>4. FlightOK(S, rg \o down, x)
  <2>1. /\ x = 0 => Head(fl).kind # "kill"
        /\ x # 0 => Head(fl).kind = "kill" /\ x \in Slots /\ S[x].status = "killed" /\ S[x].conn = Head(fl).conn
    BY <1>3
  <2>2. FlightOK(S, fl, 0)
    BY <1>1, <1>2
  <2>3. FlightOK(S, Tail(fl), x)
    BY ONLY <1>1, <1>3, <2>1, <2>2, FlightDrop
  <2> QED
    BY ONLY <1>3, <2>3
<1>5. x # 0 => x \in Slots /\ S[x].status = "killed"
  OBVIOUS
<1>6. WriteInv(Cur, rg, x, Len(down) + Cardinality(Alive(S)))
  BY ONLY SessionInv, <1>3, <1>4, <1>5, CurIs
<1> QED
  BY ONLY <1>2, <1>3, <1>6

LEMMA OtherBegins ==
  ASSUME SessionInv, ring # <<>>, NEW p, p = Head(ring), p.kind # "kill"
  PROVE  WriteInv(Cur, Tail(ring), 0, Len(down) + Cardinality(Alive(S)))
<1>1. PICK x : x = 0
  OBVIOUS
<1>2. /\ x = 0 => p.kind # "kill"
      /\ x # 0 => p.kind = "kill" /\ x \in Slots /\ S[x].status = "killed" /\ S[x].conn = p.conn
  BY <1>1
<1>3. WriteInv(Cur, Tail(ring), x, Len(down) + Cardinality(Alive(S)))
  BY ONLY SessionInv, ring # <<>>, p = Head(ring), <1>2, DeliveryBegins
<1> QED
  BY <1>1, <1>3

\* A delivery ends that leaves the tables of sessions alone.
LEMMA DeliveryEnds ==
  ASSUME SessionInv, ring # <<>>, NEW w, WriteInv(w, Tail(ring), 0, Len(down) + Cardinality(Alive(S))), Become(w),
         list' = list, hash' = hash, free' = free, scratch' = scratch, conns' = conns, requests' = requests,
         ring' = Tail(ring), serial' = serial + 1,
         GroupsOK(S, members', mboxes'), joined' \in [Conns -> SUBSET GroupNames]
  PROVE  SessionInv'
<1>1. PICK n, d : n = Len(down) + Cardinality(Alive(S)) /\ d = IF scratch = 0 THEN 0 ELSE 1
  OBVIOUS
<1>2. /\ serial \in Nat /\ requests \in Nat /\ conns \in Nat /\ Len(ring) \in Nat
      /\ Len(down) \in Nat /\ Cardinality(Alive(S)) \in Nat
  BY InvFacts DEF SessionInv
<1>3. n \in Nat /\ d \in Nat
  BY <1>1, <1>2
<1>4. serial + Len(ring) + n + d <= conns + requests
  BY <1>1, BudgetIs
<1>5. Len(ring') = Len(ring) - 1
  <2>1. ring \in Seq(PacketSet)
    BY DEF SessionInv
  <2> QED
    BY <2>1
<1>6. serial + 1 + (Len(ring) - 1) + n + d <= conns + requests /\ serial + 1 \in Nat
  BY ONLY <1>2, <1>3, <1>4
<1>7. serial' + Len(ring') + n + (IF scratch = 0 THEN 0 ELSE 1) <= conns + requests' /\ serial' \in Nat
  BY <1>1, <1>5, <1>6
<1>8. requests' \in 0..MaxRequests
  BY DEF SessionInv
<1>9. WriteInv(w, ring', 0, n)
  BY <1>1
<1> QED
  BY ONLY SessionInv, Become(w), list' = list, hash' = hash, free' = free, scratch' = scratch, conns' = conns,
          GroupsOK(S, members', mboxes'), joined' \in [Conns -> SUBSET GroupNames], <1>7, <1>8, <1>9, BecomeKeeps

LEMMA DeliverDataKeeps ==
  ASSUME SessionInv, ring # <<>>, ring' = Tail(ring), serial' = serial + 1, UNCHANGED <<scratch, conns, requests>>,
         NEW p, p = Head(ring), p.kind = "data", NEW take, Takes(take), DeliverData(p, take)
  PROVE  SessionInv'
<1>1. PICK w : w = WriteAll(Cur, mboxes[p.group], p.group, take)
  OBVIOUS
<1>2. /\ list' = list /\ hash' = hash /\ free' = free /\ members' = members /\ mboxes' = mboxes /\ joined' = joined
      /\ Become(w)
  BY <1>1 DEF DeliverData, groupVars
<1>3. p.group \in GroupNames
  BY HeadIs
<1>4. PICK n : n = Len(down) + Cardinality(Alive(S))
  OBVIOUS
<1>5. WriteInv(Cur, Tail(ring), 0, n)
  BY <1>4, OtherBegins
<1>6. TablesOK /\ serial \in Serials
  BY InvFacts
<1>7. Reached(mboxes[p.group])
  BY <1>3, GroupReached DEF SessionInv
<1>8. WriteInv(w, Tail(ring), 0, n)
  BY ONLY <1>1, <1>5, <1>6, <1>7, Takes(take), WriteAllKeeps
<1>9. GroupsOK(S, members', mboxes') /\ joined' \in [Conns -> SUBSET GroupNames]
  BY <1>2 DEF SessionInv
<1>10. WriteInv(w, Tail(ring), 0, Len(down) + Cardinality(Alive(S)))
  BY <1>4, <1>8
<1> QED
  BY <1>2, <1>9, <1>10, DeliveryEnds

LEMMA JoinedType ==
  ASSUME SessionInv, NEW c \in Conns, NEW gs \in SUBSET GroupNames
  PROVE  [joined EXCEPT ![c] = @ \cup gs] \in [Conns -> SUBSET GroupNames]
         /\ [joined EXCEPT ![c] = @ \ gs] \in [Conns -> SUBSET GroupNames]
<1>1. joined \in [Conns -> SUBSET GroupNames]
  BY DEF SessionInv
<1> QED
  BY ONLY <1>1, c \in Conns, gs \in SUBSET GroupNames

LEMMA DeliverJoinKeeps ==
  ASSUME SessionInv, ring # <<>>, ring' = Tail(ring), serial' = serial + 1, UNCHANGED <<scratch, conns, requests>>,
         NEW p, p = Head(ring), p.kind = "join", NEW take, Takes(take), DeliverJoin(p, take)
  PROVE  SessionInv'
<1>1. PICK s, g : s = Named(p.name) /\ g = p.group
  OBVIOUS
<1>2. /\ s \in Known(S) /\ s \in Slots /\ s # 0 /\ S[s].conn = p.conn /\ S[s].name = p.name /\ p.name \in Names
      /\ S[s].mbox \in Mboxes /\ p.conn \in Conns
  BY <1>1, SenderIs
<1>3. g \in GroupNames
  BY <1>1, HeadIs
<1>4. PICK n : n = Len(down) + Cardinality(Alive(S))
  OBVIOUS
<1>5. WriteInv(Cur, Tail(ring), 0, n)
  BY <1>4, OtherBegins
<1>6. TablesOK /\ serial \in Serials /\ HashOK(S, hash) /\ GroupsOK(S, members, mboxes)
  BY InvFacts DEF SessionInv
<1>7. list' = list /\ hash' = hash /\ free' = free
  BY DEF DeliverJoin
<1>8. /\ GroupsOK(S, members', mboxes') /\ joined' \in [Conns -> SUBSET GroupNames]
      /\ \E w : Become(w) /\ WriteInv(w, Tail(ring), 0, n)
  <2>1. CASE p.name \in members[g]
    <3>1. Become(Cur) /\ members' = members /\ mboxes' = mboxes /\ joined' = joined
      BY <1>1, <2>1 DEF DeliverJoin, groupVars
    <3> QED
      BY <1>5, <1>6, <3>1 DEF SessionInv
  <2>2. CASE p.name \notin members[g]
    <3>1. /\ members' = [members EXCEPT ![g] = @ \cup {S[s].name}]
          /\ mboxes' = [mboxes EXCEPT ![g] = Append(@, S[s].mbox)]
          /\ joined' = [joined EXCEPT ![p.conn] = @ \cup {g}]
          /\ Become(WriteAll(Cur, mboxes'[g], g, take))
      BY <1>1, <1>2, <2>2 DEF DeliverJoin
    <3>2. GroupsOK(S, members', mboxes')
      <4>1. S[s].name \in Names /\ S[s].name \notin members[g]
        BY <1>2, <2>2
      <4> QED
        BY ONLY <1>2, <1>3, <1>6, <3>1, <4>1, GroupsJoin
    <3>3. Reached(mboxes'[g])
      BY ONLY <1>3, <1>6, <3>2, GroupReached
    <3>4. PICK boxes, w : boxes = mboxes'[g] /\ w = WriteAll(Cur, boxes, g, take)
      OBVIOUS
    <3>5. Reached(boxes)
      BY <3>3, <3>4
    <3>6. WriteInv(w, Tail(ring), 0, n)
      BY ONLY <1>5, <1>6, <3>4, <3>5, Takes(take), WriteAllKeeps
    <3>7. joined' \in [Conns -> SUBSET GroupNames]
      BY <1>2, <1>3, <3>1, JoinedType
    <3> QED
      BY <3>1, <3>2, <3>4, <3>6, <3>7
  <2> QED
    BY <2>1, <2>2
<1>9. PICK w : Become(w) /\ WriteInv(w, Tail(ring), 0, Len(down) + Cardinality(Alive(S)))
  BY <1>4, <1>8
<1> QED
  BY <1>7, <1>8, <1>9, DeliveryEnds

\* The groups gs lose the session s that sent p.
LEMMA Lost ==
  ASSUME SessionInv, ring # <<>>, NEW p, p = Head(ring), p.kind # "data", NEW s, s = Named(p.name),
         NEW gs \in SUBSET GroupNames, \A g \in gs : p.name \in members[g], Lose(p, s, gs)
  PROVE  /\ GroupsOK(S, members', mboxes') /\ joined' \in [Conns -> SUBSET GroupNames]
         /\ \A g \in GroupNames : members'[g] = members[g] \ IF g \in gs THEN {p.name} ELSE {}
         /\ \A g \in gs : In(g, S[s].mbox) /\ Reached(mboxes'[g])
<1>1. s \in Used(S) /\ S[s].name = p.name /\ p.conn \in Conns
  BY SenderIs
<1>2. NamesDiffer(S) /\ GroupsOK(S, members, mboxes) /\ HashOK(S, hash)
  BY InvFacts DEF SessionInv
<1>3. \A g \in gs : g \in GroupNames /\ S[s].name \in members[g]
  BY <1>1
<1>4. /\ members' = [g \in GroupNames |-> members[g] \ IF g \in gs THEN {S[s].name} ELSE {}]
      /\ mboxes' = [g \in GroupNames |-> IF g \in gs THEN Without(mboxes[g], S[s].mbox) ELSE mboxes[g]]
      /\ joined' = [joined EXCEPT ![p.conn] = @ \ gs]
  BY <1>1 DEF Lose
<1>5. GroupsOK(S, members', mboxes')
  BY ONLY <1>1, <1>2, <1>3, <1>4, GroupsLose
<1>6. joined' \in [Conns -> SUBSET GroupNames]
  BY <1>1, <1>4, JoinedType
<1>7. \A g \in gs : In(g, S[s].mbox)
  <2>1. ASSUME NEW g \in gs
        PROVE  In(g, S[s].mbox)
    <3>1. g \in GroupNames /\ S[s].name \in members[g]
      BY <1>3
    <3> QED
      BY ONLY <1>1, <1>2, <3>1, MemberIn
  <2> QED
    BY <2>1
<1>8. \A g \in gs : Reached(mboxes'[g])
  <2>1. ASSUME NEW g \in gs
        PROVE  Reached(mboxes'[g])
    <3>1. g \in GroupNames
      BY <1>3
    <3> QED
      BY ONLY <1>2, <1>5, <3>1, GroupReached
  <2> QED
    BY <2>1
<1>9. \A g \in GroupNames : members'[g] = members[g] \ IF g \in gs THEN {p.name} ELSE {}
  BY <1>1, <1>4
<1> QED
  BY <1>5, <1>6, <1>7, <1>8, <1>9

LEMMA DeliverLeaveKeeps ==
  ASSUME SessionInv, ring # <<>>, ring' = Tail(ring), serial' = serial + 1, UNCHANGED <<scratch, conns, requests>>,
         NEW p, p = Head(ring), p.kind = "leave", NEW take, Takes(take), DeliverLeave(p, take)
  PROVE  SessionInv'
<1>1. PICK s, g : s = Named(p.name) /\ g = p.group
  OBVIOUS
<1>2. s \in Used(S) /\ s \in Slots /\ s # 0 /\ S[s].name = p.name
  BY <1>1, SenderIs
<1>3. g \in GroupNames
  BY <1>1, HeadIs
<1>4. PICK n : n = Len(down) + Cardinality(Alive(S))
  OBVIOUS
<1>5. WriteInv(Cur, Tail(ring), 0, n)
  BY <1>4, OtherBegins
<1>6. TablesOK /\ serial \in Serials /\ NamesDiffer(S) /\ GroupsOK(S, members, mboxes)
  BY InvFacts DEF SessionInv
<1>7. list' = list /\ hash' = hash /\ free' = free
  BY DEF DeliverLeave
<1>8. /\ GroupsOK(S, members', mboxes') /\ joined' \in [Conns -> SUBSET GroupNames]
      /\ \E w : Become(w) /\ WriteInv(w, Tail(ring), 0, n)
  <2>1. CASE p.name \notin members[g]
    <3>1. Become(Cur) /\ members' = members /\ mboxes' = mboxes /\ joined' = joined
      BY <1>1, <2>1 DEF DeliverLeave, groupVars
    <3> QED
      BY <1>5, <1>6, <3>1 DEF SessionInv
  <2>2. CASE p.name \in members[g]
    <3>1. In(g, S[s].mbox)
      <4>1. S[s].name \in members[g]
        BY <1>2, <2>2
      <4> QED
        BY ONLY <1>2, <1>3, <1>6, <4>1, MemberIn
    <3>2. Lose(p, s, {g}) /\ Become(WriteAll(Write(Cur, s, "", take[s]), mboxes'[g], g, take))
      BY <1>1, <1>2, <2>2, <3>1 DEF DeliverLeave
    <3>3. /\ GroupsOK(S, members', mboxes') /\ joined' \in [Conns -> SUBSET GroupNames]
          /\ Reached(mboxes'[g])
      <4>1. PICK gs : gs = {g}
        OBVIOUS
      <4>2. gs \in SUBSET GroupNames /\ (\A h \in gs : p.name \in members[h]) /\ Lose(p, s, gs) /\ g \in gs
        BY <1>3, <2>2, <3>2, <4>1
      <4>3. p.kind # "data"
        OBVIOUS
      <4> QED
        BY ONLY SessionInv, ring # <<>>, p = Head(ring), <1>1, <4>2, <4>3, Lost
    <3>4. PICK v, boxes : v = Write(Cur, s, "", take[s]) /\ boxes = mboxes'[g]
      OBVIOUS
    <3>5. PICK w : w = WriteAll(v, boxes, g, take)
      OBVIOUS
    <3>6. take[s] \in Nat
      BY <1>2, SessionAssumption DEF Takes
    <3>7. WriteInv(v, Tail(ring), 0, n)
      BY ONLY <1>2, <1>5, <1>6, <3>4, <3>6, WriteKeeps
    <3>8. Reached(boxes)
      BY <3>3, <3>4
    <3>9. WriteInv(w, Tail(ring), 0, n)
      BY ONLY <1>6, <3>5, <3>7, <3>8, Takes(take), WriteAllKeeps
    <3> QED
      BY <3>2, <3>3, <3>4, <3>5, <3>9
  <2> QED
    BY <2>1, <2>2
<1>9. PICK w : Become(w) /\ WriteInv(w, Tail(ring), 0, Len(down) + Cardinality(Alive(S)))
  BY <1>4, <1>8
<1> QED
  BY <1>7, <1>8, <1>9, DeliveryEnds

LEMMA DeliverKillKeeps ==
  ASSUME SessionInv, ring # <<>>, ring' = Tail(ring), serial' = serial + 1, UNCHANGED <<scratch, conns, requests>>,
         NEW p, p = Head(ring), p.kind = "kill", NEW take, Takes(take), DeliverKill(p, take)
  PROVE  SessionInv'
<1>1. PICK s, gs : s = Named(p.name) /\ gs = {g \in GroupNames : p.name \in members[g]}
  OBVIOUS
<1>2. /\ s \in Known(S) /\ s \in Used(S) /\ s \in Slots /\ s # 0 /\ S[s].conn = p.conn /\ S[s].name = p.name
      /\ S[s].status = "killed"
  BY <1>1, SenderIs
<1>3. PICK n : n = Len(down) + Cardinality(Alive(S))
  OBVIOUS
<1>4. WriteInv(Cur, Tail(ring), s, n) /\ Tail(ring) \in Seq(PacketSet) /\ Len(Tail(ring)) = Len(ring) - 1
  BY <1>2, <1>3, DeliveryBegins
<1>5. TablesOK /\ serial \in Serials /\ NamesDiffer(S) /\ GroupsOK(S, members, mboxes)
  BY InvFacts DEF SessionInv
<1>6. gs \in SUBSET GroupNames /\ \A g \in gs : p.name \in members[g]
  BY <1>1
<1>7. \A g \in gs : In(g, S[s].mbox)
  <2>1. ASSUME NEW g \in gs
        PROVE  In(g, S[s].mbox)
    <3>1. g \in GroupNames /\ S[s].name \in members[g]
      BY <1>2, <1>6
    <3> QED
      BY ONLY <1>2, <1>5, <3>1, MemberIn
  <2> QED
    BY <2>1
<1>8. PICK v : v = WriteGroups(Cur, mboxes', SetToSeq(gs), take)
  OBVIOUS
<1>9. Lose(p, s, gs) /\ Forget(s) /\ Become([v EXCEPT !.S[s] = NoSession])
  BY <1>1, <1>2, <1>7, <1>8 DEF DeliverKill
<1>10. /\ GroupsOK(S, members', mboxes') /\ joined' \in [Conns -> SUBSET GroupNames]
       /\ (\A g \in GroupNames : members'[g] = members[g] \ IF g \in gs THEN {p.name} ELSE {})
       /\ \A g \in gs : Reached(mboxes'[g])
  <2>1. p.kind # "data"
    OBVIOUS
  <2> QED
    BY ONLY SessionInv, ring # <<>>, p = Head(ring), <1>1, <1>6, <1>9, <2>1, Lost
<1>11. WriteInv(v, Tail(ring), s, n)
  <2>1. PICK q, boxes : q = SetToSeq(gs) /\ boxes = mboxes'
    OBVIOUS
  <2>2. Len(q) \in Nat /\ \A i \in 1..Len(q) : q[i] \in gs
    BY ONLY <1>6, <2>1, GroupSeq
  <2>3. \A i \in 1..Len(q) : Reached(boxes[q[i]])
    BY ONLY <1>10, <2>1, <2>2
  <2>4. v = WriteGroups(Cur, boxes, q, take)
    BY ONLY <1>8, <2>1
  <2> QED
    BY ONLY <1>4, <1>5, <2>2, <2>3, <2>4, Takes(take), WriteGroupsKeeps
<1>12. /\ DOMAIN v = WFields /\ Same(S, v.S) /\ OpenOK(v.S, v.open, scratch, free)
       /\ v.down \in Seq(PacketSet) /\ FlightOK(v.S, Tail(ring) \o v.down, s) /\ v.S[s].status = "killed"
       /\ StreamsOK(v.S, v.given, v.out, scratch, conns)
       /\ v.strays \subseteq Conns /\ v.badgers \subseteq Mboxes /\ v.dead = FALSE
       /\ Len(v.down) + Cardinality(Alive(v.S)) = n
  BY ONLY <1>2, <1>11 DEF WriteInv
<1>13. PICK R : R = v.S
  OBVIOUS
<1>14. /\ S' = [R EXCEPT ![s] = NoSession] /\ open' = v.open /\ badgers' = v.badgers /\ down' = v.down
       /\ given' = v.given /\ out' = v.out /\ strays' = v.strays /\ dead' = v.dead /\ high' \in BOOLEAN
  <2>1. PICK w : w = [v EXCEPT !.S[s] = NoSession]
    OBVIOUS
  <2>2. /\ w.S = [R EXCEPT ![s] = NoSession] /\ w.open = v.open /\ w.badgers = v.badgers /\ w.down = v.down
        /\ w.given = v.given /\ w.out = v.out /\ w.strays = v.strays /\ w.dead = v.dead
    BY ONLY <1>12, <1>13, <2>1 DEF WFields
  <2>3. Become(w)
    BY <1>9, <2>1
  <2>4. high \in BOOLEAN
    BY DEF SessionInv
  <2> QED
    BY ONLY <2>2, <2>3, <2>4 DEF Become
<1>15. /\ list' = Unlink(list, s) /\ free' = <<s>> \o free /\ hash' = [hash EXCEPT ![S[s].mbox] = Unlink(@, s)]
  BY <1>9 DEF Forget
<1>16. Same(S, R) /\ R[s].status = "killed" /\ R[s].mbox = S[s].mbox /\ R[s].name = p.name
  BY <1>2, <1>12, <1>13 DEF Same
<1>17. ListOK(R, list, free) /\ HashOK(R, hash) /\ ConnsOK(R, scratch, conns) /\ GroupsOK(R, members', mboxes')
  <2>1. ListOK(S, list, free) /\ HashOK(S, hash) /\ ConnsOK(S, scratch, conns)
    BY DEF SessionInv
  <2> QED
    BY ONLY <1>10, <1>16, <2>1, SameList, SameHash, SameConns, SameGroups
<1>18. s \in Used(R) /\ Used(R) \subseteq Slots /\ Alive(R) \subseteq Slots /\ Known(R) \subseteq Slots /\ s \notin Alive(R)
  BY <1>2, <1>16 DEF Used, Alive, Known
<1>19. /\ ListOK(S', list', free') /\ HashOK(S', hash') /\ ConnsOK(S', scratch, conns) /\ free' # <<>>
       /\ Others(R, S', s) /\ S'[s] = NoSession
       /\ Alive(S') = Alive(R) \ {s} /\ Known(S') = Known(R) \ {s}
  <2>1. Forgets(R, list, free, hash, s, S', list', free', hash')
    BY ONLY <1>14, <1>15, <1>16, <1>17, <1>18 DEF Forgets
  <2> QED
    BY ONLY <1>17, <2>1, Forgotten
<1>20. (\A t \in Slots : t # s => S'[t] = R[t]) /\ Alive(S') = Alive(R)
  BY <1>18, <1>19 DEF Others
<1>21. scratch' = scratch /\ conns' = conns /\ requests' = requests
  OBVIOUS
<1>22. OpenOK(S', open', scratch', free')
  <2>1. /\ scratch \in Mboxes \cup {0} /\ v.open \subseteq Mboxes
        /\ v.open = {R[t].mbox : t \in Alive(R)} \cup ({scratch} \ {0})
        /\ scratch # 0 => \A t \in Alive(R) : R[t].mbox # scratch
    BY ONLY <1>12, <1>13 DEF OpenOK
  <2>2. \A t \in Alive(R) : S'[t].mbox = R[t].mbox
    BY <1>18, <1>20
  <2>3. {S'[t].mbox : t \in Alive(R)} = {R[t].mbox : t \in Alive(R)}
    BY ONLY <2>2
  <2>4. open' = {S'[t].mbox : t \in Alive(S')} \cup ({scratch} \ {0})
    BY ONLY <1>14, <1>20, <2>1, <2>3
  <2>5. scratch # 0 => \A t \in Alive(S') : S'[t].mbox # scratch
    BY ONLY <1>20, <2>1, <2>2
  <2>6. OpenOK(S', open', scratch, free')
    BY ONLY <1>14, <1>19, <2>1, <2>4, <2>5 DEF OpenOK
  <2> QED
    BY ONLY <1>21, <2>6
<1>23. FlightOK(S', ring' \o down', 0)
  <2>1. FlightOK(R, Tail(ring) \o v.down, s)
    BY <1>12, <1>13
  <2>2. \A t \in Known(R) : t # s => t \in Slots /\ S'[t].status = R[t].status /\ S'[t].conn = R[t].conn /\ S'[t].name = R[t].name
    BY <1>18, <1>20
  <2>3. \A t \in Slots : S'[t].status = "killed" => t # s /\ R[t].status = "killed"
    BY <1>19, <1>20 DEF NoSession
  <2>4. FlightOK(S', Tail(ring) \o v.down, 0)
    BY ONLY <2>1, <2>2, <2>3, FlightKeeps
  <2> QED
    BY <1>14, <2>4
<1>24. GroupsOK(S', members', mboxes')
  <2>1. \A g \in GroupNames : p.name \notin members'[g]
    BY <1>1, <1>10
  <2>2. \A t \in Known(R) : (\E g \in GroupNames : R[t].name \in members'[g]) =>
           t \in Known(S') /\ S'[t].name = R[t].name /\ S'[t].mbox = R[t].mbox
    BY <1>16, <1>18, <1>19, <1>20, <2>1
  <2> QED
    BY ONLY <1>17, <2>2, GroupsKeep
<1>25. StreamsOK(S', given', out', scratch', conns')
  <2>1. StreamsOK(R, v.given, v.out, scratch, conns)
    BY <1>12, <1>13
  <2>2. StreamsOK(S', v.given, v.out, scratch, conns)
    BY ONLY <1>2, <1>19, <2>1, ForgottenStreams
  <2> QED
    BY <1>14, <1>21, <2>2
<1>26. Ahead(S', ring' \o down', serial', scratch') <= conns' + requests'
  <2>1. PICK a, b, c, d : /\ a = Len(ring) /\ b = Len(down') /\ c = Cardinality(Alive(S'))
                          /\ d = IF scratch = 0 THEN 0 ELSE 1
    OBVIOUS
  <2>2. /\ serial \in Nat /\ requests \in Nat /\ conns \in Nat /\ Len(ring) \in Nat
        /\ Len(down) \in Nat /\ Cardinality(Alive(S)) \in Nat
    BY InvFacts DEF SessionInv
  <2>3. a \in Nat /\ d \in Nat /\ n \in Nat
    BY ONLY <1>3, <2>1, <2>2
  <2>4. serial + a + n + d <= conns + requests
    BY <1>3, <2>1, BudgetIs
  <2>5. ring' \in Seq(PacketSet) /\ down' \in Seq(PacketSet) /\ Len(ring') = a - 1
    BY <1>4, <1>12, <1>14, <2>1
  <2>6. Len(ring' \o down') = (a - 1) + b /\ b \in Nat
    BY <2>1, <2>5, PacketsConcat
  <2>7. c \in Nat
    <3>1. Alive(S') \subseteq Slots
      BY <1>18, <1>20
    <3> QED
      BY <2>1, <3>1, SlotsFinite
  <2>8. b + c = n
    BY <1>12, <1>13, <1>14, <1>20, <2>1
  <2>9. (serial + 1) + ((a - 1) + b) + c + d <= conns + requests
    BY ONLY <2>2, <2>3, <2>4, <2>6, <2>7, <2>8
  <2> QED
    BY ONLY <1>21, <2>1, <2>6, <2>9, serial' = serial + 1 DEF Ahead
<1>27. /\ ring' \in Seq(PacketSet) /\ down' \in Seq(PacketSet) /\ strays' \subseteq Conns /\ badgers' \subseteq Mboxes
       /\ dead' = FALSE /\ high' \in BOOLEAN
  BY <1>4, <1>12, <1>14
<1>28. requests' \in 0..MaxRequests /\ serial' \in Nat
  BY <1>21 DEF SessionInv
<1> QED
  BY ONLY <1>10, <1>19, <1>21, <1>22, <1>23, <1>24, <1>25, <1>26, <1>27, <1>28 DEF SessionInv

LEMMA DeliverKeeps ==
  ASSUME SessionInv, NEW take \in [Slots -> 0..MaxTake], Deliver(take)
  PROVE  SessionInv'
<1>1. PICK p : p = Head(ring)
  OBVIOUS
<1>2. /\ ring # <<>> /\ ring' = Tail(ring) /\ serial' = serial + 1 /\ UNCHANGED <<scratch, conns, requests>>
      /\ \/ p.kind = "data" /\ DeliverData(p, take)
         \/ p.kind = "join" /\ DeliverJoin(p, take)
         \/ p.kind = "leave" /\ DeliverLeave(p, take)
         \/ p.kind = "kill" /\ DeliverKill(p, take)
  BY <1>1 DEF Deliver
<1>3. Takes(take)
  BY DEF Takes
<1> QED
  BY ONLY SessionInv, <1>1, <1>2, <1>3, DeliverDataKeeps, DeliverJoinKeeps, DeliverLeaveKeeps, DeliverKillKeeps

\* Nothing happens.
LEMMA StutterKeeps ==
  ASSUME SessionInv, UNCHANGED vars
  PROVE  SessionInv'
<1>1. /\ S' = S /\ list' = list /\ hash' = hash /\ free' = free /\ scratch' = scratch /\ open' = open
      /\ badgers' = badgers /\ high' = high /\ down' = down /\ ring' = ring /\ members' = members
      /\ mboxes' = mboxes /\ joined' = joined /\ given' = given /\ out' = out /\ strays' = strays
      /\ dead' = dead /\ conns' = conns /\ requests' = requests /\ serial' = serial
  BY DEF vars, sessVars, groupVars, outVars, bounds
<1> QED
  BY <1>1 DEF SessionInv

LEMMA NextKeeps ==
  ASSUME SessionInv, [Next]_vars
  PROVE  SessionInv'
<1>1. CASE Accept \/ Refuse \/ Send
  BY <1>1, AcceptKeeps, RefuseKeeps, SendKeeps
<1>2. ASSUME NEW name \in Names, AcceptContinue(name)
      PROVE  SessionInv'
  BY <1>2, AcceptContinueKeeps
<1>3. ASSUME NEW s \in Slots, Authenticated(s)
      PROVE  SessionInv'
  BY <1>3, AuthenticatedKeeps
<1>4. ASSUME NEW m \in Mboxes, Read(m)
      PROVE  SessionInv'
  BY <1>4, ReadKeeps
<1>5. ASSUME NEW m \in Mboxes, ReadEnd(m)
      PROVE  SessionInv'
  BY <1>5, ReadEndKeeps
<1>6. ASSUME NEW m \in Mboxes, NEW k \in 0..MaxTake, Badger(m, k)
      PROVE  SessionInv'
  BY <1>6, BadgerKeeps
<1>7. ASSUME NEW g \in GroupNames, Remote(g)
      PROVE  SessionInv'
  BY <1>7, RemoteKeeps
<1>8. ASSUME NEW take \in [Slots -> 0..MaxTake], Deliver(take)
      PROVE  SessionInv'
  BY <1>8, DeliverKeeps
<1>9. CASE UNCHANGED vars
  BY <1>9, StutterKeeps
<1> QED
  BY <1>1, <1>2, <1>3, <1>4, <1>5, <1>6, <1>7, <1>8, <1>9 DEF Next

--------------------------------------------------------------------------------
(* The theorems *)

\* The invariant of the daemon's sessions: the tables of sessions, the descriptors, the
\* packets on their way, the groups' mailboxes and the clients' streams fit together.
THEOREM SessionHolds == Spec => []SessionInv
<1>1. Init => SessionInv
  BY InitHolds
<1>2. SessionInv /\ [Next]_vars => SessionInv'
  BY NextKeeps
<1> QED
  BY <1>1, <1>2, PTL DEF Spec

LEMMA InvTypeOK ==
  ASSUME SessionInv
  PROVE  TypeOK
<1>1. S \in [Slots -> SessionRec] /\ list \in Seq(Slots) /\ free \in Seq(Slots) /\ hash \in [Mboxes -> Seq(Slots)]
  BY DEF SessionInv, ConnsOK, ListOK, HashOK
<1>2. scratch \in Mboxes \cup {0} /\ open \subseteq Mboxes /\ badgers \subseteq Mboxes
  BY DEF SessionInv, OpenOK
<1>3. {high, dead} \subseteq BOOLEAN
  BY DEF SessionInv
<1>4. /\ members \in [GroupNames -> SUBSET Names] /\ mboxes \in [GroupNames -> Seq(Mboxes)]
      /\ joined \in [Conns -> SUBSET GroupNames] /\ strays \subseteq Conns
  BY DEF SessionInv, GroupsOK
<1> QED
  BY ONLY <1>1, <1>2, <1>3, <1>4 DEF TypeOK, SessionRec

\* No handler reaches an EXIT alarm of session.c or groups.c, and none uses the index -1
\* of a mailbox that has no session (Sess_accept, Sess_accept_continue, Sess_write,
\* Sess_kill, G_handle_join, G_handle_leave, G_handle_kill).
THEOREM SessionIsSound == Spec => []Sound
<1>1. SessionInv => Sound
  BY InvTypeOK DEF Sound, NeverExits, SessionInv
<1> QED
  BY <1>1, SessionHolds, PTL

LEMMA InvTables ==
  ASSUME SessionInv
  PROVE  TablesAgree
<1>1. /\ \A i, j \in DOMAIN list : i < j => S[list[i]].name < S[list[j]].name
      /\ Len(list) + Len(free) = MAX_SESSIONS
  BY DEF SessionInv, ListOK
<1>2. ToSet(list) \cap ToSet(free) = {}
  <2>1. /\ list \in Seq(Slots) /\ free \in Seq(Slots)
        /\ \A s \in Slots : /\ s \in Used(S) <=> \E i \in DOMAIN list : list[i] = s
                            /\ s \notin Used(S) <=> \E i \in DOMAIN free : free[i] = s
    BY DEF SessionInv, ListOK
  <2>2. ASSUME NEW i \in DOMAIN list, NEW j \in DOMAIN free
        PROVE  list[i] # free[j]
    <3>1. list[i] \in Slots /\ free[j] \in Slots
      BY <2>1
    <3> QED
      BY <2>1, <3>1
  <2> QED
    BY <2>2 DEF ToSet
<1>3. ASSUME NEW s \in Slots, S[s].status \in {"op", "preauth"}
      PROVE  S[s].mbox \in open /\ IndexOf(S[s].mbox) = s
  <2>1. s \in Alive(S) /\ s \in Used(S)
    BY <1>3 DEF Alive, Used
  <2>2. S[s].mbox \in open /\ S[s].mbox \in Mboxes
    BY <2>1 DEF SessionInv, OpenOK
  <2>3. IndexOf(S[s].mbox) = s
    BY <2>1, <2>2, IndexIs DEF SessionInv
  <2> QED
    BY <2>2, <2>3
<1> QED
  BY <1>1, <1>2, <1>3 DEF TablesAgree

LEMMA InvMembers ==
  ASSUME SessionInv
  PROVE  MembersHaveSessions
<1>1. NamesDiffer(S) /\ GroupsOK(S, members, mboxes) /\ ListOK(S, list, free) /\ ConnsOK(S, scratch, conns)
  BY InvFacts DEF SessionInv
<1>2. ASSUME NEW g \in GroupNames
      PROVE  /\ Len(mboxes[g]) = Cardinality(members[g])
             /\ \A name \in members[g] : Found(name) /\ In(g, S[Named(name)].mbox)
  <2>1. PICK q, M : q = mboxes[g] /\ M = members[g]
    OBVIOUS
  <2>2. PICK f : Match(S, M, q, f)
    BY <1>1, <2>1, GroupsMatch
  <2>3. q \in Seq(Mboxes) /\ Len(q) \in Nat /\ DOMAIN q = 1..Len(q)
    BY <1>1, <2>1 DEF GroupsOK
  <2>4. f \in Bijection(1..Len(q), M)
    <3>1. f \in [1..Len(q) -> M] /\ (\A i, j \in 1..Len(q) : f[i] = f[j] => i = j)
          /\ \A name \in M : \E i \in 1..Len(q) : f[i] = name
      BY <2>2, <2>3 DEF Match
    <3> QED
      BY <3>1 DEF Bijection, Injection, Surjection, IsInjective
  <2>5. IsFiniteSet(1..Len(q)) /\ Cardinality(1..Len(q)) = Len(q)
    <3>1. Cardinality(1..Len(q)) = (IF 1 > Len(q) THEN 0 ELSE Len(q) - 1 + 1) /\ IsFiniteSet(1..Len(q))
      BY <2>3, FS_Interval
    <3> QED
      BY <2>3, <3>1
  <2>6. Cardinality(M) = Len(q)
    <3>1. ExistsBijection(1..Len(q), M)
      BY <2>4 DEF ExistsBijection
    <3> QED
      BY <2>5, <3>1, FS_Bijection
  <2>7. ASSUME NEW name \in M
        PROVE  Found(name) /\ In(g, S[Named(name)].mbox)
    <3>1. PICK i \in DOMAIN q : f[i] = name
      BY <2>2 DEF Match
    <3>2. PICK s \in Known(S) : S[s].name = name
      BY <2>2, <3>1 DEF Match
    <3>3. s \in Used(S)
      BY <3>2, InvFacts
    <3>4. S[s].name \in Names
      BY <1>1, <3>3 DEF ConnsOK
    <3>5. name \in Nat
      BY <3>2, <3>4, SessionAssumption
    <3>6. Found(name) /\ Named(name) = s
      BY ONLY <1>1, <3>2, <3>3, <3>5, NamedIs
    <3>7. S[s].name \in members[g]
      BY <2>1, <3>2
    <3>8. In(g, S[s].mbox)
      BY ONLY <1>1, <3>3, <3>7, g \in GroupNames, MemberIn
    <3> QED
      BY <3>6, <3>8
  <2> QED
    BY <2>1, <2>6, <2>7
<1> QED
  BY <1>2 DEF MembersHaveSessions

\* The list is sorted and disjoint from the free list, whoever may use a mailbox is found
\* by it (Sess_get_session_index), and every local member of a group is found by its name
\* (Sess_get_session) and its mailbox is in the group, once for each member.
THEOREM TablesFit == Spec => []TablesAndMembersAgree
<1>1. SessionInv => TablesAndMembersAgree
  BY InvTables, InvMembers DEF TablesAndMembersAgree
<1> QED
  BY <1>1, SessionHolds, PTL

LEMMA InvStreams ==
  ASSUME SessionInv
  PROVE  StreamIntact
<1>1. \A s \in Slots : StreamOK(S[s], given, out)
  BY DEF SessionInv, StreamsOK
<1> QED
  BY <1>1 DEF StreamIntact, StreamOK

LEMMA InvKills ==
  ASSUME SessionInv
  PROVE  OneKillInFlight
<1>1. NamesDiffer(S) /\ ConnsOK(S, scratch, conns) /\ FlightOK(S, ring \o down, 0) /\ Known(S) \subseteq Used(S)
  BY InvFacts DEF SessionInv
<1>2. PICK fl : fl = ring \o down
  OBVIOUS
<1>3. ASSUME NEW i \in DOMAIN fl, fl[i].kind = "kill"
      PROVE  \E t \in Used(S) : S[t].conn = fl[i].conn /\ S[t].name = fl[i].name /\ S[t].status = "killed"
  BY <1>1, <1>2, <1>3 DEF FlightOK
<1>4. ASSUME NEW i \in DOMAIN fl, NEW j \in DOMAIN fl, fl[i].kind = "kill", fl[j].kind = "kill", fl[i].name = fl[j].name
      PROVE  ~(i < j)
  <2>1. PICK t \in Used(S) : S[t].conn = fl[i].conn /\ S[t].name = fl[i].name
    BY <1>3, <1>4
  <2>2. PICK u \in Used(S) : S[u].conn = fl[j].conn /\ S[u].name = fl[j].name
    BY <1>3, <1>4
  <2>3. t = u
    BY <1>1, <1>4, <2>1, <2>2 DEF NamesDiffer
  <2> QED
    BY <1>1, <1>2, <1>4, <2>1, <2>2, <2>3 DEF FlightOK
<1>5. ASSUME NEW name \in Names
      PROVE  Cardinality({i \in DOMAIN fl : fl[i].kind = "kill" /\ fl[i].name = name})
               = IF \E s \in Slots : S[s].status = "killed" /\ S[s].name = name THEN 1 ELSE 0
  <2>1. PICK T : T = {i \in DOMAIN fl : fl[i].kind = "kill" /\ fl[i].name = name}
    OBVIOUS
  <2>2. CASE \E s \in Slots : S[s].status = "killed" /\ S[s].name = name
    <3>1. PICK s \in Slots : S[s].status = "killed" /\ S[s].name = name
      BY <2>2
    <3>2. s \in Used(S) /\ s # 0
      BY <3>1, SessionAssumption DEF Used, Slots
    <3>3. PICK i \in DOMAIN fl : fl[i].kind = "kill" /\ fl[i].conn = S[s].conn
      BY <1>1, <1>2, <3>1, <3>2 DEF FlightOK
    <3>4. PICK t \in Used(S) : S[t].conn = fl[i].conn /\ S[t].name = fl[i].name
      BY <1>3, <3>3
    <3>5. t = s
      BY <1>1, <3>2, <3>3, <3>4 DEF ConnsOK
    <3>6. i \in T
      BY <2>1, <3>1, <3>3, <3>4, <3>5
    <3>7. ASSUME NEW j \in T
          PROVE  j = i
      <4>1. ~(i < j) /\ ~(j < i)
        BY <1>4, <2>1, <3>6, <3>7
      <4>2. i \in Nat /\ j \in Nat
        BY <1>1, <1>2, <2>1, <3>6, <3>7 DEF FlightOK
      <4> QED
        BY ONLY <4>1, <4>2
    <3>8. T = {i}
      BY ONLY <3>6, <3>7
    <3>9. Cardinality(T) = 1
      BY <3>8, FS_Singleton
    <3> QED
      BY <2>1, <2>2, <3>9
  <2>3. CASE ~\E s \in Slots : S[s].status = "killed" /\ S[s].name = name
    <3>1. T = {}
      <4> SUFFICES ASSUME NEW i \in T
                   PROVE  FALSE
        OBVIOUS
      <4>1. PICK t \in Used(S) : S[t].name = fl[i].name /\ S[t].status = "killed"
        BY <1>3, <2>1
      <4> QED
        BY <2>1, <2>3, <4>1 DEF Used
    <3>2. Cardinality(T) = 0
      BY <3>1, FS_EmptySet
    <3> QED
      BY <2>1, <2>3, <3>2
  <2> QED
    BY <2>2, <2>3
<1> QED
  BY <1>2, <1>5 DEF OneKillInFlight

\* What a client was written and what is queued for it is exactly what Sess_write and
\* Sess_badger accepted for it, and a killed session has exactly one KILL message between
\* Sess_kill and Sess_handle_kill.
THEOREM StreamsAndKills == Spec => []StreamsAndKillsExact
<1>1. SessionInv => StreamsAndKillsExact
  BY InvStreams, InvKills DEF StreamsAndKillsExact
<1> QED
  BY <1>1, SessionHolds, PTL

=============================================================================
