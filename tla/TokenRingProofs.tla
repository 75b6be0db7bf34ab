--------------------------- MODULE TokenRingProofs ---------------------------
(***************************************************************************)
(* What is proved about TokenRing, for any ring, load and window: the      *)
(* counters of a daemon stay in step, what one daemon takes for held by    *)
(* all is held by all, and the token's flow control is exact.              *)
(***************************************************************************)
EXTENDS TokenRing, FiniteSetTheorems, WellFoundedInduction, TLAPS

--------------------------------------------------------------------------------
(* Numbers, folds *)

\* A set of numbers has a least one.
LEMMA LeastExists ==
  ASSUME NEW S \in SUBSET Nat, S # {}
  PROVE  \E n \in S : \A m \in S : n <= m
<1> DEFINE less == {ss \in Nat \X Nat : ss[1] < ss[2]}
<1>1. IsWellFoundedOn(less, Nat)
  BY NatLessThanWellFounded DEF OpToRel
<1>2. PICK n \in S : \A m \in S : ~(<<m, n>> \in less)
  BY <1>1, WFMin
<1>3. \A m \in S : m \in Nat /\ n \in Nat /\ (~(m < n) => n <= m)
  OBVIOUS
<1>4. \A m \in S : ~(m < n)
  BY <1>2, <1>3
<1> QED
  BY <1>3, <1>4

\* A set of numbers between two has a greatest one (AdvanceAru, DeliverAgreed).
LEMMA MaxIsIn ==
  ASSUME NEW lo \in Int, NEW hi \in Int, NEW S \in SUBSET (lo..hi), S # {}
  PROVE  Max(S) \in S /\ \A m \in S : m <= Max(S)
<1> DEFINE D == {n \in Nat : hi - n \in S}
<1>1. D \in SUBSET Nat /\ D # {}
  <2>1. PICK m \in S : TRUE
    OBVIOUS
  <2>2. hi - m \in Nat /\ hi - (hi - m) = m
    BY <2>1
  <2> QED
    BY <2>1, <2>2
<1>2. PICK n \in D : \A m \in D : n <= m
  BY <1>1, LeastExists
<1>3. hi - n \in S
  OBVIOUS
<1>4. \A m \in S : hi - n >= m
  <2> TAKE m \in S
  <2>1. hi - m \in Nat /\ hi - (hi - m) = m
    OBVIOUS
  <2>2. hi - m \in D
    BY <2>1
  <2>3. n <= hi - m /\ n \in Nat /\ m \in Int
    BY <1>2, <2>2
  <2> QED
    BY <2>3
<1>5. \E x \in S : \A y \in S : x >= y
  BY <1>3, <1>4
<1>6. Max(S) \in S /\ \A y \in S : Max(S) >= y
  BY <1>5 DEF Max
<1> DEFINE max == Max(S)
<1>7. max \in Int /\ \A m \in S : m \in Int
  <2>1. \A m \in S : m \in Int
    OBVIOUS
  <2> QED
    BY <1>6, <2>1
<1>8. \A m \in S : max >= m => m <= max
  <2> HIDE DEF max
  <2> QED
    BY <1>7
<1> QED
  BY <1>6, <1>8

\* The records Over goes through, from s to its result.
LEMMA OverSteps ==
  ASSUME NEW loop, NEW s, NEW a \in Int, NEW b \in Int, a <= b
  PROVE  \E f : /\ f[a - 1] = s /\ Over(loop, s, a, b) = f[b]
                /\ \A i \in a..b : f[i] = Step(loop, f[i - 1], i)
<1> DEFINE Runs(n, g) == g = [i \in (a - 1)..(a - 1 + n) |-> IF i < a THEN s ELSE Step(loop, g[i - 1], i)]
           Bad == {n \in Nat : ~\E g : Runs(n, g)}
<1>1. Bad = {}
  <2> SUFFICES ASSUME Bad # {} PROVE FALSE
    OBVIOUS
  <2>1. PICK n \in Bad : \A m \in Bad : n <= m
    BY LeastExists
  <2>2. n # 0
    <3>1. Runs(0, [i \in (a - 1)..(a - 1 + 0) |-> s])
      OBVIOUS
    <3> QED
      BY <3>1, <2>1
  <2>3. n - 1 \in Nat /\ n - 1 \notin Bad
    BY <2>1, <2>2
  <2>4. PICK g : Runs(n - 1, g)
    BY <2>3
  <2> DEFINE h == [i \in (a - 1)..(a - 1 + n) |-> IF i < a THEN s ELSE Step(loop, g[i - 1], i)]
  <2>5. \A i \in (a - 1)..(a - 1 + n) : ~(i < a) => h[i - 1] = g[i - 1]
    BY <2>3, <2>4
  <2>6. Runs(n, h)
    BY <2>5
  <2> QED
    BY <2>1, <2>6
<1>2. \E g : Runs(b - a + 1, g)
  <2>1. b - a + 1 \in Nat
    OBVIOUS
  <2> QED
    BY <1>1, <2>1
<1>3. a - 1 + (b - a + 1) = b
  OBVIOUS
<1> DEFINE f == CHOOSE g : g = [i \in (a - 1)..b |-> IF i < a THEN s ELSE Step(loop, g[i - 1], i)]
<1>4. f = [i \in (a - 1)..b |-> IF i < a THEN s ELSE Step(loop, f[i - 1], i)]
  BY <1>2, <1>3
<1>5. Over(loop, s, a, b) = f[b]
  BY DEF Over
<1> HIDE DEF f
<1>6. f[a - 1] = s
  <2>1. a - 1 \in (a - 1)..b /\ a - 1 < a
    OBVIOUS
  <2> QED
    BY <1>4, <2>1
<1>7. ASSUME NEW i \in a..b PROVE f[i] = Step(loop, f[i - 1], i)
  <2>1. i \in (a - 1)..b /\ ~(i < a)
    OBVIOUS
  <2> QED
    BY <1>4, <2>1
<1> QED
  BY <1>5, <1>6, <1>7

--------------------------------------------------------------------------------
(* What the operators keep of a daemon's record *)

Packet == [from : Nat, n : Nat, index : Int, seq : Nat]
Fields == {"seq", "myAru", "aru", "setAru", "disc", "del", "last", "count", "nSent",
           "slot", "part", "accepted", "down", "up", "dead"}

\* What the loops over packets leave as it is.
Keeps(s, t) ==
  /\ DOMAIN t = DOMAIN s /\ t.seq = s.seq /\ t.myAru = s.myAru /\ t.aru = s.aru
  /\ t.setAru = s.setAru /\ t.disc = s.disc /\ t.del = s.del /\ t.last = s.last
  /\ t.count = s.count /\ t.nSent = s.nSent /\ t.accepted = s.accepted /\ t.down = s.down

\* The slots hold packets of P with sequence numbers lo..hi, each in its place.
SlotHolds(c, i, P, lo, hi) ==
  c.exist # 0 => /\ c.exist \in 1..2 /\ c.pkt \in P /\ DOMAIN c = {"exist", "pkt"}
                 /\ c.pkt.seq \in lo..hi /\ c.pkt.seq % Slots = i
SlotsHold(s, P, lo, hi) ==
  /\ DOMAIN s.slot = 0..(Slots - 1)
  /\ \A i \in 0..(Slots - 1) : "exist" \in DOMAIN s.slot[i] /\ SlotHolds(s.slot[i], i, P, lo, hi)

LEMMA SlotPlace == \A i \in Int : i % Slots \in 0..(Slots - 1)
BY RingAssumption

\* Deliver_packet marks the packet and leaves the rest of the slots alone.
LEMMA DeliverPacketDoes ==
  ASSUME NEW t, NEW i \in Int, DOMAIN t = Fields
  PROVE  /\ Keeps(t, DeliverPacket(t, i))
         /\ DeliverPacket(t, i).slot = [t.slot EXCEPT ![i % Slots].exist = 2]
BY DEF DeliverPacket, Keeps, Fields

\* The loops change slots and what is delivered, nothing else.
LEMMA StepKeeps ==
  ASSUME NEW loop \in {"reliable", "agreed", "discard", "send"}, NEW t, NEW i \in Int, DOMAIN t = Fields
  PROVE  Keeps(t, Step(loop, t, i))
<1> USE DeliverPacketDoes DEF Fields
<1>1. CASE loop = "reliable"
  BY ZenonT(30), <1>1 DEF Step, Keeps
<1>2. CASE loop = "agreed"
  BY ZenonT(30), <1>2 DEF Step, Keeps
<1>3. CASE loop = "discard"
  <2> DEFINE u == IF Exist(t, i) = 1 THEN DeliverPacket(t, i) ELSE t
  <2>1. Keeps(t, u)
    BY DEF Keeps
  <2>2. Step(loop, t, i) = [u EXCEPT !.dead = @ \/ Exist(t, i) = 0, !.slot[i % Slots] = NoPacket]
    BY <1>3 DEF Step
  <2> HIDE DEF u
  <2> QED
    BY <2>1, <2>2 DEF Keeps
<1>4. CASE loop = "send"
  BY <1>4 DEF Step, Keeps
<1> QED
  BY <1>1, <1>2, <1>3, <1>4

LEMMA OverKeeps ==
  ASSUME NEW loop \in {"reliable", "agreed", "discard", "send"}, NEW s, NEW a \in Int, NEW b \in Int,
         DOMAIN s = Fields
  PROVE  Keeps(s, Over(loop, s, a, b))
<1>1. Keeps(s, s)
  BY DEF Keeps
<1>2. CASE b < a
  BY <1>1, <1>2 DEF Over
<1>3. CASE a <= b
  <2>1. PICK f : /\ f[a - 1] = s /\ Over(loop, s, a, b) = f[b]
                 /\ \A i \in a..b : f[i] = Step(loop, f[i - 1], i)
    BY <1>3, OverSteps
  <2> DEFINE Bad == {n \in Nat : a - 1 + n <= b /\ ~Keeps(s, f[a - 1 + n])}
  <2>2. Bad = {}
    <3> SUFFICES ASSUME Bad # {} PROVE FALSE
      OBVIOUS
    <3>1. PICK n \in Bad : \A m \in Bad : n <= m
      BY LeastExists
    <3>2. n # 0
      BY <1>1, <2>1, <3>1
    <3>3. n - 1 \in Nat /\ n - 1 \notin Bad /\ a - 1 + (n - 1) = a - 1 + n - 1
      BY <3>1, <3>2
    <3>4. Keeps(s, f[a - 1 + n - 1])
      BY <3>3, <3>1
    <3>5. f[a - 1 + n] = Step(loop, f[a - 1 + n - 1], a - 1 + n)
      BY <2>1, <3>1, <3>2
    <3>6. Keeps(f[a - 1 + n - 1], f[a - 1 + n])
      BY <3>4, <3>5, StepKeeps DEF Keeps
    <3>7. Keeps(s, f[a - 1 + n])
      BY <3>4, <3>6 DEF Keeps
    <3> QED
      BY <3>1, <3>7
  <2>3. b - a + 1 \in Nat /\ a - 1 + (b - a + 1) = b /\ b <= b
    BY <1>3
  <2>4. \A n \in Nat : a - 1 + n <= b => Keeps(s, f[a - 1 + n])
    BY <2>2
  <2>5. Keeps(s, f[b])
    BY <2>3, <2>4
  <2> QED
    BY <2>1, <2>5
<1> QED
  BY <1>2, <1>3
\* How the range of sequence numbers that are held moves as a loop goes on to i.
LoAt(loop, lo, i) == IF loop = "discard" THEN i ELSE lo
HiAt(loop, hi, i) == IF loop = "send" THEN i - 1 ELSE hi
\* The packet that a loop would send as i.
Numbered(s, i) == [s.down[i - s.seq] EXCEPT !.seq = i]

LEMMA DeliverPacketSlots ==
  ASSUME NEW t, NEW i \in Int, NEW P, NEW lo \in Int, NEW hi \in Int, DOMAIN t = Fields,
         SlotsHold(t, P, lo, hi), Exist(t, i) = 1
  PROVE  SlotsHold(DeliverPacket(t, i), P, lo, hi)
<1> DEFINE u == DeliverPacket(t, i)
           j == i % Slots
<1>1. u.slot = [t.slot EXCEPT ![j].exist = 2] /\ j \in 0..(Slots - 1)
  BY DeliverPacketDoes, SlotPlace
<1>2. DOMAIN t.slot = 0..(Slots - 1) /\ t.slot[j].exist = 1
  BY DEF SlotsHold, Exist
<1>3. DOMAIN u.slot = 0..(Slots - 1)
  BY <1>1, <1>2
<1>4. ASSUME NEW k \in 0..(Slots - 1)
      PROVE  "exist" \in DOMAIN u.slot[k] /\ SlotHolds(u.slot[k], k, P, lo, hi)
  <2>1. "exist" \in DOMAIN t.slot[k] /\ SlotHolds(t.slot[k], k, P, lo, hi)
    BY DEF SlotsHold
  <2>2. CASE k = j
    <3>1. u.slot[k] = [t.slot[k] EXCEPT !.exist = 2]
      BY <1>1, <1>2, <2>2
    <3>2. u.slot[k].exist = 2 /\ u.slot[k].pkt = t.slot[k].pkt /\ DOMAIN u.slot[k] = DOMAIN t.slot[k]
      BY <3>1, <2>1, <2>2, <1>2 DEF SlotHolds
    <3> HIDE DEF u, j
    <3> QED
      BY <3>2, <2>1, <2>2, <1>2 DEF SlotHolds
  <2>3. CASE k # j
    BY <1>1, <1>2, <2>1, <2>3
  <2> QED
    BY <2>2, <2>3
<1> QED
  BY <1>3, <1>4 DEF SlotsHold

LEMMA StepSlots ==
  ASSUME NEW loop \in {"reliable", "agreed", "discard", "send"}, NEW t, NEW i \in Int, NEW P,
         NEW lo \in Int, NEW hi \in Int, DOMAIN t = Fields,
         SlotsHold(t, P, LoAt(loop, lo, i), HiAt(loop, hi, i)),
         loop = "send" => lo <= i /\ Numbered(t, i) \in P /\ Numbered(t, i).seq = i
  PROVE  SlotsHold(Step(loop, t, i), P, LoAt(loop, lo, i + 1), HiAt(loop, hi, i + 1))
<1>1. i % Slots \in 0..(Slots - 1)
  BY SlotPlace
<1>2. CASE loop = "reliable"
  BY <1>2, DeliverPacketSlots DEF Step, LoAt, HiAt
<1>3. CASE loop = "agreed"
  <2>1. ASSUME Exist(t, i) = 0 PROVE Step(loop, t, i).slot = t.slot
    BY <1>3, <2>1 DEF Step, Fields
  <2>2. CASE Exist(t, i) = 0
    BY <1>3, <2>1, <2>2 DEF SlotsHold, LoAt, HiAt
  <2>3. CASE Exist(t, i) # 0
    BY <1>3, <2>3, DeliverPacketSlots DEF Step, LoAt, HiAt
  <2> QED
    BY <2>2, <2>3
<1>4. CASE loop = "discard"
  <2> DEFINE u == IF Exist(t, i) = 1 THEN DeliverPacket(t, i) ELSE t
             v == Step(loop, t, i)
  <2>1. SlotsHold(u, P, i, hi)
    BY <1>4, DeliverPacketSlots DEF LoAt, HiAt
  <2>2. DOMAIN u = Fields
    BY DeliverPacketDoes DEF Keeps
  <2>3. v = [u EXCEPT !.dead = @ \/ Exist(t, i) = 0, !.slot[i % Slots] = NoPacket]
    BY <1>4 DEF Step
  <2> HIDE DEF u, v
  <2>4. v.slot = [u.slot EXCEPT ![i % Slots] = NoPacket]
    BY <2>2, <2>3 DEF Fields
  <2>5. ASSUME NEW k \in 0..(Slots - 1)
        PROVE  "exist" \in DOMAIN v.slot[k] /\ SlotHolds(v.slot[k], k, P, i + 1, hi)
    <3>1. "exist" \in DOMAIN u.slot[k] /\ SlotHolds(u.slot[k], k, P, i, hi) /\ DOMAIN u.slot = 0..(Slots - 1)
      BY <2>1 DEF SlotsHold
    <3>2. CASE k = i % Slots
      <4>1. v.slot[k] = [exist |-> 0]
        BY <2>4, <3>1, <3>2 DEF NoPacket
      <4>2. v.slot[k].exist = 0 /\ "exist" \in DOMAIN v.slot[k]
        BY <4>1
      <4> QED
        BY <4>2 DEF SlotHolds
    <3>3. CASE k # i % Slots
      <4>1. v.slot[k] = u.slot[k]
        BY <2>4, <3>1, <3>3
      <4>2. u.slot[k].exist # 0 => u.slot[k].pkt.seq # i
        BY <3>1, <3>3 DEF SlotHolds
      <4> QED
        BY <4>1, <4>2, <3>1 DEF SlotHolds
    <3> QED
      BY <3>2, <3>3
  <2>6. DOMAIN v.slot = 0..(Slots - 1)
    BY <2>4, <2>1 DEF SlotsHold
  <2>7. SlotsHold(v, P, i + 1, hi)
    BY <2>5, <2>6 DEF SlotsHold
  <2> QED
    BY <1>4, <2>7 DEF v, LoAt, HiAt
<1>5. CASE loop = "send"
  <2> DEFINE v == Step(loop, t, i)
             pkt == Numbered(t, i)
  <2>1. v.slot = [t.slot EXCEPT ![i % Slots] = [exist |-> 1, pkt |-> pkt]]
    BY <1>5 DEF Step, Numbered, Fields
  <2>0. pkt \in P /\ pkt.seq = i /\ lo <= i
    BY <1>5
  <2> HIDE DEF v, pkt
  <2>2. SlotsHold(t, P, lo, i - 1)
    BY <1>5 DEF LoAt, HiAt
  <2>3. ASSUME NEW k \in 0..(Slots - 1)
        PROVE  "exist" \in DOMAIN v.slot[k] /\ SlotHolds(v.slot[k], k, P, lo, i)
    <3>1. "exist" \in DOMAIN t.slot[k] /\ SlotHolds(t.slot[k], k, P, lo, i - 1) /\ DOMAIN t.slot = 0..(Slots - 1)
      BY <2>2 DEF SlotsHold
    <3>2. CASE k = i % Slots
      <4>1. v.slot[k] = [exist |-> 1, pkt |-> pkt]
        BY <2>1, <3>1, <3>2
      <4> QED
        BY <4>1, <2>0, <3>2 DEF SlotHolds
    <3>3. CASE k # i % Slots
      <4>1. v.slot[k] = t.slot[k]
        BY <2>1, <3>1, <3>3
      <4> QED
        BY <4>1, <3>1 DEF SlotHolds
    <3> QED
      BY <3>2, <3>3
  <2>4. DOMAIN v.slot = 0..(Slots - 1)
    BY <2>1, <2>2 DEF SlotsHold
  <2>5. i + 1 - 1 = i
    OBVIOUS
  <2>6. SlotsHold(v, P, lo, i)
    BY <2>3, <2>4 DEF SlotsHold
  <2> QED
    BY <1>5, <2>5, <2>6 DEF v, LoAt, HiAt
<1> QED
  BY <1>2, <1>3, <1>4, <1>5

LEMMA OverSlots ==
  ASSUME NEW loop \in {"reliable", "agreed", "discard", "send"}, NEW s, NEW a \in Int, NEW b \in Int,
         NEW P, NEW lo \in Int, NEW hi \in Int, DOMAIN s = Fields, a <= b,
         SlotsHold(s, P, LoAt(loop, lo, a), HiAt(loop, hi, a)),
         loop = "send" => lo <= a /\ \A i \in a..b : Numbered(s, i) \in P /\ Numbered(s, i).seq = i
  PROVE  SlotsHold(Over(loop, s, a, b), P, LoAt(loop, lo, b + 1), HiAt(loop, hi, b + 1))
<1>1. \E f : /\ f[a - 1] = s /\ Over(loop, s, a, b) = f[b]
             /\ \A i \in a..b : f[i] = Step(loop, f[i - 1], i)
  <2>1. a <= b
    OBVIOUS
  <2> QED
    BY ONLY <2>1, OverSteps
<1>2. PICK f : /\ f[a - 1] = s /\ Over(loop, s, a, b) = f[b]
               /\ \A i \in a..b : f[i] = Step(loop, f[i - 1], i)
  BY <1>1
<1> DEFINE Good(i) == /\ Keeps(s, f[i - 1])
                      /\ SlotsHold(f[i - 1], P, LoAt(loop, lo, i), HiAt(loop, hi, i))
           Bad == {n \in Nat : a + n <= b + 1 /\ ~Good(a + n)}
<1>3. Good(a + 0)
  BY <1>2 DEF Keeps
<1>4. Bad = {}
  <2> SUFFICES ASSUME Bad # {} PROVE FALSE
    OBVIOUS
  <2>1. PICK n \in Bad : \A m \in Bad : n <= m
    BY LeastExists
  <2>2. n # 0
    BY <1>3, <2>1
  <2> DEFINE i == a + (n - 1)
  <2>3. n - 1 \in Nat /\ n - 1 \notin Bad /\ i + 1 = a + n /\ i \in a..b
    BY <2>1, <2>2
  <2>4. Good(i)
    BY <2>3
  <2>5. f[i] = Step(loop, f[i - 1], i)
    BY <1>2, <2>3
  <2>6. i + 1 - 1 = i /\ i \in Int
    BY <2>3
  <2>7. DOMAIN f[i - 1] = Fields /\ Numbered(f[i - 1], i) = Numbered(s, i)
    BY <2>4 DEF Keeps, Numbered
  <2>8. loop = "send" => lo <= i
    BY <2>3
  <2> HIDE DEF i
  <2>9. Keeps(f[i - 1], f[i])
    BY <2>5, <2>6, <2>7, StepKeeps
  <2>10. SlotsHold(f[i], P, LoAt(loop, lo, i + 1), HiAt(loop, hi, i + 1))
    BY <2>3, <2>4, <2>5, <2>6, <2>7, <2>8, StepSlots
  <2>11. Keeps(s, f[i])
    BY <2>4, <2>9 DEF Keeps
  <2>12. Good(i + 1)
    BY <2>6, <2>10, <2>11
  <2> HIDE DEF Good
  <2> QED
    BY <2>1, <2>3, <2>12
<1>5. \A n \in Nat : a + n <= b + 1 => Good(a + n)
  BY <1>4
<1> HIDE DEF Good
<1>6. Good(b + 1)
  <2>1. b + 1 - a \in Nat /\ a + (b + 1 - a) = b + 1
    OBVIOUS
  <2> QED
    BY <1>5, <2>1
<1>7. b + 1 - 1 = b
  OBVIOUS
<1> QED
  BY <1>2, <1>6, <1>7 DEF Good
--------------------------------------------------------------------------------
(* The counters of a daemon *)

\* The counters of a daemon's record are in step, and its slots hold packets of P.
Counters(s, P) ==
  /\ DOMAIN s = Fields
  /\ s.seq \in Nat /\ s.myAru \in Nat /\ s.aru \in Nat /\ s.disc \in Nat /\ s.del \in Nat
  /\ s.setAru \in Nat \cup {-1} /\ s.nSent \in Int /\ s.accepted \in Nat /\ s.down \in Seq(Packet)
  /\ s.disc <= s.del /\ s.del <= s.myAru /\ s.myAru <= s.seq /\ s.disc <= s.aru
  /\ SlotsHold(s, P, s.disc + 1, s.seq)

\* What delivery leaves as it is, freeing packets included.
KeepsRing(s, t) ==
  /\ DOMAIN t = DOMAIN s /\ t.seq = s.seq /\ t.myAru = s.myAru /\ t.aru = s.aru
  /\ t.setAru = s.setAru /\ t.last = s.last /\ t.count = s.count /\ t.nSent = s.nSent
  /\ t.accepted = s.accepted /\ t.down = s.down

LEMMA SlotsMore ==
  ASSUME NEW s, NEW P, NEW Q, P \subseteq Q, NEW lo \in Int, NEW hi \in Int, NEW more \in Int,
         hi <= more, SlotsHold(s, P, lo, hi)
  PROVE  SlotsHold(s, Q, lo, more)
BY DEF SlotsHold, SlotHolds

LEMMA DeliverReliableKeeps ==
  ASSUME NEW s, NEW P, Counters(s, P), NEW a \in Int, NEW b \in Int
  PROVE  Counters(DeliverReliable(s, a, b), P) /\ KeepsRing(s, DeliverReliable(s, a, b))
<1> DEFINE c == Greater(a, s.del + 1)
           t == Over("reliable", s, c, b)
<1>1. c \in Int
  BY DEF Counters, Greater
<1>2. t = DeliverReliable(s, a, b)
  BY DEF DeliverReliable
<1>3. Keeps(s, t)
  BY <1>1, OverKeeps DEF Counters
<1>4. SlotsHold(t, P, s.disc + 1, s.seq)
  <2>1. CASE b < c
    BY <2>1 DEF Over, Counters
  <2>2. CASE c <= b
    <3>1. s.disc + 1 \in Int /\ s.seq \in Int /\ DOMAIN s = Fields /\ SlotsHold(s, P, s.disc + 1, s.seq)
      BY DEF Counters
    <3> HIDE DEF c
    <3> QED
      BY <1>1, <2>2, <3>1, OverSlots DEF LoAt, HiAt
  <2> QED
    BY <1>1, <2>1, <2>2
<1> HIDE DEF t, c
<1>5. Counters(t, P)
  BY <1>3, <1>4 DEF Counters, Keeps
<1>6. KeepsRing(s, t)
  BY <1>3 DEF Keeps, KeepsRing
<1> QED
  BY <1>2, <1>5, <1>6

LEMMA DeliverAgreedKeeps ==
  ASSUME NEW s, NEW P, Counters(s, P)
  PROVE  Counters(DeliverAgreed(s), P) /\ KeepsRing(s, DeliverAgreed(s))
<1> DEFINE Waits(i) == Exist(s, i) = 1 /\ Service(PacketAt(s, i)) = "safe"
           S == {a \in s.del..Greater(s.del, s.myAru) : \A i \in (s.del + 1)..a : ~Waits(i)}
           upto == Max(S)
           t == Over("agreed", s, s.del + 1, upto)
           u == DeliverAgreed(s)
<1>1. s.del \in Int /\ Greater(s.del, s.myAru) = s.myAru /\ s.myAru \in Int /\ s.del <= s.myAru
  BY DEF Counters, Greater
<1>2. upto \in s.del..s.myAru
  <2>1. S \in SUBSET (s.del..s.myAru)
    BY <1>1
  <2>2. s.del \in S
    BY <1>1
  <2> HIDE DEF S
  <2> QED
    BY <1>1, <2>1, <2>2, MaxIsIn
<1>3. u = [t EXCEPT !.del = upto]
  BY DEF DeliverAgreed
<1> HIDE DEF u, upto, S
<1>4. Keeps(s, t)
  <2>1. s.del + 1 \in Int /\ upto \in Int
    BY <1>1, <1>2
  <2> QED
    BY <2>1, OverKeeps DEF Counters
<1>5. SlotsHold(t, P, s.disc + 1, s.seq)
  <2>1. CASE upto < s.del + 1
    BY <2>1 DEF Over, Counters
  <2>2. CASE s.del + 1 <= upto
    <3>1. s.disc + 1 \in Int /\ s.seq \in Int /\ DOMAIN s = Fields /\ SlotsHold(s, P, s.disc + 1, s.seq)
      BY DEF Counters
    <3>2. s.del + 1 \in Int /\ upto \in Int
      BY <1>1, <1>2
    <3> QED
      BY <2>2, <3>1, <3>2, OverSlots DEF LoAt, HiAt
  <2> QED
    BY <1>1, <1>2, <2>1, <2>2
<1> HIDE DEF t
<1>6. u.del = upto /\ u.disc = t.disc /\ u.slot = t.slot /\ KeepsRing(s, u)
  BY <1>3, <1>4 DEF Keeps, KeepsRing, Counters, Fields
<1>7. SlotsHold(u, P, s.disc + 1, s.seq)
  BY <1>5, <1>6 DEF SlotsHold
<1>8. upto \in Nat /\ upto <= s.myAru /\ s.disc <= upto
  BY <1>1, <1>2 DEF Counters
<1>9. Counters(u, P)
  BY <1>4, <1>6, <1>7, <1>8 DEF Counters, KeepsRing, Keeps
<1> QED
  BY <1>6, <1>9 DEF u

\* Discard_packets frees exactly up to Aru.
LEMMA DiscardPacketsKeeps ==
  ASSUME NEW s, NEW P, Counters(s, P), s.aru <= s.myAru
  PROVE  Counters(DiscardPackets(s), P) /\ KeepsRing(s, DiscardPackets(s))
<1> DEFINE t == Over("discard", s, s.disc + 1, s.aru)
           u == DiscardPackets(s)
<1>1. CASE s.aru <= s.disc
  BY <1>1 DEF DiscardPackets, KeepsRing
<1>2. CASE ~(s.aru <= s.disc)
  <2>1. u = [t EXCEPT !.disc = s.aru, !.del = Greater(@, s.aru)]
    BY <1>2 DEF DiscardPackets
  <2> HIDE DEF u
  <2>2. s.disc + 1 \in Int /\ s.aru \in Int /\ s.disc + 1 <= s.aru /\ s.seq \in Int /\ DOMAIN s = Fields
    BY <1>2 DEF Counters
  <2>3. Keeps(s, t)
    BY <2>2, OverKeeps
  <2>4. SlotsHold(t, P, s.aru + 1, s.seq)
    BY <2>2, OverSlots DEF LoAt, HiAt, Counters
  <2> HIDE DEF t
  <2>5. u.disc = s.aru /\ u.del = Greater(s.del, s.aru) /\ u.slot = t.slot /\ KeepsRing(s, u)
    BY <2>1, <2>2, <2>3 DEF Keeps, KeepsRing, Fields
  <2>6. SlotsHold(u, P, s.aru + 1, s.seq)
    BY <2>4, <2>5 DEF SlotsHold
  <2>7. Counters(u, P)
    BY <2>5, <2>6 DEF Counters, KeepsRing, Greater
  <2> QED
    BY <2>5, <2>7 DEF u
<1> QED
  BY <1>1, <1>2
\* What sending and receiving packets leaves as it is; the two that go up only do that.
Grows(s, t) ==
  /\ DOMAIN t = DOMAIN s /\ t.aru = s.aru /\ t.setAru = s.setAru /\ t.last = s.last
  /\ t.nSent = s.nSent /\ t.seq >= s.seq /\ t.myAru >= s.myAru

LEMMA NumberedIsPacket ==
  ASSUME NEW s, s.seq \in Nat, s.down \in Seq(Packet), NEW j \in 1..Len(s.down)
  PROVE  /\ [s.down[j] EXCEPT !.seq = s.seq + j] \in Packet
         /\ [s.down[j] EXCEPT !.seq = s.seq + j].seq = s.seq + j
<1>1. s.down[j] \in Packet
  OBVIOUS
<1>2. s.seq + j \in Nat
  OBVIOUS
<1> QED
  BY <1>1, <1>2 DEF Packet

LEMMA SendNewPacketsDoes ==
  ASSUME NEW s, NEW P, NEW Q, Counters(s, P), P \subseteq Q, NEW k \in 0..Len(s.down),
         ToSet(NewPackets(s, k)) \subseteq Q
  PROVE  /\ Counters(SendNewPackets(s, k), Q) /\ Grows(s, SendNewPackets(s, k))
         /\ SendNewPackets(s, k).seq = s.seq + k
<1> DEFINE a == s.seq + 1
           b == s.seq + k
           t == Over("send", s, a, b)
           u == SendNewPackets(s, k)
<1>1. /\ s.seq \in Nat /\ s.down \in Seq(Packet) /\ k \in Nat /\ a \in Int /\ b \in Int
      /\ DOMAIN s = Fields /\ s.disc \in Nat /\ s.disc + 1 <= a
  BY SMTT(30) DEF Counters
<1>2. u = [t EXCEPT !.seq = @ + k, !.down = SubSeq(@, k + 1, Len(@))]
  BY DEF SendNewPackets
<1>3. Keeps(s, t)
  BY <1>1, OverKeeps
<1>4. \A i \in a..b : Numbered(s, i) \in Q /\ Numbered(s, i).seq = i
  <2> TAKE i \in a..b
  <2> DEFINE j == i - s.seq
  <2>1. j \in 1..Len(s.down) /\ j \in 1..k /\ s.seq + j = i
    BY SMTT(30), <1>1
  <2>2. Numbered(s, i) = [s.down[j] EXCEPT !.seq = s.seq + j]
    BY <2>1 DEF Numbered
  <2>3. NewPackets(s, k)[j] \in ToSet(NewPackets(s, k)) /\ NewPackets(s, k)[j] = [s.down[j] EXCEPT !.seq = s.seq + j]
    BY <2>1 DEF NewPackets, ToSet
  <2> HIDE DEF j
  <2> QED
    BY <1>1, <2>1, <2>2, <2>3, NumberedIsPacket
<1>5. SlotsHold(t, Q, s.disc + 1, b)
  <2>1. SlotsHold(s, Q, s.disc + 1, s.seq)
    BY <1>1, SlotsMore DEF Counters
  <2>2. CASE k = 0
    BY <1>1, <2>1, <2>2 DEF Over
  <2>3. CASE k # 0
    <3>1. a <= b /\ a - 1 = s.seq /\ b + 1 - 1 = b /\ s.disc + 1 \in Int /\ s.seq \in Int
      BY <1>1, <2>3
    <3>2. SlotsHold(s, Q, LoAt("send", s.disc + 1, a), HiAt("send", s.seq, a))
      BY <2>1, <3>1 DEF LoAt, HiAt
    <3>4. LoAt("send", s.disc + 1, b + 1) = s.disc + 1 /\ HiAt("send", s.seq, b + 1) = b
      BY <1>1 DEF LoAt, HiAt
    <3> HIDE DEF a, b
    <3>3. SlotsHold(t, Q, LoAt("send", s.disc + 1, b + 1), HiAt("send", s.seq, b + 1))
      BY <1>1, <1>4, <3>1, <3>2, OverSlots
    <3> QED
      BY <3>3, <3>4
  <2> QED
    BY <2>2, <2>3
<1> HIDE DEF t, u
<1>6. /\ DOMAIN u = Fields /\ u.seq = s.seq + k /\ u.down = SubSeq(s.down, k + 1, Len(s.down))
      /\ u.slot = t.slot /\ u.myAru = s.myAru /\ u.aru = s.aru /\ u.setAru = s.setAru
      /\ u.disc = s.disc /\ u.del = s.del /\ u.last = s.last /\ u.nSent = s.nSent
      /\ u.accepted = s.accepted
  BY <1>1, <1>2, <1>3 DEF Keeps, Fields
<1>7. u.down \in Seq(Packet)
  BY <1>1, <1>6
<1>8. SlotsHold(u, Q, u.disc + 1, u.seq)
  BY <1>5, <1>6 DEF SlotsHold
<1>9. /\ s.myAru \in Nat /\ s.aru \in Nat /\ s.del \in Nat /\ s.setAru \in Nat \cup {-1}
      /\ s.nSent \in Int /\ s.accepted \in Nat
      /\ s.disc <= s.del /\ s.del <= s.myAru /\ s.myAru <= s.seq /\ s.disc <= s.aru
  BY DEF Counters
<1>10. u.seq \in Nat /\ s.seq <= u.seq /\ s.myAru <= u.seq
  BY ONLY SMTT(30), <1>1, <1>6, <1>9
<1>11. Counters(u, Q)
  BY ONLY <1>1, <1>6, <1>7, <1>8, <1>9, <1>10 DEF Counters
<1>12. Grows(s, u)
  BY ONLY <1>1, <1>6, <1>9, <1>10 DEF Grows
<1> QED
  BY <1>6, <1>11, <1>12 DEF u

LEMMA AdvanceAruDoes ==
  ASSUME NEW s, NEW P, Counters(s, P)
  PROVE  /\ Counters(AdvanceAru(s), P) /\ Grows(s, AdvanceAru(s))
         /\ AdvanceAru(s).seq = s.seq
<1> DEFINE S == {a \in s.myAru..Greater(s.myAru, s.seq) : \A i \in (s.myAru + 1)..a : Exist(s, i) # 0}
           m == Max(S)
           u == AdvanceAru(s)
<1>1. s.myAru \in Int /\ s.seq \in Int /\ Greater(s.myAru, s.seq) = s.seq /\ s.myAru <= s.seq
  BY DEF Counters, Greater
<1>2. m \in s.myAru..s.seq
  <2>1. S \in SUBSET (s.myAru..s.seq)
    BY <1>1
  <2>2. s.myAru \in S
    BY <1>1
  <2> HIDE DEF S
  <2> QED
    BY <1>1, <2>1, <2>2, MaxIsIn
<1>3. u = [s EXCEPT !.myAru = m]
  BY DEF AdvanceAru
<1> HIDE DEF m, u, S
<1>4. SlotsHold(u, P, s.disc + 1, s.seq)
  BY <1>3 DEF Counters, SlotsHold, Fields
<1>5. Counters(u, P)
  BY <1>1, <1>2, <1>3, <1>4 DEF Counters, Fields
<1>6. Grows(s, u) /\ u.seq = s.seq
  BY <1>1, <1>2, <1>3 DEF Counters, Fields, Grows
<1> QED
  BY <1>5, <1>6 DEF u

\* The lesser of the aru of two tokens: nothing beyond it was freed, and all up to it is here.
Between(s, new) ==
  /\ new.aru \in Nat /\ s.last.aru \in Nat
  /\ s.disc <= Lesser(new.aru, s.last.aru) /\ Lesser(new.aru, s.last.aru) <= s.myAru

LEMMA AfterTokenDoes ==
  ASSUME NEW s, NEW P, Counters(s, P), NEW new, NEW setAru \in Nat \cup {-1}, NEW counted \in Int,
         Between(s, new), NEW u, u = AfterToken(s, new, setAru, counted)
  PROVE  /\ Counters(u, P) /\ u.aru = Lesser(new.aru, s.last.aru) /\ u.last = new
         /\ u.setAru = setAru /\ u.nSent = s.nSent /\ u.seq = s.seq /\ u.myAru = s.myAru
<1> DEFINE aru == Lesser(new.aru, s.last.aru)
           s1 == [s EXCEPT !.aru = aru, !.last = new, !.setAru = setAru,
                           !.count = IF s.seq = aru THEN Lesser(@ + 1, 2) ELSE 0]
           s2 == DiscardPackets(s1)
           s3 == DeliverAgreed(s2)
           s4 == DeliverReliable(s3, s.seq - counted + 1, s.seq)
<1>1. aru \in Nat
  BY DEF Between, Lesser
<1>2. /\ DOMAIN s1 = Fields /\ s1.aru = aru /\ s1.last = new /\ s1.setAru = setAru /\ s1.seq = s.seq
      /\ s1.myAru = s.myAru /\ s1.disc = s.disc /\ s1.del = s.del /\ s1.nSent = s.nSent
      /\ s1.accepted = s.accepted /\ s1.down = s.down /\ s1.slot = s.slot
  BY DEF Counters, Fields
<1>3. s4 = AfterToken(s, new, setAru, counted)
  BY DEF AfterToken
<1>4. s.disc <= aru /\ aru <= s.myAru
  BY DEF Between
<1> HIDE DEF s1, aru
<1>5. SlotsHold(s1, P, s1.disc + 1, s1.seq)
  BY <1>2 DEF SlotsHold, Counters
<1>6. Counters(s1, P) /\ s1.aru <= s1.myAru
  BY <1>1, <1>2, <1>4, <1>5 DEF Counters
<1>7. Counters(s2, P) /\ KeepsRing(s1, s2)
  BY <1>6, DiscardPacketsKeeps
<1> HIDE DEF s2
<1>8. Counters(s3, P) /\ KeepsRing(s2, s3)
  BY <1>7, DeliverAgreedKeeps
<1> HIDE DEF s3
<1>9. Counters(s4, P) /\ KeepsRing(s3, s4)
  <2>1. s.seq - counted + 1 \in Int /\ s.seq \in Int
    BY DEF Counters
  <2> QED
    BY <1>8, <2>1, DeliverReliableKeeps
<1> HIDE DEF s4
<1> QED
  BY <1>2, <1>3, <1>7, <1>8, <1>9 DEF KeepsRing, aru
--------------------------------------------------------------------------------
(* The token's aru *)

N == Len(load)
Succ(a) == (a + 1) % ArqModulus
Token == [arq : 0..(ArqModulus - 1), retrans : 0..RetransMax, seq : Nat, aru : Nat, lastId : Daemons,
          fc : Int, rtr : SUBSET Nat, to : 0..N]
TokenOK(t) == t \in Token /\ t.aru <= t.seq /\ IsFiniteSet(t.rtr)

\* p is the last that handled the token: those after it in the order of the ring come
\* before it in the order of their last visits.
Rank(p, d) == IF d <= p THEN d + N ELSE d

\* What a daemon has set the aru to is below the token's seq; and the token's aru is that
\* of who set it last, and below what anybody else has set it to in the last round.
Owned(p, S) == \A d \in Daemons : S[d].setAru # -1 =>
  /\ S[d].setAru < S[p].last.seq
  /\ IF S[p].last.lastId = d THEN S[p].last.aru = S[d].setAru ELSE S[p].last.aru < S[d].setAru
\* Since it was set last nobody has changed it.
Untouched(p, S) ==
  /\ S[S[p].last.lastId].last.aru = S[p].last.aru
  /\ \A d \in Daemons : Rank(p, S[p].last.lastId) < Rank(p, d) =>
       S[d].setAru = -1 /\ S[d].last.aru = S[p].last.aru
\* What a daemon has passed on and what the token has now: whoever was visited in
\* between has the packets up to the lesser of the two.
HeldBetween(p, S) == \A d, e \in Daemons : Rank(p, d) < Rank(p, e) =>
  Lesser(S[d].last.aru, S[p].last.aru) <= S[e].myAru
\* The token's seq only grows, and Aru is below the token's aru.
SeqGrows(p, S) == \A d \in Daemons : S[d].last.seq <= S[p].last.seq
AruLow(p, S) == \A d \in Daemons : S[d].aru <= S[p].last.aru /\ S[d].aru <= S[d].last.aru
HeldByAll(S) == \A d, e \in Daemons : S[d].aru <= S[e].myAru

Arus(p, S) ==
  Owned(p, S) /\ Untouched(p, S) /\ HeldBetween(p, S) /\ SeqGrows(p, S) /\ AruLow(p, S) /\ HeldByAll(S)

\* The fields these are about, and their types.
AruTypes(S) == \A d \in Daemons :
  /\ S[d].myAru \in Nat /\ S[d].aru \in Nat /\ S[d].setAru \in Nat \cup {-1}
  /\ S[d].last.seq \in Nat /\ S[d].last.aru \in Nat /\ S[d].last.lastId \in Daemons
  /\ S[d].last.aru <= S[d].last.seq

LEMMA LoadFacts == ASSUME load \in Loads PROVE N \in Nat \ {0} /\ Daemons = 1..N
BY RingAssumption DEF N, Daemons

LEMMA RankNext ==
  ASSUME N \in Nat \ {0}, Daemons = 1..N, NEW p \in Daemons
  PROVE  /\ After(p) \in Daemons
         /\ \A d \in Daemons : d # After(p) => /\ Rank(After(p), d) < Rank(After(p), After(p))
                                               /\ Rank(p, After(p)) < Rank(p, d)
         /\ \A d, e \in Daemons : d # After(p) /\ e # After(p) =>
              (Rank(After(p), d) < Rank(After(p), e) <=> Rank(p, d) < Rank(p, e))
         /\ \A r, d \in Daemons : ~(Rank(r, d) < Rank(r, d))
BY DEF After, Rank, N

\* A visit: the daemon after p sets the aru as in TokenAru, and takes the lesser of the
\* last two for its own Aru.
Visit(p, S, R, s, t) == LET q == After(p) IN
  /\ \A d \in Daemons : d # q => R[d] = S[d]
  /\ t.seq = S[p].last.seq /\ t.aru = S[p].last.aru /\ t.lastId = S[p].last.lastId
  /\ s.setAru = S[q].setAru /\ s.myAru \in Nat /\ s.seq \in Nat /\ s.seq >= t.seq
  /\ s.myAru >= S[q].myAru /\ s.myAru <= s.seq /\ R[q].myAru = s.myAru
  /\ R[q].last.aru = TokenAru(s, t, q).aru /\ R[q].last.lastId = TokenAru(s, t, q).lastId
  /\ R[q].setAru = TokenAru(s, t, q).setAru /\ R[q].last.seq = s.seq
  /\ R[q].aru = Lesser(R[q].last.aru, S[q].last.aru)

\* Who raises the aru owns it: nobody else has set it since, or could have.
LEMMA RaiserOwns ==
  ASSUME N \in Nat \ {0}, Daemons = 1..N, NEW p \in Daemons, NEW S, AruTypes(S), Arus(p, S),
         NEW q, q = After(p),
         \/ S[p].last.aru \in {S[q].setAru, S[p].last.seq} \/ S[p].last.lastId = q
  PROVE  /\ \A d \in Daemons : d # q => S[d].setAru = -1
         /\ \/ S[p].last.aru = S[p].last.seq
            \/ \A d \in Daemons : S[d].last.aru = S[p].last.aru
<1>1. q \in Daemons /\ \A d \in Daemons : d # q => Rank(p, q) < Rank(p, d)
  BY RankNext
<1>2. CASE S[p].last.lastId = q
  BY <1>1, <1>2 DEF Arus, Untouched
<1>3. CASE S[p].last.aru = S[p].last.seq
  <2>1. ASSUME NEW d \in Daemons, S[d].setAru # -1 PROVE FALSE
    <3>1. /\ S[d].setAru < S[p].last.seq
          /\ S[p].last.aru = S[d].setAru \/ S[p].last.aru < S[d].setAru
      BY <2>1 DEF Arus, Owned
    <3>2. S[d].setAru \in Int /\ S[p].last.seq \in Int
      BY DEF AruTypes
    <3> QED
      BY <1>3, <3>1, <3>2
  <2> QED
    BY <1>3, <2>1
<1>4. CASE S[p].last.aru = S[q].setAru
  <2>1. S[q].setAru # -1 /\ S[p].last.aru \in Int
    BY <1>4 DEF AruTypes
  <2>2. S[p].last.lastId = q
    BY <1>1, <1>4, <2>1 DEF Arus, Owned
  <2> QED
    BY <1>2, <2>2
<1> QED
  BY <1>2, <1>3, <1>4
\* What a visit makes of the aru: it is not above the daemon's own, and where it goes up
\* the daemon owns it.
LEMMA TokenAruDoes ==
  ASSUME NEW s, NEW t, NEW d, s.myAru \in Nat, s.seq \in Nat, s.myAru <= s.seq, t.aru \in Nat,
         s.setAru \in Nat \cup {-1}, t.seq \in Nat, t.aru <= t.seq, t.seq <= s.seq
  PROVE  LET a == TokenAru(s, t, d)
         IN  /\ a.aru \in Nat /\ a.aru <= s.myAru /\ a.setAru \in Nat \cup {-1}
             /\ a.setAru # -1 => a.setAru = a.aru /\ a.setAru < s.seq /\ a.lastId = d
             /\ \/ /\ a.aru = t.aru /\ a.lastId = t.lastId /\ a.setAru = -1 /\ t.lastId # d
                   /\ t.aru \notin {s.setAru, t.seq}
                \/ a.aru = s.myAru /\ a.aru < t.aru /\ a.lastId = d
                \/ /\ a.aru = s.myAru /\ a.lastId = d
                   /\ t.aru \in {s.setAru, t.seq} \/ t.lastId = d
BY DEF TokenAru

\* The lesser of the token's aru of two rounds is held by all (Prot_handle_token).
LEMMA LesserIsHeld ==
  ASSUME N \in Nat \ {0}, Daemons = 1..N, NEW p \in Daemons, NEW S, AruTypes(S), Arus(p, S),
         NEW R, NEW s, NEW t, Visit(p, S, R, s, t), NEW q, q = After(p)
  PROVE  /\ \A d, e \in Daemons : d # q /\ e # q /\ Rank(p, d) < Rank(p, e) =>
              Lesser(S[d].last.aru, R[q].last.aru) <= S[e].myAru
         /\ \A e \in Daemons : e # q => Lesser(R[q].last.aru, S[q].last.aru) <= S[e].myAru
         /\ Lesser(R[q].last.aru, S[q].last.aru) <= s.myAru
         /\ \A d \in Daemons : S[d].aru <= R[q].last.aru
<1> DEFINE T == S[p].last
           a == R[q].last.aru
<1>1. /\ q \in Daemons /\ \A d \in Daemons : d # q => Rank(p, q) < Rank(p, d)
      /\ T.seq \in Nat /\ T.aru \in Nat /\ T.lastId \in Daemons /\ T.aru <= T.seq
  BY RankNext DEF AruTypes
<1>2. /\ a \in Nat /\ a <= s.myAru /\ s.myAru \in Nat
      /\ \/ a = T.aru
         \/ a = s.myAru /\ a < T.aru
         \/ a = s.myAru /\ (T.aru \in {S[q].setAru, T.seq} \/ T.lastId = q)
  <2>1. /\ s.myAru \in Nat /\ s.seq \in Nat /\ s.myAru <= s.seq /\ t.aru = T.aru /\ t.aru \in Nat
        /\ s.setAru \in Nat \cup {-1} /\ t.seq = T.seq /\ t.seq \in Nat /\ t.aru <= t.seq
        /\ t.seq <= s.seq /\ s.setAru = S[q].setAru /\ t.lastId = T.lastId
    <3>1. s.myAru \in Nat /\ s.seq \in Nat /\ s.seq >= t.seq /\ s.myAru <= s.seq
      BY DEF Visit
    <3> QED
      BY <1>1, <3>1 DEF Visit, AruTypes, T
  <2>2. a = TokenAru(s, t, q).aru
    BY DEF Visit
  <2> QED
    BY <2>1, <2>2, TokenAruDoes
<1> HIDE DEF T, a
<1>3. \A d \in Daemons : S[d].last.aru \in Nat /\ S[d].myAru \in Nat /\ S[d].last.seq \in Nat
                         /\ S[d].last.aru <= S[d].last.seq /\ S[d].last.seq <= T.seq /\ S[d].aru \in Nat
  BY DEF AruTypes, Arus, SeqGrows, T
\* Whoever it was raised by, what is between the old and the new is held.
<1>4. ASSUME NEW d \in Daemons, NEW e \in Daemons, e # q, Rank(p, d) < Rank(p, e)
      PROVE  Lesser(S[d].last.aru, a) <= S[e].myAru
  <2>1. Lesser(S[d].last.aru, T.aru) <= S[e].myAru
    BY <1>4 DEF Arus, HeldBetween, T
  <2>2. CASE a <= T.aru
    BY SMTT(30), <1>1, <1>2, <1>3, <2>1, <2>2 DEF Lesser
  <2>3. CASE ~(a <= T.aru)
    <3>1. T.aru \in {S[q].setAru, T.seq} \/ T.lastId = q
      BY <1>1, <1>2, <2>3
    <3>2. \/ T.aru = T.seq
          \/ \A c \in Daemons : S[c].last.aru = T.aru
      BY <3>1, RaiserOwns DEF T
    <3>3. /\ S[d].last.aru \in Nat /\ S[d].last.seq \in Nat /\ S[d].last.aru <= S[d].last.seq
          /\ S[d].last.seq <= T.seq /\ S[e].myAru \in Nat
      BY <1>3
    <3>4. CASE T.aru = T.seq
      <4>1. Lesser(S[d].last.aru, T.aru) = S[d].last.aru
        BY ONLY <1>1, <3>3, <3>4 DEF Lesser
      <4>2. Lesser(S[d].last.aru, a) <= S[d].last.aru /\ Lesser(S[d].last.aru, a) \in Nat
        BY ONLY <1>2, <3>3 DEF Lesser
      <4> QED
        BY ONLY <2>1, <3>3, <4>1, <4>2
    <3>5. CASE S[d].last.aru = T.aru
      BY <1>1, <1>2, <2>1, <2>3, <3>3, <3>5 DEF Lesser
    <3> QED
      BY <3>2, <3>4, <3>5
  <2> QED
    BY <2>2, <2>3
<1>5. ASSUME NEW e \in Daemons, e # q PROVE Lesser(a, S[q].last.aru) <= S[e].myAru
  <2>1. Lesser(S[q].last.aru, a) <= S[e].myAru
    BY <1>1, <1>4, <1>5
  <2> QED
    BY <1>1, <1>2, <1>3, <2>1 DEF Lesser
<1>6. Lesser(a, S[q].last.aru) <= s.myAru
  BY <1>1, <1>2, <1>3 DEF Lesser
<1>7. ASSUME NEW d \in Daemons PROVE S[d].aru <= a
  <2>1. S[d].aru <= T.aru /\ S[d].aru <= S[q].myAru
    BY <1>1 DEF Arus, AruLow, HeldByAll, T
  <2>2. S[q].myAru <= s.myAru
    BY <1>1, <1>3 DEF Visit
  <2> QED
    BY <1>1, <1>2, <1>3, <2>1, <2>2
<1> QED
  BY <1>4, <1>5, <1>6, <1>7 DEF a

LEMMA VisitKeepsArus ==
  ASSUME N \in Nat \ {0}, Daemons = 1..N, NEW p \in Daemons, NEW S, AruTypes(S), Arus(p, S),
         NEW R, NEW s, NEW t, Visit(p, S, R, s, t)
  PROVE  Arus(After(p), R) /\ AruTypes(R)
<1> DEFINE q == After(p)
           T == S[p].last
           U == R[q].last
<1>1. /\ q \in Daemons
      /\ \A d \in Daemons : d # q => Rank(q, d) < Rank(q, q) /\ Rank(p, q) < Rank(p, d)
      /\ \A d, e \in Daemons : d # q /\ e # q => (Rank(q, d) < Rank(q, e) <=> Rank(p, d) < Rank(p, e))
      /\ \A d, e \in Daemons : Rank(q, d) < Rank(q, e) => d # q
      /\ T.seq \in Nat /\ T.aru \in Nat /\ T.lastId \in Daemons /\ T.aru <= T.seq
  <2>1. ASSUME NEW e \in Daemons PROVE ~(Rank(q, q) < Rank(q, e))
    <3>1. q \in Daemons /\ (e # q => Rank(q, e) < Rank(q, q)) /\ ~(Rank(q, e) < Rank(q, e))
      BY RankNext
    <3>2. Rank(q, e) \in Int /\ Rank(q, q) \in Int
      BY <3>1 DEF Rank
    <3> QED
      BY <3>1, <3>2
  <2> QED
    BY <2>1, RankNext DEF AruTypes
<1>2. /\ \A d \in Daemons : d # q => R[d] = S[d]
      /\ s.seq \in Nat /\ s.seq >= T.seq /\ s.myAru \in Nat /\ s.myAru <= s.seq /\ s.myAru >= S[q].myAru
      /\ R[q].myAru = s.myAru /\ U.seq = s.seq /\ R[q].aru = Lesser(U.aru, S[q].last.aru)
      /\ s.setAru = S[q].setAru
  BY DEF Visit
<1>3. /\ U.aru \in Nat /\ U.aru <= s.myAru /\ R[q].setAru \in Nat \cup {-1}
      /\ R[q].setAru # -1 => R[q].setAru = U.aru /\ R[q].setAru < s.seq /\ U.lastId = q
      /\ \/ /\ U.aru = T.aru /\ U.lastId = T.lastId /\ R[q].setAru = -1 /\ T.lastId # q
         \/ U.aru < T.aru /\ U.lastId = q
         \/ U.lastId = q /\ (T.aru \in {S[q].setAru, T.seq} \/ T.lastId = q)
  <2>1. /\ s.myAru \in Nat /\ s.seq \in Nat /\ s.myAru <= s.seq /\ t.aru = T.aru /\ t.aru \in Nat
        /\ s.setAru \in Nat \cup {-1} /\ t.seq = T.seq /\ t.seq \in Nat /\ t.aru <= t.seq
        /\ t.seq <= s.seq /\ s.setAru = S[q].setAru /\ t.lastId = T.lastId
    BY <1>1, <1>2 DEF Visit, AruTypes
  <2>2. /\ U.aru = TokenAru(s, t, q).aru /\ U.lastId = TokenAru(s, t, q).lastId
        /\ R[q].setAru = TokenAru(s, t, q).setAru
    BY DEF Visit
  <2> HIDE DEF T, U, q
  <2> QED
    BY <2>1, <2>2, TokenAruDoes
<1>4. /\ \A d, e \in Daemons : d # q /\ e # q /\ Rank(p, d) < Rank(p, e) =>
            Lesser(S[d].last.aru, U.aru) <= S[e].myAru
      /\ \A e \in Daemons : e # q => Lesser(U.aru, S[q].last.aru) <= S[e].myAru
      /\ Lesser(U.aru, S[q].last.aru) <= s.myAru
      /\ \A d \in Daemons : S[d].aru <= U.aru
  BY LesserIsHeld
<1>5. T.aru \in {S[q].setAru, T.seq} \/ T.lastId = q => \A d \in Daemons : d # q => S[d].setAru = -1
  BY RaiserOwns
<1>6. /\ \A d \in Daemons : S[d].setAru # -1 => S[d].setAru < T.seq /\ S[d].setAru \in Nat
                            /\ IF T.lastId = d THEN T.aru = S[d].setAru ELSE T.aru < S[d].setAru
      /\ \A d \in Daemons : Rank(p, T.lastId) < Rank(p, d) => S[d].setAru = -1 /\ S[d].last.aru = T.aru
      /\ S[T.lastId].last.aru = T.aru
      /\ \A d \in Daemons : S[d].last.seq <= T.seq /\ S[d].aru <= S[d].last.aru
      /\ \A d, e \in Daemons : S[d].aru <= S[e].myAru
  BY DEF Arus, Owned, Untouched, SeqGrows, AruLow, HeldByAll, AruTypes
<1>7. \A d \in Daemons :
        /\ S[d].myAru \in Nat /\ S[d].aru \in Nat /\ S[d].setAru \in Nat \cup {-1}
        /\ S[d].last.seq \in Nat /\ S[d].last.aru \in Nat /\ S[d].last.lastId \in Daemons
        /\ S[d].last.aru <= S[d].last.seq
  BY DEF AruTypes
<1> HIDE DEF q, T, U
<1>8. AruTypes(R)
  <2> SUFFICES ASSUME NEW d \in Daemons
               PROVE  /\ R[d].myAru \in Nat /\ R[d].aru \in Nat /\ R[d].setAru \in Nat \cup {-1}
                      /\ R[d].last.seq \in Nat /\ R[d].last.aru \in Nat /\ R[d].last.lastId \in Daemons
                      /\ R[d].last.aru <= R[d].last.seq
    BY DEF AruTypes
  <2>1. CASE d # q
    BY <1>2, <1>7, <2>1
  <2>2. CASE d = q
    <3>1. S[q].last.aru \in Nat /\ R[d].last = U
      BY <1>1, <1>7, <2>2 DEF U
    <3>2. U.aru <= U.seq /\ U.seq \in Nat /\ U.lastId \in Daemons
      BY <1>1, <1>2, <1>3
    <3>3. R[q].aru \in Nat
      BY <1>2, <1>3, <3>1 DEF Lesser
    <3> QED
      BY <1>2, <1>3, <2>2, <3>1, <3>2, <3>3
  <2> QED
    BY <2>1, <2>2
<1>9. Owned(q, R)
  <2> SUFFICES ASSUME NEW d \in Daemons, R[d].setAru # -1
               PROVE  R[d].setAru < U.seq /\ IF U.lastId = d THEN U.aru = R[d].setAru ELSE U.aru < R[d].setAru
    BY DEF Owned, U
  <2>1. CASE d = q
    BY <1>2, <1>3, <2>1
  <2>2. CASE d # q
    <3>1. R[d] = S[d] /\ S[d].setAru # -1
      BY <1>2, <2>2
    <3>2. S[d].setAru < T.seq /\ S[d].setAru \in Nat /\ T.aru <= S[d].setAru
          /\ (T.lastId # d => T.aru < S[d].setAru) /\ (T.lastId = d => T.aru = S[d].setAru)
      BY <1>1, <1>6, <3>1
    <3>3. ~(T.aru \in {S[q].setAru, T.seq} \/ T.lastId = q)
      BY <1>5, <2>2, <3>1
    <3> QED
      BY SMTT(30), <1>1, <1>2, <1>3, <2>2, <3>1, <3>2, <3>3
  <2> QED
    BY <2>1, <2>2
<1>10. Untouched(q, R)
  <2>1. CASE U.lastId = q
    BY <1>1, <2>1 DEF Untouched, U
  <2>2. CASE U.lastId # q
    <3>1. U.aru = T.aru /\ U.lastId = T.lastId /\ R[q].setAru = -1 /\ T.lastId # q
      BY <1>3, <2>2
    <3>2. R[U.lastId].last.aru = U.aru
      BY <1>1, <1>2, <1>6, <3>1
    <3>3. ASSUME NEW d \in Daemons, Rank(q, U.lastId) < Rank(q, d)
          PROVE  R[d].setAru = -1 /\ R[d].last.aru = U.aru
      <4>1. CASE d = q
        BY <3>1, <4>1 DEF U
      <4>2. CASE d # q
        BY <1>1, <1>2, <1>6, <3>1, <3>3, <4>2
      <4> QED
        BY <4>1, <4>2
    <3> QED
      BY <3>2, <3>3 DEF Untouched, U
  <2> QED
    BY <2>1, <2>2
<1>11. HeldBetween(q, R)
  <2> SUFFICES ASSUME NEW d \in Daemons, NEW e \in Daemons, Rank(q, d) < Rank(q, e)
               PROVE  Lesser(R[d].last.aru, U.aru) <= R[e].myAru
    BY DEF HeldBetween, U
  <2>1. d # q /\ R[d] = S[d]
    BY <1>1, <1>2
  <2>2. CASE e = q
    <3>1. S[d].last.aru \in Nat
      BY <1>7
    <3> QED
      BY <1>2, <1>3, <2>1, <2>2, <3>1 DEF Lesser
  <2>3. CASE e # q
    BY <1>1, <1>2, <1>4, <2>1, <2>3
  <2> QED
    BY <2>2, <2>3
<1>12. SeqGrows(q, R)
  <2> SUFFICES ASSUME NEW d \in Daemons PROVE R[d].last.seq <= U.seq
    BY DEF SeqGrows, U
  <2>1. CASE d = q
    BY <1>2, <2>1 DEF U
  <2>2. CASE d # q
    <3>1. R[d] = S[d] /\ S[d].last.seq <= T.seq /\ S[d].last.seq \in Nat
      BY <1>2, <1>6, <1>7, <2>2
    <3> QED
      BY <1>1, <1>2, <3>1
  <2> QED
    BY <2>1, <2>2
<1>13. AruLow(q, R)
  <2> SUFFICES ASSUME NEW d \in Daemons PROVE R[d].aru <= U.aru /\ R[d].aru <= R[d].last.aru
    BY DEF AruLow, U
  <2>1. CASE d = q
    <3>1. S[q].last.aru \in Nat /\ R[d].last = U
      BY <1>1, <1>7, <2>1 DEF U
    <3> QED
      BY <1>2, <1>3, <2>1, <3>1 DEF Lesser
  <2>2. CASE d # q
    BY <1>2, <1>4, <1>6, <2>2
  <2> QED
    BY <2>1, <2>2
<1>14. HeldByAll(R)
  <2> SUFFICES ASSUME NEW d \in Daemons, NEW e \in Daemons PROVE R[d].aru <= R[e].myAru
    BY DEF HeldByAll
  <2>1. CASE d = q
    BY <1>2, <1>4, <2>1
  <2>2. CASE d # q /\ e # q
    BY <1>2, <1>6, <2>2
  <2>3. CASE d # q /\ e = q
    <3>1. R[d] = S[d] /\ S[d].aru <= S[q].myAru /\ S[d].aru \in Nat /\ S[q].myAru \in Nat
      BY <1>1, <1>2, <1>6, <1>7, <2>3
    <3> QED
      BY <1>2, <2>3, <3>1
  <2> QED
    BY <2>1, <2>2, <2>3
<1> QED
  BY <1>8, <1>9, <1>10, <1>11, <1>12, <1>13, <1>14 DEF Arus, q
\* Nothing but a visit changes what these are about; packets that come only add.
LEMMA ArusKept ==
  ASSUME NEW p \in Daemons, NEW S, AruTypes(S), Arus(p, S), NEW R,
         \A d \in Daemons : /\ R[d].setAru = S[d].setAru /\ R[d].aru = S[d].aru
                            /\ R[d].last.seq = S[d].last.seq /\ R[d].last.aru = S[d].last.aru
                            /\ R[d].last.lastId = S[d].last.lastId
                            /\ R[d].myAru \in Nat /\ R[d].myAru >= S[d].myAru
  PROVE  Arus(p, R) /\ AruTypes(R)
<1>1. AruTypes(R)
  BY DEF AruTypes
<1>2. S[p].last.lastId \in Daemons
  BY DEF AruTypes
<1>3. Owned(p, R)
  BY DEF Arus, Owned
<1>4. Untouched(p, R)
  BY <1>2 DEF Arus, Untouched
<1>5. HeldBetween(p, R)
  <2> SUFFICES ASSUME NEW d \in Daemons, NEW e \in Daemons, Rank(p, d) < Rank(p, e)
               PROVE  Lesser(R[d].last.aru, R[p].last.aru) <= R[e].myAru
    BY DEF HeldBetween
  <2>1. Lesser(S[d].last.aru, S[p].last.aru) <= S[e].myAru
    BY DEF Arus, HeldBetween
  <2>2. S[d].last.aru \in Nat /\ S[p].last.aru \in Nat /\ S[e].myAru \in Nat
    BY DEF AruTypes
  <2> QED
    BY <2>1, <2>2 DEF Lesser
<1>6. SeqGrows(p, R)
  BY DEF Arus, SeqGrows
<1>7. AruLow(p, R)
  BY DEF Arus, AruLow
<1>8. HeldByAll(R)
  BY DEF Arus, HeldByAll, AruTypes
<1> QED
  BY <1>1, <1>3, <1>4, <1>5, <1>6, <1>7, <1>8 DEF Arus

--------------------------------------------------------------------------------
(* How far the daemons' Aru lie apart *)

\* Whoever was visited since passed on an aru no lower than the lesser of what a daemon
\* passed on and what the token has now; Aru is below every aru passed on last, and grows
\* from each daemon to the one visited after it.
Gaps(p, S) ==
  /\ \A d, e \in Daemons : Rank(p, d) < Rank(p, e) => Lesser(S[d].last.aru, S[p].last.aru) <= S[e].last.aru
  /\ \A d, e \in Daemons : S[d].aru <= S[e].last.aru
  /\ \A d, e \in Daemons : Rank(p, d) < Rank(p, e) => S[d].aru <= S[e].aru

LEMMA VisitKeepsGaps ==
  ASSUME N \in Nat \ {0}, Daemons = 1..N, NEW p \in Daemons, NEW S, AruTypes(S), Arus(p, S), Gaps(p, S),
         NEW R, NEW s, NEW t, Visit(p, S, R, s, t)
  PROVE  Gaps(After(p), R)
<1> DEFINE q == After(p)
           T == S[p].last
           a == R[q].last.aru
<1>1. /\ q \in Daemons
      /\ \A d \in Daemons : d # q => Rank(q, d) < Rank(q, q) /\ Rank(p, q) < Rank(p, d)
      /\ \A d, e \in Daemons : d # q /\ e # q => (Rank(q, d) < Rank(q, e) <=> Rank(p, d) < Rank(p, e))
      /\ \A d, e \in Daemons : Rank(q, d) < Rank(q, e) => d # q
      /\ T.seq \in Nat /\ T.aru \in Nat /\ T.lastId \in Daemons /\ T.aru <= T.seq
  <2>1. ASSUME NEW e \in Daemons PROVE ~(Rank(q, q) < Rank(q, e))
    <3>1. q \in Daemons /\ (e # q => Rank(q, e) < Rank(q, q)) /\ ~(Rank(q, e) < Rank(q, e))
      BY RankNext
    <3>2. Rank(q, e) \in Int /\ Rank(q, q) \in Int
      BY <3>1 DEF Rank
    <3> QED
      BY <3>1, <3>2
  <2> QED
    BY <2>1, RankNext DEF AruTypes
<1>2. /\ \A d \in Daemons : d # q => R[d] = S[d]
      /\ R[q].aru = Lesser(a, S[q].last.aru)
  BY DEF Visit
<1>3. /\ a \in Nat
      /\ \/ a <= T.aru
         \/ T.aru \in {S[q].setAru, T.seq} \/ T.lastId = q
  <2>1. /\ s.myAru \in Nat /\ s.seq \in Nat /\ s.myAru <= s.seq /\ t.aru = T.aru /\ t.aru \in Nat
        /\ s.setAru \in Nat \cup {-1} /\ t.seq = T.seq /\ t.seq \in Nat /\ t.aru <= t.seq
        /\ t.seq <= s.seq /\ s.setAru = S[q].setAru /\ t.lastId = T.lastId
    <3>1. s.myAru \in Nat /\ s.seq \in Nat /\ s.seq >= t.seq /\ s.myAru <= s.seq
      BY DEF Visit
    <3> QED
      BY <1>1, <3>1 DEF Visit, AruTypes, T
  <2>2. a = TokenAru(s, t, q).aru
    BY DEF Visit
  <2> HIDE DEF T, a, q
  <2> QED
    BY <1>1, <2>1, <2>2, TokenAruDoes
<1>4. \A d \in Daemons : /\ S[d].last.aru \in Nat /\ S[d].last.seq \in Nat /\ S[d].aru \in Nat
                         /\ S[d].last.aru <= S[d].last.seq /\ S[d].last.seq <= T.seq
  BY DEF AruTypes, Arus, SeqGrows
<1>5. \A d \in Daemons : S[d].aru <= a
  BY LesserIsHeld
<1>6. /\ \A d, e \in Daemons : Rank(p, d) < Rank(p, e) => Lesser(S[d].last.aru, T.aru) <= S[e].last.aru
      /\ \A d, e \in Daemons : S[d].aru <= S[e].last.aru
      /\ \A d, e \in Daemons : Rank(p, d) < Rank(p, e) => S[d].aru <= S[e].aru
  BY DEF Gaps
<1>7. T.aru \in {S[q].setAru, T.seq} \/ T.lastId = q =>
        T.aru = T.seq \/ \A c \in Daemons : S[c].last.aru = T.aru
  BY RaiserOwns
<1> HIDE DEF T, a, q
\* Raised or not, the first of the three holds of the old records and the new aru.
<1>8. ASSUME NEW d \in Daemons, NEW e \in Daemons, Rank(p, d) < Rank(p, e)
      PROVE  Lesser(S[d].last.aru, a) <= S[e].last.aru
  <2>1. Lesser(S[d].last.aru, T.aru) <= S[e].last.aru
    BY <1>6, <1>8
  <2>2. /\ S[d].last.aru \in Nat /\ S[d].last.seq \in Nat /\ S[d].last.aru <= S[d].last.seq
        /\ S[d].last.seq <= T.seq /\ S[e].last.aru \in Nat
    BY <1>4
  <2>3. CASE a <= T.aru
    BY SMTT(30), <1>1, <1>3, <2>1, <2>2, <2>3 DEF Lesser
  <2>4. CASE ~(a <= T.aru)
    <3>1. T.aru = T.seq \/ S[d].last.aru = T.aru
      BY <1>3, <1>7, <2>4
    <3>2. Lesser(S[d].last.aru, T.aru) = S[d].last.aru
      BY <1>1, <2>2, <3>1 DEF Lesser
    <3>3. Lesser(S[d].last.aru, a) <= S[d].last.aru
      BY <1>3, <2>2 DEF Lesser
    <3>4. Lesser(S[d].last.aru, a) \in Nat
      BY <1>3, <2>2 DEF Lesser
    <3> QED
      BY <2>1, <2>2, <3>2, <3>3, <3>4
  <2> QED
    BY <2>3, <2>4
<1>9. ASSUME NEW d \in Daemons, NEW e \in Daemons, Rank(q, d) < Rank(q, e)
      PROVE  Lesser(R[d].last.aru, R[q].last.aru) <= R[e].last.aru
  <2>1. d # q /\ R[d] = S[d] /\ R[q].last.aru = a
    BY <1>1, <1>2, <1>9 DEF a
  <2>2. CASE e = q
    BY <1>3, <1>4, <2>1, <2>2 DEF Lesser
  <2>3. CASE e # q
    BY <1>1, <1>2, <1>8, <1>9, <2>1, <2>3
  <2> QED
    BY <2>2, <2>3
<1>10. \A d \in Daemons : R[d].last.aru = IF d = q THEN a ELSE S[d].last.aru
  BY <1>2 DEF a
<1>11. ASSUME NEW d \in Daemons, NEW e \in Daemons PROVE R[d].aru <= R[e].last.aru
  <2>1. S[q].last.aru \in Nat /\ S[e].last.aru \in Nat
    BY <1>1, <1>4
  <2>2. CASE d # q
    BY <1>2, <1>5, <1>6, <1>10, <2>2
  <2>3. CASE d = q /\ e = q
    BY <1>2, <1>3, <1>10, <2>1, <2>3 DEF Lesser
  <2>4. CASE d = q /\ e # q
    <3>1. Lesser(S[q].last.aru, a) <= S[e].last.aru
      BY <1>1, <1>8, <2>4
    <3>2. Lesser(S[q].last.aru, a) = Lesser(a, S[q].last.aru)
      BY <1>3, <2>1 DEF Lesser
    <3> QED
      BY <1>2, <1>10, <2>4, <3>1, <3>2
  <2> QED
    BY <2>2, <2>3, <2>4
<1>12. ASSUME NEW d \in Daemons, NEW e \in Daemons, Rank(q, d) < Rank(q, e) PROVE R[d].aru <= R[e].aru
  <2>1. d # q /\ R[d] = S[d]
    BY <1>1, <1>2, <1>12
  <2>2. CASE e # q
    BY <1>1, <1>2, <1>6, <1>12, <2>1, <2>2
  <2>3. CASE e = q
    <3>1. S[d].aru <= a /\ S[d].aru <= S[q].last.aru
      BY <1>1, <1>5, <1>6
    <3> QED
      BY <1>2, <2>1, <2>3, <3>1 DEF Lesser
  <2> QED
    BY <2>2, <2>3
<1>13. Gaps(q, R)
  BY <1>9, <1>11, <1>12 DEF Gaps
<1> QED
  BY <1>13 DEF q

--------------------------------------------------------------------------------
(* Whose turn it is *)

LEMMA SuccFacts ==
  /\ \A a \in 0..(ArqModulus - 1) : Succ(a) \in 0..(ArqModulus - 1) /\ Succ(a) # a
  /\ \A a, b \in 0..(ArqModulus - 1) : Succ(a) = Succ(b) => a = b
<1>1. ArqModulus \in Nat /\ ArqModulus > 1
  BY RingAssumption
<1>2. \A a \in 0..(ArqModulus - 1) : a # ArqModulus - 1 => Succ(a) = a + 1
  BY <1>1 DEF Succ
<1>3. Succ(ArqModulus - 1) = 0
  BY <1>1 DEF Succ
<1> QED
  BY <1>1, <1>2, <1>3

\* The daemons up to p have handled the token of this round.
Turns(p) == \A d \in Daemons :
  IF d <= p THEN st[d].last.arq = st[Leader].last.arq ELSE Succ(st[d].last.arq) = st[Leader].last.arq

\* The tokens on the way from a daemon are copies of its last, unless it is the leader
\* and holds the token: then they are copies of the one before.
Same(t, l) ==
  t.arq = l.arq /\ t.seq = l.seq /\ t.aru = l.aru /\ t.lastId = l.lastId /\ t.fc = l.fc
OnTheWay(p) == \A d \in Daemons :
  \/ \A t \in tokens[After(d)] : Same(t, st[d].last)
  \/ d = Leader /\ p = Leader /\ \A t \in tokens[After(d)] : Succ(t.arq) = st[d].last.arq

\* Whatever copies there are, a daemon accepts the token from the last that had it.
LEMMA FreshIsNext ==
  ASSUME N \in Nat \ {0}, Daemons = 1..N, NEW p \in Daemons, Turns(p), OnTheWay(p),
         \A d \in Daemons : st[d].last.arq \in 0..(ArqModulus - 1),
         NEW d \in Daemons, NEW t \in tokens[d], t.arq \in 0..(ArqModulus - 1), Fresh(d, t)
  PROVE  d = After(p) /\ Same(t, st[p].last)
<1> DEFINE c == IF d = 1 THEN N ELSE d - 1
           A == st[Leader].last.arq
<1>1. c \in Daemons /\ After(c) = d /\ Leader \in Daemons /\ Leader = 1 /\ p \in 1..N
  BY DEF After, Leader, N
<1>2. \A e \in Daemons : st[e].last.arq \in 0..(ArqModulus - 1) /\
         IF e <= p THEN st[e].last.arq = A ELSE Succ(st[e].last.arq) = A
  BY DEF Turns
<1> HIDE DEF A
<1>3. CASE Same(t, st[c].last)
  <2>1. t.arq = st[c].last.arq
    BY <1>3 DEF Same
  <2>2. CASE d = Leader
    <3>1. t.arq = A
      BY <2>2 DEF Fresh, A
    <3>2. c <= p
      BY <1>1, <1>2, <2>1, <3>1, SuccFacts
    <3>3. p = c
      BY <1>1, <2>2, <3>2
    <3> QED
      BY <1>1, <1>3, <3>3
  <2>3. CASE d # Leader
    <3>1. t.arq = Succ(st[d].last.arq)
      BY <2>3 DEF Fresh, Succ
    <3>2. ~(d <= p)
      <4>1. c <= d /\ c \in 1..N /\ d \in 1..N
        BY <1>1, <2>3
      <4>2. d <= p => st[d].last.arq = A /\ st[c].last.arq = A
        BY <1>1, <1>2, <4>1
      <4> QED
        BY <1>1, <1>2, <2>1, <3>1, <4>2, SuccFacts
    <3>3. c <= p
      <4>1. ~(c <= p) => Succ(st[c].last.arq) = A /\ Succ(st[d].last.arq) = A
        BY <1>1, <1>2, <3>2
      <4> QED
        BY <1>1, <1>2, <2>1, <3>1, <4>1, SuccFacts
    <3>4. p = c
      BY <1>1, <2>3, <3>2, <3>3
    <3> QED
      BY <1>1, <1>3, <3>4
  <2> QED
    BY <2>2, <2>3
<1>4. CASE c = Leader /\ p = Leader /\ Succ(t.arq) = A
  <2>1. CASE d = Leader
    <3>1. t.arq = A
      BY <2>1 DEF Fresh, A
    <3> QED
      BY <1>4, <3>1, SuccFacts
  <2>2. CASE d # Leader
    <3>1. t.arq = Succ(st[d].last.arq) /\ ~(d <= p)
      BY <1>1, <1>4, <2>2 DEF Fresh, Succ
    <3>2. Succ(st[d].last.arq) = A
      BY <1>2, <3>1
    <3> QED
      BY <1>4, <3>1, <3>2, SuccFacts
  <2> QED
    BY <2>1, <2>2
<1>5. \/ \A u \in tokens[After(c)] : Same(u, st[c].last)
      \/ c = Leader /\ p = Leader /\ \A u \in tokens[After(c)] : Succ(u.arq) = A
  BY <1>1 DEF OnTheWay, A
<1> QED
  BY <1>1, <1>3, <1>4, <1>5
--------------------------------------------------------------------------------
(* What was sent in the last visits *)

LEMMA SumSteps ==
  ASSUME N \in Nat, NEW S
  PROVE  \E f : /\ f[0] = 0 /\ AllSent(S) = f[N] /\ \A e \in 1..N : f[e] = f[e - 1] + S[e].nSent
<1> DEFINE Runs(n, g) == g = [e \in 0..n |-> IF e = 0 THEN 0 ELSE g[e - 1] + S[e].nSent]
           Bad == {n \in Nat : ~\E g : Runs(n, g)}
<1>1. Bad = {}
  <2> SUFFICES ASSUME Bad # {} PROVE FALSE
    OBVIOUS
  <2>1. PICK n \in Bad : \A m \in Bad : n <= m
    BY LeastExists
  <2>2. n # 0
    <3>1. Runs(0, [e \in 0..0 |-> 0])
      OBVIOUS
    <3> QED
      BY <2>1, <3>1
  <2>3. n - 1 \in Nat /\ n - 1 \notin Bad
    <3>1. n \in Nat /\ n - 1 \in Nat /\ ~(n <= n - 1)
      BY <2>1, <2>2
    <3> HIDE DEF Bad
    <3> QED
      BY <2>1, <3>1
  <2>4. PICK g : Runs(n - 1, g)
    BY <2>3
  <2> DEFINE h == [e \in 0..n |-> IF e = 0 THEN 0 ELSE g[e - 1] + S[e].nSent]
  <2>5. \A e \in 0..n : e # 0 => h[e - 1] = g[e - 1]
    BY <2>3, <2>4
  <2>6. Runs(n, h)
    BY <2>5
  <2> QED
    BY <2>1, <2>6
<1>2. \E g : Runs(N, g)
  BY <1>1
<1> DEFINE f == CHOOSE g : g = [e \in 0..N |-> IF e = 0 THEN 0 ELSE g[e - 1] + S[e].nSent]
<1>3. f = [e \in 0..N |-> IF e = 0 THEN 0 ELSE f[e - 1] + S[e].nSent]
  BY <1>2
<1>4. AllSent(S) = f[N]
  BY DEF AllSent, N
<1> HIDE DEF f
<1>5. f[0] = 0
  BY <1>3
<1>6. ASSUME NEW e \in 1..N PROVE f[e] = f[e - 1] + S[e].nSent
  <2>1. e \in 0..N /\ e # 0
    OBVIOUS
  <2> QED
    BY <1>3, <2>1
<1> QED
  BY <1>4, <1>5, <1>6

\* When the visit of one daemon changes, the sum changes by as much.
LEMMA SumUpdate ==
  ASSUME N \in Nat, Daemons = 1..N, NEW S, NEW R, NEW q \in Daemons,
         \A e \in Daemons : S[e].nSent \in Int /\ R[e].nSent \in Int,
         \A e \in Daemons : e # q => R[e].nSent = S[e].nSent
  PROVE  AllSent(R) = AllSent(S) - S[q].nSent + R[q].nSent /\ AllSent(S) \in Int
<1>1. PICK f : /\ f[0] = 0 /\ AllSent(S) = f[N] /\ \A e \in 1..N : f[e] = f[e - 1] + S[e].nSent
  BY SumSteps
<1>2. PICK g : /\ g[0] = 0 /\ AllSent(R) = g[N] /\ \A e \in 1..N : g[e] = g[e - 1] + R[e].nSent
  BY SumSteps
<1> DEFINE Good(n) == /\ f[n] \in Int /\ g[n] = IF n < q THEN f[n] ELSE f[n] - S[q].nSent + R[q].nSent
           Bad == {n \in Nat : n <= N /\ ~Good(n)}
<1>3. Bad = {}
  <2> SUFFICES ASSUME Bad # {} PROVE FALSE
    OBVIOUS
  <2>1. PICK n \in Bad : \A m \in Bad : n <= m
    BY LeastExists
  <2>2. n # 0
    BY <1>1, <1>2, <2>1
  <2>3. n - 1 \in Nat /\ n \in 1..N /\ n - 1 \notin Bad /\ n - 1 <= N
    BY <2>1, <2>2
  <2>4. Good(n - 1)
    BY <2>3
  <2>5. f[n] = f[n - 1] + S[n].nSent /\ g[n] = g[n - 1] + R[n].nSent
    BY <1>1, <1>2, <2>3
  <2>6. S[n].nSent \in Int /\ R[n].nSent \in Int /\ S[q].nSent \in Int /\ R[q].nSent \in Int
        /\ (n # q => R[n].nSent = S[n].nSent) /\ q \in Int /\ n \in Int
    BY <2>3
  <2>7. Good(n)
    BY <2>4, <2>5, <2>6
  <2> QED
    BY <2>1, <2>7
<1>4. Good(N)
  BY <1>3
<1> QED
  BY <1>1, <1>2, <1>4

--------------------------------------------------------------------------------
(* Packets in their slots *)

\* In a window as long as there are slots, each number has a slot of its own.
LEMMA SlotsDiffer ==
  ASSUME NEW lo \in Int, NEW i \in (lo + 1)..(lo + Slots), NEW j \in (lo + 1)..(lo + Slots),
         i % Slots = j % Slots
  PROVE  i = j
<1>1. Slots \in Nat \ {0}
  BY RingAssumption
<1>2. /\ i = Slots * (i \div Slots) + (i % Slots) /\ j = Slots * (j \div Slots) + (j % Slots)
      /\ i \div Slots \in Int /\ j \div Slots \in Int /\ i \in Int /\ j \in Int
  BY <1>1
<1> DEFINE a == i \div Slots
           b == j \div Slots
<1>3. i - j = Slots * (a - b) /\ a \in Int /\ b \in Int
  BY <1>1, <1>2
<1> HIDE DEF a, b
<1>4. i - j < Slots /\ j - i < Slots
  BY <1>1
<1>5. a - b >= 1 => Slots * (a - b) >= Slots
  BY <1>1, <1>3
<1>6. b - a >= 1 => Slots * (b - a) >= Slots
  BY <1>1, <1>3
<1>7. j - i = Slots * (b - a)
  BY <1>1, <1>3
<1>8. a = b
  BY <1>1, <1>2, <1>3, <1>4, <1>5, <1>6, <1>7
<1> QED
  BY <1>1, <1>2, <1>3, <1>8

\* What a packet leaves of its sender's unfinished message, and what it needs of it.
Rest(p) == IF p.index < 0 THEN 0 ELSE p.index
Turn(p) == (IF p.index < 0 THEN -p.index ELSE p.index) - 1

\* k is what is unfinished of q after the first n packets of S.
PartIs(S, q, n, k) ==
  \/ (\A i \in 1..n : S[i].from # q) /\ k = 0
  \/ \E i \in 1..n : S[i].from = q /\ k = Rest(S[i]) /\ \A j \in (i + 1)..n : S[j].from # q

\* Packets are numbered in the order they are sent in, those of a message one after another.
SentInTurn(S) ==
  /\ S \in Seq(Packet)
  /\ \A i \in 1..Len(S) : /\ S[i].seq = i /\ S[i].from \in 1..N
                          /\ PartIs(S, S[i].from, i - 1, Turn(S[i]))

\* A daemon's record after S was sent, with lo freed, del delivered and hi the last it knows:
\* no alarm, packets in their slots without a gap, what is unfinished is what was delivered of it.
FitsAt(t, S, lo, del, hi) ==
  /\ DOMAIN t = Fields /\ SlotsHold(t, ToSet(S), lo + 1, hi)
  /\ t.dead = FALSE /\ DOMAIN t.part = 0..N /\ t.part[0] = 0
  /\ \A q \in 1..N : PartIs(S, q, del, t.part[q])
  /\ \A i \in (lo + 1)..t.myAru : Exist(t, i) # 0
  /\ \A i \in (lo + 1)..del : Exist(t, i) = 2
  /\ \A i \in (del + 1)..hi : Exist(t, i) = 2 => Single(S[i])

LEMMA PartUnique ==
  ASSUME NEW S, NEW q, NEW n \in Nat, NEW k, NEW l, PartIs(S, q, n, k), PartIs(S, q, n, l)
  PROVE  k = l
<1>1. CASE \A i \in 1..n : S[i].from # q
  BY <1>1 DEF PartIs
<1>2. ASSUME NEW i \in 1..n, S[i].from = q, k = Rest(S[i]), \A j \in (i + 1)..n : S[j].from # q
      PROVE  k = l
  <2>1. PICK m \in 1..n : S[m].from = q /\ l = Rest(S[m]) /\ \A j \in (m + 1)..n : S[j].from # q
    BY <1>2 DEF PartIs
  <2>2. ~(m < i) /\ ~(i < m)
    <3>1. m < i => i \in (m + 1)..n
      OBVIOUS
    <3>2. i < m => m \in (i + 1)..n
      OBVIOUS
    <3> QED
      BY <1>2, <2>1, <3>1, <3>2
  <2>3. m = i
    BY <2>2
  <2> QED
    BY <1>2, <2>1, <2>3
<1> QED
  BY <1>1, <1>2 DEF PartIs

LEMMA PartNext ==
  ASSUME NEW S, NEW q, NEW n \in Nat \ {0}, NEW k, PartIs(S, q, n - 1, k)
  PROVE  PartIs(S, q, n, IF S[n].from = q THEN Rest(S[n]) ELSE k)
<1>1. CASE S[n].from = q
  <2>1. n \in 1..n /\ \A j \in (n + 1)..n : S[j].from # q
    OBVIOUS
  <2> QED
    BY <1>1, <2>1 DEF PartIs
<1>2. CASE S[n].from # q
  <2> SUFFICES PartIs(S, q, n, k)
    BY <1>2
  <2>1. \A i \in 1..n : i = n \/ i \in 1..(n - 1)
    OBVIOUS
  <2> DEFINE None == (\A i \in 1..(n - 1) : S[i].from # q) /\ k = 0
             Some == \E i \in 1..(n - 1) : S[i].from = q /\ k = Rest(S[i]) /\ \A j \in (i + 1)..(n - 1) : S[j].from # q
  <2>2. CASE None
    BY <1>2, <2>1, <2>2 DEF PartIs
  <2>3. CASE Some
    <3>0. PICK i \in 1..(n - 1) : S[i].from = q /\ k = Rest(S[i]) /\ \A j \in (i + 1)..(n - 1) : S[j].from # q
      BY <2>3
    <3>1. i \in 1..n /\ \A j \in (i + 1)..n : j = n \/ j \in (i + 1)..(n - 1)
      OBVIOUS
    <3>2. \A j \in (i + 1)..n : S[j].from # q
      BY <1>2, <3>0, <3>1
    <3> QED
      BY <3>0, <3>1, <3>2 DEF PartIs
  <2>4. None \/ Some
    BY DEF PartIs
  <2> HIDE DEF None, Some
  <2> QED
    BY <2>2, <2>3, <2>4
<1> QED
  BY <1>1, <1>2

\* Only the packets themselves count, not their numbers, nor what follows.
LEMMA PartSame ==
  ASSUME NEW S, NEW R, NEW q, NEW n \in Nat, NEW k, PartIs(S, q, n, k),
         \A i \in 1..n : R[i].from = S[i].from /\ R[i].index = S[i].index
  PROVE  PartIs(R, q, n, k)
<1>1. CASE (\A i \in 1..n : S[i].from # q) /\ k = 0
  BY <1>1 DEF PartIs
<1>2. ASSUME NEW i \in 1..n, S[i].from = q, k = Rest(S[i]), \A j \in (i + 1)..n : S[j].from # q
      PROVE  PartIs(R, q, n, k)
  <2>1. R[i].from = q /\ k = Rest(R[i])
    BY <1>2 DEF Rest
  <2>2. \A j \in (i + 1)..n : R[j].from # q
    <3>1. \A j \in (i + 1)..n : j \in 1..n
      OBVIOUS
    <3> QED
      BY <1>2, <3>1
  <2> QED
    BY <2>1, <2>2 DEF PartIs
<1> QED
  BY <1>1, <1>2 DEF PartIs

\* What a slot of the window holds is the packet sent with that number.
LEMMA SlotIs ==
  ASSUME NEW t, NEW S, SentInTurn(S), NEW lo \in Nat, NEW hi \in Nat, hi <= Len(S), Len(S) <= lo + Slots,
         SlotsHold(t, ToSet(S), lo + 1, hi), NEW i \in (lo + 1)..(lo + Slots), Exist(t, i) # 0
  PROVE  i <= hi /\ PacketAt(t, i) = S[i] /\ Exist(t, i) \in 1..2
<1> DEFINE c == t.slot[i % Slots]
           m == c.pkt.seq
<1>1. i % Slots \in 0..(Slots - 1) /\ c.exist # 0 /\ Exist(t, i) = c.exist /\ PacketAt(t, i) = c.pkt
  BY SlotPlace DEF Exist, PacketAt
<1>2. c.exist \in 1..2 /\ c.pkt \in ToSet(S) /\ m \in (lo + 1)..hi /\ m % Slots = i % Slots
  BY <1>1 DEF SlotsHold, SlotHolds
<1>3. m \in (lo + 1)..(lo + Slots) /\ Len(S) \in Nat
  <2>1. Len(S) \in Nat /\ Slots \in Nat
    BY RingAssumption DEF SentInTurn
  <2> QED
    BY <1>2, <2>1
<1>4. m = i
  BY <1>2, <1>3, SlotsDiffer
<1>5. PICK j \in DOMAIN S : c.pkt = S[j]
  BY <1>2 DEF ToSet
<1>6. j \in 1..Len(S) /\ S[j].seq = j
  BY <1>5 DEF SentInTurn
<1> QED
  BY <1>1, <1>2, <1>4, <1>5, <1>6

\* S reaches as far as hi, and the slots hold what comes after lo.
Within(S, lo, hi) ==
  SentInTurn(S) /\ lo \in Nat /\ hi \in Nat /\ hi <= Len(S) /\ Len(S) <= lo + Slots

\* u is t with packet i of S delivered.
Delivered(t, u, S, lo, hi, i) ==
  /\ DOMAIN u = Fields /\ SlotsHold(u, ToSet(S), lo + 1, hi) /\ u.myAru = t.myAru
  /\ u.dead = FALSE /\ DOMAIN u.part = 0..N /\ u.part[0] = 0
  /\ \A j \in (lo + 1)..(lo + Slots) : Exist(u, j) = IF j = i THEN 2 ELSE Exist(t, j)
  /\ \/ Single(S[i]) /\ \A q \in 1..N : u.part[q] = t.part[q]
     \/ \A q \in 1..N : u.part[q] = IF q = S[i].from THEN Rest(S[i]) ELSE t.part[q]
  /\ Single(S[i]) => \A q \in 1..N : u.part[q] = t.part[q]

\* Deliver_packet on a packet whose turn it is, or which has no turn.
LEMMA DeliverFits ==
  ASSUME load \in Loads, NEW t, NEW S, NEW lo, NEW hi, Within(S, lo, hi),
         NEW del \in Nat, lo <= del, FitsAt(t, S, lo, del, hi),
         NEW i \in (del + 1)..hi, Exist(t, i) = 1, i = del + 1 \/ Single(S[i])
  PROVE  Delivered(t, DeliverPacket(t, i), S, lo, hi, i)
<1> SUFFICES ASSUME NEW u, u = DeliverPacket(t, i) PROVE Delivered(t, u, S, lo, hi, i)
  OBVIOUS
<1>0. /\ SentInTurn(S) /\ lo \in Nat /\ hi \in Nat /\ hi <= Len(S) /\ Len(S) <= lo + Slots
  BY DEF Within
<1> DEFINE p == PacketAt(t, i)
           q0 == IF Single(p) THEN 0 ELSE p.from
           k == IF p.index < 0 THEN -p.index ELSE p.index
<1>1. /\ DOMAIN t = Fields /\ SlotsHold(t, ToSet(S), lo + 1, hi) /\ i \in Int
      /\ t.dead = FALSE /\ DOMAIN t.part = 0..N /\ t.part[0] = 0
  BY DEF FitsAt
<1>2. i \in (lo + 1)..(lo + Slots) /\ i \in 1..Len(S) /\ Len(S) \in Nat
  BY <1>0, RingAssumption DEF SentInTurn
<1>3. p = S[i]
  BY <1>0, <1>1, <1>2, SlotIs
<1>4. S[i] \in Packet /\ S[i].index \in Int /\ S[i].from \in 1..N
  <2>1. S[i] \in Packet
    BY <1>0, <1>2 DEF SentInTurn
  <2> QED
    BY <1>0, <1>2, <2>1 DEF SentInTurn, Packet
<1>5. u = [t EXCEPT !.dead = @ \/ t.part[q0] + 1 # k,
                    !.slot[i % Slots].exist = 2,
                    !.part[q0] = IF p.index < 0 THEN 0 ELSE @ + 1,
                    !.up = IF p.index < 0 THEN Append(@, [from |-> p.from, n |-> p.n]) ELSE @]
  BY DEF DeliverPacket
<1> HIDE DEF p, k, q0
<1>6. q0 \in 0..N /\ t.part[q0] + 1 = k /\ (IF p.index < 0 THEN 0 ELSE t.part[q0] + 1) = Rest(S[i])
  <2>1. CASE Single(S[i])
    <3>1. q0 = 0 /\ p.index = -1 /\ 0 \in 0..N
      BY <1>3, <1>4, <2>1, LoadFacts DEF q0, Single
    <3> QED
      BY <1>1, <1>3, <3>1 DEF k, Rest
  <2>2. CASE ~Single(S[i])
    <3>1. q0 = S[i].from /\ i = del + 1 /\ q0 \in 1..N
      BY <1>3, <1>4, <2>2 DEF q0
    <3>2. PartIs(S, q0, del, t.part[q0])
      BY <3>1 DEF FitsAt
    <3>3. PartIs(S, q0, del, Turn(S[i]))
      <4>1. i - 1 = del
        BY <3>1
      <4> QED
        BY <1>0, <1>2, <3>1, <4>1 DEF SentInTurn
    <3>4. t.part[q0] = Turn(S[i])
      BY <3>2, <3>3, PartUnique
    <3> QED
      BY <1>3, <1>4, <3>1, <3>4 DEF Turn, Rest, k
  <2> QED
    BY <2>1, <2>2
<1>7. /\ DOMAIN u = Fields /\ u.myAru = t.myAru
      /\ u.dead = FALSE /\ u.part = [t.part EXCEPT ![q0] = Rest(S[i])]
  <2>1. /\ DOMAIN u = Fields /\ u.myAru = t.myAru
        /\ u.dead = (t.dead \/ t.part[q0] + 1 # k)
        /\ u.part = [t.part EXCEPT ![q0] = IF p.index < 0 THEN 0 ELSE t.part[q0] + 1]
    BY <1>1, <1>5 DEF Fields
  <2> QED
    BY <1>1, <1>6, <2>1
<1>8. SlotsHold(u, ToSet(S), lo + 1, hi)
  <2>1. lo + 1 \in Int /\ hi \in Int
    BY <1>0
  <2> QED
    BY <1>1, <2>1, DeliverPacketSlots
<1>9. \A j \in (lo + 1)..(lo + Slots) : Exist(u, j) = IF j = i THEN 2 ELSE Exist(t, j)
  <2> TAKE j \in (lo + 1)..(lo + Slots)
  <2>1. u.slot = [t.slot EXCEPT ![i % Slots].exist = 2] /\ DOMAIN t.slot = 0..(Slots - 1)
    BY <1>1, DeliverPacketDoes DEF SlotsHold
  <2>2. i % Slots \in 0..(Slots - 1) /\ j % Slots \in 0..(Slots - 1) /\ "exist" \in DOMAIN t.slot[i % Slots]
    <3>1. i % Slots \in 0..(Slots - 1) /\ j % Slots \in 0..(Slots - 1)
      BY <1>1, SlotPlace
    <3> QED
      BY <1>1, <3>1 DEF SlotsHold
  <2>3. CASE j = i
    BY <2>1, <2>2, <2>3 DEF Exist
  <2>4. CASE j # i
    <3>1. j % Slots # i % Slots
      BY <1>0, <1>2, <2>4, SlotsDiffer
    <3> QED
      BY <2>1, <2>2, <2>4, <3>1 DEF Exist
  <2> QED
    BY <2>3, <2>4
<1>10. Single(S[i]) => q0 = 0 /\ Rest(S[i]) = 0
  BY <1>3, <1>4 DEF q0, Single, Rest
<1>11. ~Single(S[i]) => q0 = S[i].from /\ q0 \in 1..N
  BY <1>3, <1>4 DEF q0
<1>12. DOMAIN u.part = 0..N /\ \A q \in 0..N : u.part[q] = IF q = q0 THEN Rest(S[i]) ELSE t.part[q]
  BY <1>1, <1>6, <1>7
<1>13. 0 \in 0..N /\ \A q \in 1..N : q \in 0..N /\ q # 0
  <2>1. N \in Int /\ 0 <= N
    BY LoadFacts
  <2> QED
    BY <2>1
<1>14. \/ Single(S[i]) /\ \A q \in 1..N : u.part[q] = t.part[q]
       \/ \A q \in 1..N : u.part[q] = IF q = S[i].from THEN Rest(S[i]) ELSE t.part[q]
  <2>1. CASE Single(S[i])
    BY <1>10, <1>12, <1>13, <2>1
  <2>2. CASE ~Single(S[i])
    BY <1>11, <1>12, <1>13, <2>2
  <2> QED
    BY <2>1, <2>2
<1>15. Single(S[i]) => \A q \in 1..N : u.part[q] = t.part[q]
  BY <1>10, <1>12, <1>13
<1>16. u.part[0] = 0
  BY <1>1, <1>10, <1>11, <1>12, <1>13
<1> QED
  BY <1>7, <1>8, <1>9, <1>12, <1>14, <1>15, <1>16 DEF Delivered

\* What is unfinished after one packet more was delivered; a single one changes nothing.
LEMMA PartTurn ==
  ASSUME NEW S, SentInTurn(S), NEW i \in 1..Len(S), NEW a, NEW b,
         \A q \in 1..N : PartIs(S, q, i - 1, a[q]),
         \/ Single(S[i]) /\ \A q \in 1..N : b[q] = a[q]
         \/ \A q \in 1..N : b[q] = IF q = S[i].from THEN Rest(S[i]) ELSE a[q]
  PROVE  \A q \in 1..N : PartIs(S, q, i, b[q])
<1> TAKE q \in 1..N
<1>1. i \in Nat \ {0} /\ i - 1 \in Nat
  BY DEF SentInTurn
<1>2. PartIs(S, q, i, IF S[i].from = q THEN Rest(S[i]) ELSE a[q])
  BY <1>1, PartNext
<1>3. CASE Single(S[i]) /\ S[i].from = q /\ b[q] = a[q]
  <2>1. PartIs(S, q, i - 1, Turn(S[i])) /\ PartIs(S, q, i - 1, a[q])
    BY <1>3 DEF SentInTurn
  <2>2. a[q] = Turn(S[i])
    BY <1>1, <2>1, PartUnique
  <2>3. S[i].index = -1
    BY <1>3 DEF Single
  <2>4. Turn(S[i]) = 0
    <3> DEFINE x == S[i].index
    <3>1. x + 1 = 0 /\ x \in Int
      BY <2>3
    <3> HIDE DEF x
    <3>2. x < 0 /\ -x - 1 = 0
      BY <3>1
    <3> QED
      BY <3>2 DEF Turn, x
  <2>5. Rest(S[i]) = 0
    BY <2>3 DEF Rest
  <2> QED
    BY <1>2, <1>3, <2>2, <2>4, <2>5
<1>4. CASE ~(Single(S[i]) /\ S[i].from = q /\ b[q] = a[q])
  BY <1>2, <1>4
<1> QED
  BY <1>3, <1>4

\* What is left in the slots, and unfinished, once packet i was delivered.
LEMMA DeliveredFits ==
  ASSUME NEW t, NEW u, NEW S, NEW lo, NEW hi, Within(S, lo, hi), NEW del \in Nat, lo <= del,
         FitsAt(t, S, lo, del, hi), t.myAru \in Nat, t.myAru <= hi,
         NEW i \in (del + 1)..hi, Delivered(t, u, S, lo, hi, i)
  PROVE  /\ Single(S[i]) => FitsAt(u, S, lo, del, hi)
         /\ i = del + 1 => FitsAt(u, S, lo, i, hi)
<1>0. /\ lo \in Nat /\ hi \in Nat /\ hi <= lo + Slots /\ i \in 1..Len(S) /\ SentInTurn(S)
      /\ Slots \in Nat /\ Len(S) \in Nat
  BY RingAssumption DEF Within, SentInTurn
<1>1. /\ DOMAIN u = Fields /\ SlotsHold(u, ToSet(S), lo + 1, hi) /\ u.myAru = t.myAru
      /\ u.dead = FALSE /\ DOMAIN u.part = 0..N /\ u.part[0] = 0
      /\ \A j \in (lo + 1)..(lo + Slots) : Exist(u, j) = IF j = i THEN 2 ELSE Exist(t, j)
      /\ \/ Single(S[i]) /\ \A q \in 1..N : u.part[q] = t.part[q]
         \/ \A q \in 1..N : u.part[q] = IF q = S[i].from THEN Rest(S[i]) ELSE t.part[q]
      /\ Single(S[i]) => \A q \in 1..N : u.part[q] = t.part[q]
  BY DEF Delivered
<1>2. /\ \A q \in 1..N : PartIs(S, q, del, t.part[q])
      /\ \A j \in (lo + 1)..t.myAru : Exist(t, j) # 0
      /\ \A j \in (lo + 1)..del : Exist(t, j) = 2
      /\ \A j \in (del + 1)..hi : Exist(t, j) = 2 => Single(S[j])
  BY DEF FitsAt
<1>3. \A j \in (lo + 1)..t.myAru : j \in (lo + 1)..(lo + Slots)
  BY <1>0
<1>4. \A j \in (lo + 1)..t.myAru : Exist(u, j) # 0
  BY <1>1, <1>2, <1>3
<1>5. \A j \in (lo + 1)..del : j \in (lo + 1)..(lo + Slots) /\ j # i
  BY <1>0
<1>6. \A j \in (lo + 1)..del : Exist(u, j) = 2
  BY <1>1, <1>2, <1>5
<1>7. \A j \in (del + 1)..hi : j \in (lo + 1)..(lo + Slots)
  BY <1>0
<1>8. \A j \in (del + 1)..hi : j # i => (Exist(u, j) = 2 => Single(S[j]))
  BY <1>1, <1>2, <1>7
<1>9. ASSUME Single(S[i]) PROVE FitsAt(u, S, lo, del, hi)
  <2>1. \A q \in 1..N : PartIs(S, q, del, u.part[q])
    BY <1>1, <1>2, <1>9
  <2>2. \A j \in (del + 1)..hi : Exist(u, j) = 2 => Single(S[j])
    BY <1>8, <1>9
  <2> QED
    BY <1>1, <1>4, <1>6, <2>1, <2>2 DEF FitsAt
<1>10. ASSUME i = del + 1 PROVE FitsAt(u, S, lo, i, hi)
  <2> DEFINE a == t.part
             b == u.part
  <2>1. \A q \in 1..N : PartIs(S, q, i - 1, a[q])
    <3>1. i - 1 = del
      BY <1>10
    <3> QED
      BY <1>2, <3>1
  <2>2. \/ Single(S[i]) /\ \A q \in 1..N : b[q] = a[q]
        \/ \A q \in 1..N : b[q] = IF q = S[i].from THEN Rest(S[i]) ELSE a[q]
    BY <1>1
  <2> HIDE DEF a, b
  <2>3. \A q \in 1..N : PartIs(S, q, i, b[q])
    BY <1>0, <2>1, <2>2, PartTurn
  <2>4. \A j \in (lo + 1)..i : Exist(u, j) = 2
    <3>1. \A j \in (lo + 1)..i : j = i \/ j \in (lo + 1)..del
      BY <1>0, <1>10
    <3>2. i \in (lo + 1)..(lo + Slots)
      BY <1>7
    <3> QED
      BY <1>1, <1>6, <3>1, <3>2
  <2>5. \A j \in (i + 1)..hi : Exist(u, j) = 2 => Single(S[j])
    <3>1. \A j \in (i + 1)..hi : j \in (del + 1)..hi /\ j # i
      BY <1>0
    <3> QED
      BY <1>8, <3>1
  <2> QED
    BY <1>1, <1>4, <2>3, <2>4, <2>5 DEF FitsAt, b
<1> QED
  BY <1>9, <1>10

LEMMA ReliableFits ==
  ASSUME load \in Loads,
         NEW t, NEW S, NEW lo, NEW hi, Within(S, lo, hi), NEW del \in Nat, lo <= del,
         FitsAt(t, S, lo, del, hi), t.myAru \in Nat, t.myAru <= hi, NEW i \in (del + 1)..hi
  PROVE  FitsAt(Step("reliable", t, i), S, lo, del, hi)
<1>1. CASE Exist(t, i) = 1 /\ Single(PacketAt(t, i))
  <2>0. SentInTurn(S) /\ lo \in Nat /\ hi \in Nat /\ hi <= Len(S) /\ Len(S) <= lo + Slots
    BY DEF Within
  <2>1. i \in (lo + 1)..(lo + Slots) /\ SlotsHold(t, ToSet(S), lo + 1, hi)
    BY <2>0, RingAssumption DEF SentInTurn, FitsAt
  <2>2. Single(S[i])
    BY <1>1, <2>0, <2>1, SlotIs
  <2>3. Step("reliable", t, i) = DeliverPacket(t, i)
    BY <1>1 DEF Step
  <2>4. Delivered(t, DeliverPacket(t, i), S, lo, hi, i)
    BY <1>1, <2>2, DeliverFits
  <2> QED
    BY <2>2, <2>3, <2>4, DeliveredFits
<1>2. CASE ~(Exist(t, i) = 1 /\ Single(PacketAt(t, i)))
  BY <1>2 DEF Step
<1> QED
  BY <1>1, <1>2

LEMMA AgreedFits ==
  ASSUME load \in Loads,
         NEW t, NEW S, NEW lo, NEW hi, Within(S, lo, hi), NEW del \in Nat, lo <= del,
         FitsAt(t, S, lo, del, hi), t.myAru \in Nat, t.myAru <= hi,
         NEW i, i = del + 1, i <= t.myAru
  PROVE  FitsAt(Step("agreed", t, i), S, lo, i, hi)
<1>0. SentInTurn(S) /\ lo \in Nat /\ hi \in Nat /\ hi <= Len(S) /\ Len(S) <= lo + Slots
  BY DEF Within
<1>1. /\ i \in (del + 1)..hi /\ i \in (lo + 1)..(lo + Slots) /\ i \in (lo + 1)..t.myAru
  BY <1>0, RingAssumption DEF SentInTurn
<1>2. Exist(t, i) # 0 /\ SlotsHold(t, ToSet(S), lo + 1, hi)
  BY <1>1 DEF FitsAt
<1>3. Exist(t, i) \in 1..2
  BY <1>0, <1>1, <1>2, SlotIs
<1>4. CASE Exist(t, i) = 1
  <2>1. Step("agreed", t, i) = DeliverPacket(t, i)
    BY <1>4 DEF Step
  <2>2. Delivered(t, DeliverPacket(t, i), S, lo, hi, i)
    BY <1>1, <1>4, DeliverFits
  <2> QED
    BY <1>1, <2>1, <2>2, DeliveredFits
<1>5. CASE Exist(t, i) = 2
  <2>1. Step("agreed", t, i) = t
    BY <1>5 DEF Step
  <2>2. Single(S[i])
    BY <1>1, <1>5 DEF FitsAt
  <2>3. Delivered(t, t, S, lo, hi, i)
    BY <1>5, <2>2 DEF Delivered, FitsAt
  <2> QED
    BY <1>1, <2>1, <2>3, DeliveredFits
<1> QED
  BY <1>3, <1>4, <1>5

\* Discard_packets delivers a packet if it is not, then frees its slot.
LEMMA DiscardFits ==
  ASSUME load \in Loads,
         NEW t, NEW S, NEW lo, NEW hi, Within(S, lo, hi), NEW del \in Nat, lo <= del,
         FitsAt(t, S, lo, del, hi), t.myAru \in Nat, t.myAru <= hi, del <= t.myAru,
         NEW i, i = lo + 1, i <= t.myAru
  PROVE  FitsAt(Step("discard", t, i), S, i, Greater(del, i), hi)
<1>0. /\ SentInTurn(S) /\ lo \in Nat /\ hi \in Nat /\ hi <= Len(S) /\ Len(S) <= lo + Slots
      /\ i \in Int /\ Slots \in Nat \ {0} /\ Len(S) \in Nat
  BY RingAssumption DEF Within, SentInTurn
<1> DEFINE g == Greater(del, i)
           v == IF Exist(t, i) = 1 THEN DeliverPacket(t, i) ELSE t
           u == Step("discard", t, i)
<1>1. FitsAt(v, S, lo, g, hi) /\ v.myAru = t.myAru
  <2>1. CASE i <= del
    <3>1. i \in (lo + 1)..del /\ g = del
      BY <1>0, <2>1 DEF Greater
    <3>2. Exist(t, i) = 2
      BY <3>1 DEF FitsAt
    <3> QED
      BY <3>1, <3>2
  <2>2. CASE ~(i <= del)
    <3>1. i = del + 1 /\ g = i /\ i \in (lo + 1)..t.myAru
      BY <1>0, <2>2 DEF Greater
    <3>2. Exist(t, i) # 0
      BY <3>1 DEF FitsAt
    <3>3. Step("agreed", t, i) = v
      BY <3>2 DEF Step
    <3>4. FitsAt(Step("agreed", t, i), S, lo, i, hi)
      BY <3>1, AgreedFits
    <3>5. v.myAru = t.myAru
      BY <1>0, DeliverPacketDoes DEF Keeps, FitsAt
    <3> QED
      BY <3>1, <3>3, <3>4, <3>5
  <2> QED
    BY <2>1, <2>2
<1>2. Exist(t, i) # 0
  <2>1. i \in (lo + 1)..t.myAru
    BY <1>0
  <2> QED
    BY <2>1 DEF FitsAt
<1>3. u = [v EXCEPT !.dead = @ \/ Exist(t, i) = 0, !.slot[i % Slots] = NoPacket]
  BY DEF Step
<1>4. /\ DOMAIN v = Fields /\ SlotsHold(v, ToSet(S), lo + 1, hi) /\ v.dead = FALSE
      /\ DOMAIN v.part = 0..N /\ v.part[0] = 0
      /\ \A q \in 1..N : PartIs(S, q, g, v.part[q])
      /\ \A j \in (lo + 1)..t.myAru : Exist(v, j) # 0
      /\ \A j \in (lo + 1)..g : Exist(v, j) = 2
      /\ \A j \in (g + 1)..hi : Exist(v, j) = 2 => Single(S[j])
  BY <1>1 DEF FitsAt
<1>5. /\ DOMAIN u = Fields /\ u.dead = FALSE /\ u.part = v.part /\ u.myAru = t.myAru
      /\ u.slot = [v.slot EXCEPT ![i % Slots] = NoPacket]
  <2> HIDE DEF v, u
  <2> QED
    BY <1>1, <1>2, <1>3, <1>4 DEF Fields
<1>6. SlotsHold(u, ToSet(S), i + 1, hi)
  <2>1. SlotsHold(t, ToSet(S), LoAt("discard", lo, i), HiAt("discard", hi, i)) /\ DOMAIN t = Fields
    BY DEF FitsAt, LoAt, HiAt
  <2>2. SlotsHold(Step("discard", t, i), ToSet(S), LoAt("discard", lo, i + 1), HiAt("discard", hi, i + 1))
    BY <1>0, <2>1, StepSlots
  <2> QED
    BY <2>2 DEF LoAt, HiAt
<1> HIDE DEF u, v
<1>7. \A j \in (i + 1)..(lo + Slots) : Exist(u, j) = Exist(v, j)
  <2> TAKE j \in (i + 1)..(lo + Slots)
  <2>1. j \in (lo + 1)..(lo + Slots) /\ i \in (lo + 1)..(lo + Slots) /\ i # j /\ j \in Int
    BY <1>0
  <2>2. j % Slots # i % Slots
    <3>1. lo \in Int
      BY <1>0
    <3> QED
      BY <2>1, <3>1, SlotsDiffer
  <2>3. j % Slots \in 0..(Slots - 1) /\ DOMAIN v.slot = 0..(Slots - 1)
    BY <1>4, <2>1, SlotPlace DEF SlotsHold
  <2> QED
    BY <1>5, <2>2, <2>3 DEF Exist
<1>8. g \in Nat /\ i <= g /\ g <= hi + del
  BY <1>0 DEF Greater
<1> HIDE DEF g
<1>9. \A j \in (i + 1)..t.myAru : Exist(u, j) # 0
  <2>1. \A j \in (i + 1)..t.myAru : j \in (i + 1)..(lo + Slots) /\ j \in (lo + 1)..t.myAru
    BY <1>0
  <2> QED
    BY <1>4, <1>7, <2>1
<1>10. \A j \in (g + 1)..hi : Exist(u, j) = 2 => Single(S[j])
  <2>1. \A j \in (g + 1)..hi : j \in (i + 1)..(lo + Slots)
    BY <1>0, <1>8
  <2> QED
    BY <1>4, <1>7, <2>1
<1>11. \A j \in (i + 1)..g : Exist(u, j) = 2
  <2>1. \A j \in (i + 1)..g : j \in (lo + 1)..g
    BY <1>0
  <2>2. g <= hi
    BY <1>0 DEF g, Greater
  <2>3. \A j \in (i + 1)..g : j \in (i + 1)..(lo + Slots)
    BY <1>0, <1>8, <2>2
  <2> QED
    BY <1>4, <1>7, <2>1, <2>3
<1>12. FitsAt(u, S, i, g, hi)
  BY <1>4, <1>5, <1>6, <1>9, <1>10, <1>11 DEF FitsAt
<1> QED
  BY <1>12 DEF g, u

\* A daemon that learns of a higher number has none of the packets in between.
LEMMA FitsHigher ==
  ASSUME NEW t, NEW u, NEW S, NEW lo, NEW hi, NEW more, Within(S, lo, hi), Within(S, lo, more), hi <= more,
         NEW del \in Nat, lo <= del, FitsAt(t, S, lo, del, hi),
         DOMAIN u = Fields, u.slot = t.slot, u.part = t.part, u.dead = t.dead, u.myAru = t.myAru
  PROVE  FitsAt(u, S, lo, del, more)
<1>0. /\ SentInTurn(S) /\ lo \in Nat /\ hi \in Nat /\ more \in Nat /\ more <= Len(S) /\ hi <= Len(S)
      /\ Len(S) <= lo + Slots /\ Slots \in Nat \ {0} /\ Len(S) \in Nat
  BY RingAssumption DEF Within, SentInTurn
<1>1. SlotsHold(t, ToSet(S), lo + 1, hi)
  BY DEF FitsAt
<1>2. SlotsHold(u, ToSet(S), lo + 1, more)
  <2>1. lo + 1 \in Int /\ hi \in Int /\ more \in Int
    BY <1>0
  <2>2. SlotsHold(t, ToSet(S), lo + 1, more)
    BY <1>1, <2>1, SlotsMore
  <2> QED
    BY <2>2 DEF SlotsHold
<1>3. \A j \in Int : Exist(u, j) = Exist(t, j)
  BY DEF Exist
<1>4. \A j \in (del + 1)..more : Exist(u, j) = 2 => Single(S[j])
  <2> SUFFICES ASSUME NEW j \in (del + 1)..more, Exist(u, j) = 2 PROVE Single(S[j])
    OBVIOUS
  <2>1. j \in (lo + 1)..(lo + Slots) /\ j \in Int
    BY <1>0
  <2>2. Exist(t, j) = 2
    BY <1>3, <2>1
  <2>3. j <= hi
    BY <1>0, <1>1, <2>1, <2>2, SlotIs
  <2>4. j \in (del + 1)..hi
    BY <1>0, <2>1, <2>3
  <2> QED
    BY <2>2, <2>4 DEF FitsAt
<1> QED
  BY <1>2, <1>3, <1>4 DEF FitsAt

\* A packet that is put in its slot, free so far.
LEMMA PutFits ==
  ASSUME NEW t, NEW u, NEW S, NEW lo, NEW hi, Within(S, lo, hi),
         NEW del \in Nat, lo <= del, del <= hi,
         FitsAt(t, S, lo, del, hi), t.myAru \in Nat, t.myAru <= hi,
         NEW i \in (lo + 1)..hi, Exist(t, i) = 0,
         DOMAIN u = Fields, u.part = t.part, u.dead = t.dead, u.myAru = t.myAru,
         u.slot = [t.slot EXCEPT ![i % Slots] = [exist |-> 1, pkt |-> S[i]]]
  PROVE  FitsAt(u, S, lo, del, hi)
<1>0. /\ SentInTurn(S) /\ lo \in Nat /\ hi \in Nat /\ hi <= Len(S) /\ Len(S) <= lo + Slots
      /\ i \in Int /\ i \in 1..Len(S) /\ Slots \in Nat \ {0} /\ Len(S) \in Nat
      /\ i \in (lo + 1)..(lo + Slots)
  BY RingAssumption DEF Within, SentInTurn
<1>1. /\ DOMAIN t = Fields /\ SlotsHold(t, ToSet(S), lo + 1, hi) /\ t.dead = FALSE
      /\ DOMAIN t.part = 0..N /\ t.part[0] = 0
      /\ \A q \in 1..N : PartIs(S, q, del, t.part[q])
      /\ \A j \in (lo + 1)..t.myAru : Exist(t, j) # 0
      /\ \A j \in (lo + 1)..del : Exist(t, j) = 2
      /\ \A j \in (del + 1)..hi : Exist(t, j) = 2 => Single(S[j])
  BY DEF FitsAt
<1>2. i % Slots \in 0..(Slots - 1) /\ DOMAIN t.slot = 0..(Slots - 1)
  <2>1. DOMAIN t.slot = 0..(Slots - 1)
    BY <1>1 DEF SlotsHold
  <2> QED
    BY <1>0, <2>1, SlotPlace
<1> DEFINE c == [exist |-> 1, pkt |-> S[i]]
<1>3. u.slot[i % Slots] = c /\ \A k \in 0..(Slots - 1) : k # i % Slots => u.slot[k] = t.slot[k]
  BY <1>2
<1>4. c.exist = 1 /\ c.pkt \in ToSet(S) /\ c.pkt.seq = i /\ DOMAIN c = {"exist", "pkt"}
  BY <1>0 DEF SentInTurn, ToSet
<1> HIDE DEF c
<1>5. SlotsHold(u, ToSet(S), lo + 1, hi)
  <2>1. ASSUME NEW k \in 0..(Slots - 1)
        PROVE  "exist" \in DOMAIN u.slot[k] /\ SlotHolds(u.slot[k], k, ToSet(S), lo + 1, hi)
    <3>1. CASE k = i % Slots
      BY <1>3, <1>4, <3>1 DEF SlotHolds
    <3>2. CASE k # i % Slots
      BY <1>1, <1>3, <3>2 DEF SlotsHold
    <3> QED
      BY <3>1, <3>2
  <2> QED
    BY <1>2, <2>1 DEF SlotsHold
<1>6. \A j \in (lo + 1)..(lo + Slots) : Exist(u, j) = IF j = i THEN 1 ELSE Exist(t, j)
  <2> TAKE j \in (lo + 1)..(lo + Slots)
  <2>1. lo \in Int /\ j \in Int
    BY <1>0
  <2>2. CASE j = i
    BY <1>3, <1>4, <2>2 DEF Exist
  <2>3. CASE j # i
    <3>1. j % Slots # i % Slots
      BY <1>0, <2>1, <2>3, SlotsDiffer
    <3>2. j % Slots \in 0..(Slots - 1)
      BY <2>1, SlotPlace
    <3> QED
      BY <1>3, <2>3, <3>1, <3>2 DEF Exist
  <2> QED
    BY <2>2, <2>3
<1>7. \A j \in (lo + 1)..t.myAru : Exist(u, j) # 0
  <2>1. \A j \in (lo + 1)..t.myAru : j \in (lo + 1)..(lo + Slots)
    BY <1>0
  <2> QED
    BY <1>1, <1>6, <2>1
<1>8. \A j \in (lo + 1)..del : Exist(u, j) = 2
  <2>1. \A j \in (lo + 1)..del : j \in (lo + 1)..(lo + Slots) /\ j # i
    <3>1. ~(i \in (lo + 1)..del)
      BY <1>1
    <3> QED
      BY <1>0, <3>1
  <2> QED
    BY <1>1, <1>6, <2>1
<1>9. \A j \in (del + 1)..hi : Exist(u, j) = 2 => Single(S[j])
  <2>1. \A j \in (del + 1)..hi : j \in (lo + 1)..(lo + Slots)
    BY <1>0
  <2> QED
    BY <1>1, <1>6, <2>1
<1> QED
  BY <1>1, <1>5, <1>7, <1>8, <1>9 DEF FitsAt

\* Send_new_packets gives the next number, whose slot is free.
LEMMA SendFits ==
  ASSUME NEW t, NEW S, NEW lo, NEW hi, NEW i, i = hi + 1, Within(S, lo, hi), i <= Len(S),
         NEW del \in Nat, lo <= del, del <= hi,
         FitsAt(t, S, lo, del, hi), t.myAru \in Nat, t.myAru <= hi, Numbered(t, i) = S[i]
  PROVE  FitsAt(Step("send", t, i), S, lo, del, i)
<1>0. /\ SentInTurn(S) /\ lo \in Nat /\ hi \in Nat /\ hi <= Len(S) /\ Len(S) <= lo + Slots
      /\ Within(S, lo, i) /\ hi <= i /\ ~(i <= hi) /\ i \in (lo + 1)..i /\ i \in (lo + 1)..(lo + Slots)
  BY RingAssumption DEF Within, SentInTurn
<1> DEFINE u == Step("send", t, i)
<1>1. DOMAIN t = Fields /\ SlotsHold(t, ToSet(S), lo + 1, hi)
  BY DEF FitsAt
<1>2. Exist(t, i) = 0
  BY <1>0, <1>1, SlotIs
<1>3. /\ DOMAIN u = Fields /\ u.part = t.part /\ u.myAru = t.myAru
      /\ u.dead = (t.dead \/ Exist(t, i) # 0)
      /\ u.slot = [t.slot EXCEPT ![i % Slots] = [exist |-> 1, pkt |-> Numbered(t, i)]]
  BY <1>1 DEF Step, Numbered, Fields
<1>4. u.dead = t.dead
  BY <1>2, <1>3 DEF FitsAt
<1> HIDE DEF u
<1>5. FitsAt(t, S, lo, del, i)
  BY <1>0, <1>1, FitsHigher
<1>6. del <= i /\ t.myAru <= i
  BY <1>0
<1>7. u.slot = [t.slot EXCEPT ![i % Slots] = [exist |-> 1, pkt |-> S[i]]]
  BY <1>3
<1>8. FitsAt(u, S, lo, del, i)
  BY <1>0, <1>2, <1>3, <1>4, <1>5, <1>6, <1>7, PutFits
<1> QED
  BY <1>8 DEF u

\* What is freed, delivered and known before a loop goes on to i.
LoF(loop, lo, i) == IF loop = "discard" THEN i - 1 ELSE lo
DelF(loop, del, i) ==
  IF loop = "agreed" THEN i - 1 ELSE IF loop = "discard" THEN Greater(del, i - 1) ELSE del
HiF(loop, hi, i) == IF loop = "send" THEN i - 1 ELSE hi

\* The numbers a loop may take, from lo freed, del delivered, hi known.
Takes(loop, t, S, lo, del, hi, i) ==
  /\ Within(S, lo, hi) /\ del \in Nat /\ lo <= del /\ t.myAru \in Nat /\ del <= t.myAru /\ t.myAru <= hi
  /\ i \in Int
  /\ CASE loop = "reliable" -> i \in (del + 1)..hi
       [] loop = "agreed" -> i \in (del + 1)..t.myAru
       [] loop = "discard" -> i \in (lo + 1)..t.myAru
       [] loop = "send" -> i \in (hi + 1)..Len(S) /\ Numbered(t, i) = S[i]

LEMMA StepFits ==
  ASSUME load \in Loads, NEW loop \in {"reliable", "agreed", "discard", "send"},
         NEW t, NEW S, NEW lo, NEW del, NEW hi, NEW i, Takes(loop, t, S, lo, del, hi, i),
         FitsAt(t, S, LoF(loop, lo, i), DelF(loop, del, i), HiF(loop, hi, i))
  PROVE  FitsAt(Step(loop, t, i), S, LoF(loop, lo, i + 1), DelF(loop, del, i + 1), HiF(loop, hi, i + 1))
<1>0. /\ Within(S, lo, hi) /\ del \in Nat /\ lo <= del /\ t.myAru \in Nat /\ del <= t.myAru /\ t.myAru <= hi
      /\ i \in Int /\ i + 1 - 1 = i /\ i - 1 + 1 = i /\ i - 1 \in Int
  BY DEF Takes
<1>1. /\ SentInTurn(S) /\ lo \in Nat /\ hi \in Nat /\ hi <= Len(S) /\ Len(S) <= lo + Slots
      /\ Len(S) \in Nat /\ Slots \in Nat
  BY <1>0, RingAssumption DEF Within, SentInTurn
<1>2. CASE loop = "reliable"
  <2>1. i \in (del + 1)..hi /\ FitsAt(t, S, lo, del, hi)
    BY <1>2 DEF Takes, LoF, DelF, HiF
  <2>2. FitsAt(Step("reliable", t, i), S, lo, del, hi)
    BY <1>0, <2>1, ReliableFits
  <2> QED
    BY <1>2, <2>2 DEF LoF, DelF, HiF
<1>3. CASE loop = "agreed"
  <2>1. i \in (del + 1)..t.myAru /\ FitsAt(t, S, lo, i - 1, hi)
    BY <1>3 DEF Takes, LoF, DelF, HiF
  <2>2. i - 1 \in Nat /\ lo <= i - 1 /\ i <= t.myAru
    BY <1>0, <1>1, <2>1
  <2>3. FitsAt(Step("agreed", t, i), S, lo, i, hi)
    BY <1>0, <2>1, <2>2, AgreedFits
  <2> QED
    BY <1>0, <1>3, <2>3 DEF LoF, DelF, HiF
<1>4. CASE loop = "discard"
  <2>1. i \in (lo + 1)..t.myAru /\ FitsAt(t, S, i - 1, Greater(del, i - 1), hi)
    BY <1>4 DEF Takes, LoF, DelF, HiF
  <2> DEFINE l == i - 1
             e == Greater(del, l)
  <2>2. Within(S, l, hi) /\ e \in Nat /\ l <= e /\ e <= t.myAru /\ i = l + 1 /\ i <= t.myAru
    BY <1>0, <1>1, <2>1 DEF Within, Greater
  <2>3. Greater(e, i) = Greater(del, i)
    BY <1>0, <1>1, <2>1 DEF Greater
  <2> HIDE DEF l
  <2>4. FitsAt(t, S, l, e, hi)
    BY <2>1 DEF l
  <2> HIDE DEF e
  <2>5. FitsAt(Step("discard", t, i), S, i, Greater(e, i), hi)
    BY <1>0, <2>2, <2>4, DiscardFits
  <2> QED
    BY <1>0, <1>4, <2>3, <2>5 DEF LoF, DelF, HiF
<1>5. CASE loop = "send"
  <2>1. i \in (hi + 1)..Len(S) /\ Numbered(t, i) = S[i] /\ FitsAt(t, S, lo, del, i - 1)
    BY <1>5 DEF Takes, LoF, DelF, HiF
  <2> DEFINE h == i - 1
  <2>2. Within(S, lo, h) /\ i = h + 1 /\ i <= Len(S) /\ del <= h /\ t.myAru <= h
    BY <1>0, <1>1, <2>1 DEF Within
  <2> HIDE DEF h
  <2>4. FitsAt(t, S, lo, del, h)
    BY <2>1 DEF h
  <2>5. FitsAt(Step("send", t, i), S, lo, del, i)
    BY <1>0, <2>1, <2>2, <2>4, SendFits
  <2> QED
    BY <1>0, <1>5, <2>5 DEF LoF, DelF, HiF
<1> QED
  BY <1>2, <1>3, <1>4, <1>5

LEMMA OverFits ==
  ASSUME load \in Loads, NEW loop \in {"reliable", "agreed", "discard", "send"},
         NEW s, NEW S, NEW lo, NEW del, NEW hi, NEW a \in Int, NEW b \in Int, a <= b,
         DOMAIN s = Fields, \A i \in a..b : Takes(loop, s, S, lo, del, hi, i),
         FitsAt(s, S, LoF(loop, lo, a), DelF(loop, del, a), HiF(loop, hi, a))
  PROVE  FitsAt(Over(loop, s, a, b), S, LoF(loop, lo, b + 1), DelF(loop, del, b + 1), HiF(loop, hi, b + 1))
<1>1. \E f : /\ f[a - 1] = s /\ Over(loop, s, a, b) = f[b]
             /\ \A i \in a..b : f[i] = Step(loop, f[i - 1], i)
  <2>1. a <= b
    OBVIOUS
  <2> QED
    BY ONLY <2>1, OverSteps
<1>2. PICK f : /\ f[a - 1] = s /\ Over(loop, s, a, b) = f[b]
               /\ \A i \in a..b : f[i] = Step(loop, f[i - 1], i)
  BY <1>1
<1> DEFINE Good(i) == /\ Keeps(s, f[i - 1])
                      /\ FitsAt(f[i - 1], S, LoF(loop, lo, i), DelF(loop, del, i), HiF(loop, hi, i))
           Bad == {n \in Nat : a + n <= b + 1 /\ ~Good(a + n)}
<1>3. Good(a + 0)
  BY <1>2 DEF Keeps
<1>4. Bad = {}
  <2> SUFFICES ASSUME Bad # {} PROVE FALSE
    OBVIOUS
  <2>1. PICK n \in Bad : \A m \in Bad : n <= m
    BY LeastExists
  <2>2. n # 0
    BY <1>3, <2>1
  <2> DEFINE i == a + (n - 1)
  <2>3. n - 1 \in Nat /\ n - 1 \notin Bad /\ i + 1 = a + n /\ i \in a..b
    BY <2>1, <2>2
  <2>4. Good(i)
    BY <2>3
  <2>5. f[i] = Step(loop, f[i - 1], i)
    BY <1>2, <2>3
  <2>6. i + 1 - 1 = i /\ i \in Int
    BY <2>3
  <2>7. DOMAIN f[i - 1] = Fields /\ Numbered(f[i - 1], i) = Numbered(s, i) /\ f[i - 1].myAru = s.myAru
    BY <2>4 DEF Keeps, Numbered
  <2>8. Takes(loop, s, S, lo, del, hi, i)
    BY <2>3
  <2> HIDE DEF i
  <2>9. Takes(loop, f[i - 1], S, lo, del, hi, i)
    BY <2>7, <2>8 DEF Takes
  <2>10. Keeps(f[i - 1], f[i])
    BY <2>5, <2>6, <2>7, StepKeeps
  <2>11. FitsAt(f[i], S, LoF(loop, lo, i + 1), DelF(loop, del, i + 1), HiF(loop, hi, i + 1))
    BY <2>4, <2>5, <2>9, StepFits
  <2>12. Keeps(s, f[i])
    BY <2>4, <2>10 DEF Keeps
  <2>13. Good(i + 1)
    BY <2>6, <2>11, <2>12
  <2> HIDE DEF Good
  <2> QED
    BY <2>1, <2>3, <2>13
<1>5. \A n \in Nat : a + n <= b + 1 => Good(a + n)
  BY <1>4
<1> HIDE DEF Good
<1>6. Good(b + 1)
  <2>1. b + 1 - a \in Nat /\ a + (b + 1 - a) = b + 1
    OBVIOUS
  <2> QED
    BY <1>5, <2>1
<1>7. b + 1 - 1 = b
  OBVIOUS
<1> QED
  BY <1>2, <1>6, <1>7 DEF Good

--------------------------------------------------------------------------------
(* The packets of a daemon *)

Fits(s, S) == FitsAt(s, S, s.disc, s.del, s.seq) /\ Within(S, s.disc, s.seq)

\* Deliver_reliable_packets, Deliver_agreed_packets and Discard_packets deliver every
\* packet in its turn and find no hole.
LEMMA DeliverReliableFits ==
  ASSUME load \in Loads, NEW s, NEW P, Counters(s, P), NEW S, Fits(s, S),
         NEW a \in Int, NEW b \in Int, b <= s.seq
  PROVE  /\ Fits(DeliverReliable(s, a, b), S) /\ DeliverReliable(s, a, b).disc = s.disc
         /\ DeliverReliable(s, a, b).down = s.down
<1> DEFINE c == Greater(a, s.del + 1)
           t == Over("reliable", s, c, b)
<1>1. /\ c \in Int /\ DOMAIN s = Fields /\ s.del + 1 <= c /\ s.del \in Nat /\ s.disc <= s.del
      /\ s.myAru \in Nat /\ s.del <= s.myAru /\ s.myAru <= s.seq /\ s.disc \in Nat /\ s.seq \in Nat
  BY DEF Counters, Greater
<1>2. t = DeliverReliable(s, a, b)
  BY DEF DeliverReliable
<1> HIDE DEF c
<1>3. Keeps(s, t)
  BY <1>1, OverKeeps
<1>4. FitsAt(t, S, s.disc, s.del, s.seq)
  <2>1. CASE b < c
    BY <2>1 DEF Over, Fits
  <2>2. CASE c <= b
    <3>1. \A i \in c..b : Takes("reliable", s, S, s.disc, s.del, s.seq, i)
      BY <1>1 DEF Takes, Fits
    <3>2. FitsAt(s, S, LoF("reliable", s.disc, c), DelF("reliable", s.del, c), HiF("reliable", s.seq, c))
      BY DEF Fits, LoF, DelF, HiF
    <3>3. FitsAt(t, S, LoF("reliable", s.disc, b + 1), DelF("reliable", s.del, b + 1), HiF("reliable", s.seq, b + 1))
      BY <1>1, <2>2, <3>1, <3>2, OverFits
    <3> QED
      BY <3>3 DEF LoF, DelF, HiF
  <2> QED
    BY <1>1, <2>1, <2>2
<1> HIDE DEF t
<1> QED
  BY <1>2, <1>3, <1>4 DEF Fits, Keeps

LEMMA DeliverAgreedFits ==
  ASSUME load \in Loads, NEW s, NEW P, Counters(s, P), NEW S, Fits(s, S)
  PROVE  /\ Fits(DeliverAgreed(s), S) /\ DeliverAgreed(s).disc = s.disc
         /\ DeliverAgreed(s).down = s.down
<1> DEFINE Waits(i) == Exist(s, i) = 1 /\ Service(PacketAt(s, i)) = "safe"
           T == {a \in s.del..Greater(s.del, s.myAru) : \A i \in (s.del + 1)..a : ~Waits(i)}
           upto == Max(T)
           a == s.del + 1
           t == Over("agreed", s, s.del + 1, upto)
           u == DeliverAgreed(s)
<1>1. /\ DOMAIN s = Fields /\ s.del \in Nat /\ s.disc <= s.del /\ Greater(s.del, s.myAru) = s.myAru
      /\ s.myAru \in Nat /\ s.del <= s.myAru /\ s.myAru <= s.seq /\ s.disc \in Nat /\ s.seq \in Nat
      /\ a \in Int
  BY DEF Counters, Greater
<1>2. upto \in s.del..s.myAru
  <2>1. T \in SUBSET (s.del..s.myAru)
    BY <1>1
  <2>2. s.del \in T
    BY <1>1
  <2> HIDE DEF T
  <2>3. s.del \in Int /\ s.myAru \in Int
    BY <1>1
  <2> QED
    BY <2>1, <2>2, <2>3, MaxIsIn
<1>3. u = [t EXCEPT !.del = upto]
  BY DEF DeliverAgreed
<1>0. t = Over("agreed", s, a, upto) /\ a = s.del + 1
  OBVIOUS
<1> HIDE DEF u, upto, T, a, t
<1>4. upto \in Int
  BY <1>2
<1>5. Keeps(s, t)
  BY <1>0, <1>1, <1>4, OverKeeps
<1>6. FitsAt(t, S, s.disc, upto, s.seq)
  <2>1. CASE upto < a
    <3>1. t = s /\ upto = s.del
      BY <1>0, <1>1, <1>2, <2>1 DEF Over
    <3> QED
      BY <3>1 DEF Fits
  <2>2. CASE a <= upto
    <3>1. \A i \in a..upto : Takes("agreed", s, S, s.disc, s.del, s.seq, i)
      BY <1>0, <1>1, <1>2 DEF Takes, Fits
    <3>2. a - 1 = s.del /\ upto + 1 - 1 = upto
      BY <1>0, <1>1, <1>4
    <3>3. FitsAt(s, S, LoF("agreed", s.disc, a), DelF("agreed", s.del, a), HiF("agreed", s.seq, a))
      BY <3>2 DEF Fits, LoF, DelF, HiF
    <3>4. FitsAt(t, S, LoF("agreed", s.disc, upto + 1), DelF("agreed", s.del, upto + 1), HiF("agreed", s.seq, upto + 1))
      BY <1>0, <1>1, <1>4, <2>2, <3>1, <3>3, OverFits
    <3>5. LoF("agreed", s.disc, upto + 1) = s.disc /\ HiF("agreed", s.seq, upto + 1) = s.seq
      BY DEF LoF, HiF
    <3>6. DelF("agreed", s.del, upto + 1) = upto + 1 - 1
      BY <1>1, <1>4 DEF DelF, Greater
    <3> QED
      BY <3>2, <3>4, <3>5, <3>6
  <2> QED
    BY <1>1, <1>4, <2>1, <2>2
<1>7. /\ u.del = upto /\ u.disc = s.disc /\ u.seq = s.seq /\ u.slot = t.slot /\ u.part = t.part
      /\ u.dead = t.dead /\ u.myAru = t.myAru /\ DOMAIN u = Fields /\ u.down = s.down
  BY <1>1, <1>3, <1>5 DEF Keeps, Fields
<1>8. FitsAt(u, S, s.disc, upto, s.seq)
  BY <1>6, <1>7 DEF FitsAt, SlotsHold, Exist
<1> QED
  BY <1>7, <1>8 DEF Fits, u

LEMMA DiscardPacketsFits ==
  ASSUME load \in Loads, NEW s, NEW P, Counters(s, P), s.aru <= s.myAru, NEW S, Fits(s, S)
  PROVE  /\ Fits(DiscardPackets(s), S) /\ DiscardPackets(s).disc = s.aru
         /\ DiscardPackets(s).down = s.down
<1> DEFINE a == s.disc + 1
           t == Over("discard", s, s.disc + 1, s.aru)
           u == DiscardPackets(s)
<1>1. /\ DOMAIN s = Fields /\ s.del \in Nat /\ s.disc <= s.del /\ s.disc <= s.aru /\ s.aru \in Nat
      /\ s.myAru \in Nat /\ s.del <= s.myAru /\ s.myAru <= s.seq /\ s.disc \in Nat /\ s.seq \in Nat
  BY DEF Counters
<1>2. CASE s.aru <= s.disc
  BY <1>1, <1>2 DEF DiscardPackets
<1>3. CASE ~(s.aru <= s.disc)
  <2>1. u = [t EXCEPT !.disc = s.aru, !.del = Greater(@, s.aru)]
    BY <1>3 DEF DiscardPackets
  <2>0. t = Over("discard", s, a, s.aru) /\ a = s.disc + 1
    OBVIOUS
  <2> HIDE DEF u, t, a
  <2>2. a \in Int /\ s.aru \in Int /\ a <= s.aru /\ a - 1 = s.disc /\ s.aru + 1 - 1 = s.aru
    BY <1>1, <1>3, <2>0
  <2>3. Keeps(s, t)
    BY <1>1, <2>0, <2>2, OverKeeps
  <2>4. FitsAt(t, S, s.aru, Greater(s.del, s.aru), s.seq)
    <3>1. \A i \in a..s.aru : Takes("discard", s, S, s.disc, s.del, s.seq, i)
      BY <1>1, <2>0 DEF Takes, Fits
    <3>2. Greater(s.del, a - 1) = s.del
      BY <1>1, <2>2 DEF Greater
    <3>3. FitsAt(s, S, LoF("discard", s.disc, a), DelF("discard", s.del, a), HiF("discard", s.seq, a))
      BY <2>2, <3>2 DEF Fits, LoF, DelF, HiF
    <3>4. FitsAt(t, S, LoF("discard", s.disc, s.aru + 1), DelF("discard", s.del, s.aru + 1), HiF("discard", s.seq, s.aru + 1))
      BY <1>1, <2>0, <2>2, <3>1, <3>3, OverFits
    <3>5. /\ LoF("discard", s.disc, s.aru + 1) = s.aru /\ HiF("discard", s.seq, s.aru + 1) = s.seq
          /\ DelF("discard", s.del, s.aru + 1) = Greater(s.del, s.aru)
      BY <2>2 DEF LoF, DelF, HiF
    <3> QED
      BY <3>4, <3>5
  <2>5. /\ u.disc = s.aru /\ u.del = Greater(s.del, s.aru) /\ u.seq = s.seq /\ u.slot = t.slot
        /\ u.part = t.part /\ u.dead = t.dead /\ u.myAru = t.myAru /\ DOMAIN u = Fields /\ u.down = s.down
    BY <1>1, <2>1, <2>3 DEF Keeps, Fields
  <2>6. FitsAt(u, S, s.aru, Greater(s.del, s.aru), s.seq)
    BY <2>4, <2>5 DEF FitsAt, SlotsHold, Exist
  <2>7. Within(S, s.aru, s.seq)
    <3>1. Within(S, s.disc, s.seq) /\ Slots \in Nat
      BY RingAssumption DEF Fits
    <3>2. Len(S) \in Nat
      BY <3>1 DEF Within, SentInTurn
    <3> QED
      BY <1>1, <3>1, <3>2 DEF Within
  <2> QED
    BY <2>5, <2>6, <2>7 DEF Fits, u
<1> QED
  BY <1>2, <1>3

\* More packets are sent than a daemon knows of.
LEMMA FitsMore ==
  ASSUME NEW s, NEW P, Counters(s, P), NEW S, Fits(s, S), NEW R, Within(R, s.disc, s.seq),
         Len(S) <= Len(R), \A i \in 1..Len(S) : R[i] = S[i]
  PROVE  Fits(s, R)
<1>0. /\ s.disc \in Nat /\ s.del \in Nat /\ s.seq \in Nat /\ s.del <= s.seq /\ s.disc <= s.del
      /\ s.seq <= Len(S) /\ SentInTurn(S) /\ Len(S) \in Nat /\ Len(R) \in Nat
  BY DEF Counters, Fits, Within, SentInTurn
<1>1. FitsAt(s, S, s.disc, s.del, s.seq)
  BY DEF Fits
<1>2. SlotsHold(s, ToSet(R), s.disc + 1, s.seq)
  <2>1. ToSet(S) \subseteq ToSet(R)
    <3>1. \A i \in DOMAIN S : i \in DOMAIN R /\ R[i] = S[i]
      BY <1>0 DEF SentInTurn, Within
    <3> QED
      BY <3>1 DEF ToSet
  <2>2. s.disc + 1 \in Int /\ s.seq \in Int /\ s.seq <= s.seq
    BY <1>0
  <2>3. SlotsHold(s, ToSet(S), s.disc + 1, s.seq)
    BY <1>1 DEF FitsAt
  <2> QED
    BY <2>1, <2>2, <2>3, SlotsMore
<1>3. \A q \in 1..N : PartIs(R, q, s.del, s.part[q])
  <2> TAKE q \in 1..N
  <2>1. PartIs(S, q, s.del, s.part[q])
    BY <1>1 DEF FitsAt
  <2>2. \A i \in 1..s.del : R[i].from = S[i].from /\ R[i].index = S[i].index
    BY <1>0
  <2> QED
    BY <1>0, <2>1, <2>2, PartSame
<1>4. \A i \in (s.del + 1)..s.seq : Exist(s, i) = 2 => Single(R[i])
  <2>1. \A i \in (s.del + 1)..s.seq : R[i] = S[i]
    BY <1>0
  <2> QED
    BY <1>1, <2>1 DEF FitsAt
<1> QED
  BY <1>1, <1>2, <1>3, <1>4 DEF Fits, FitsAt

--------------------------------------------------------------------------------
(* The Down queues, and the order packets leave them in *)

\* What d has still to send, once S was sent: the rest of a message it began, then whole
\* messages, their packets one after another.
DownInTurn(d, S, down) ==
  /\ down \in Seq(Packet)
  /\ \A j \in 1..Len(down) : down[j].from = d
  /\ \A j \in 2..Len(down) : Turn(down[j]) = Rest(down[j - 1])
  /\ down # <<>> => PartIs(S, d, Len(S), Turn(down[1])) /\ Rest(down[Len(down)]) = 0
  /\ down = <<>> => PartIs(S, d, Len(S), 0)

\* Packets of other daemons leave what is unfinished of e alone.
LEMMA PartOthers ==
  ASSUME NEW S, NEW e, NEW n \in Nat, NEW k, PartIs(S, e, n, k), NEW m \in Nat, n <= m,
         \A i \in (n + 1)..m : S[i].from # e
  PROVE  PartIs(S, e, m, k)
<1>1. \A i \in 1..m : i \in 1..n \/ i \in (n + 1)..m
  OBVIOUS
<1>2. CASE (\A i \in 1..n : S[i].from # e) /\ k = 0
  BY <1>1, <1>2 DEF PartIs
<1>3. ASSUME NEW i \in 1..n, S[i].from = e, k = Rest(S[i]), \A j \in (i + 1)..n : S[j].from # e
      PROVE  PartIs(S, e, m, k)
  <2>1. i \in 1..m /\ \A j \in (i + 1)..m : j \in (i + 1)..n \/ j \in (n + 1)..m
    OBVIOUS
  <2>2. \A j \in (i + 1)..m : S[j].from # e
    BY <1>3, <2>1
  <2> QED
    BY <1>3, <2>1, <2>2 DEF PartIs
<1> QED
  BY <1>2, <1>3 DEF PartIs

\* The first k packets of d's queue, with the numbers that follow those of S.
Renumbered(S, down, k) == [j \in 1..k |-> [down[j] EXCEPT !.seq = Len(S) + j]]

\* R is S and then those k packets; the queues of daemons other than d go on fitting.
More(S, down, k, R) ==
  /\ SentInTurn(R) /\ Len(R) = Len(S) + k /\ \A i \in 1..Len(S) : R[i] = S[i]
  /\ \A j \in 1..k : R[Len(S) + j] = [down[j] EXCEPT !.seq = Len(S) + j]
OthersInTurn(d, S, R) == \A e, queue : e # d /\ DownInTurn(e, S, queue) => DownInTurn(e, R, queue)

LEMMA SentMore ==
  ASSUME NEW S, SentInTurn(S), NEW d \in 1..N, NEW down, DownInTurn(d, S, down),
         NEW k \in 0..Len(down), NEW R, R = S \o Renumbered(S, down, k)
  PROVE  /\ More(S, down, k, R) /\ OthersInTurn(d, S, R)
         /\ DownInTurn(d, R, SubSeq(down, k + 1, Len(down)))
<1> DEFINE m == Len(S)
           new == Renumbered(S, down, k)
<1>1. S \in Seq(Packet) /\ m \in Nat /\ down \in Seq(Packet) /\ Len(down) \in Nat /\ k \in Nat
  BY DEF SentInTurn, DownInTurn
<1>2. \A j \in 1..k : /\ down[j] \in Packet /\ new[j] = [down[j] EXCEPT !.seq = m + j] /\ new[j] \in Packet
                      /\ new[j].from = d /\ new[j].index = down[j].index /\ new[j].seq = m + j
                      /\ j \in 1..Len(down)
  <2> SUFFICES ASSUME NEW j \in 1..k
               PROVE  /\ down[j] \in Packet /\ new[j] = [down[j] EXCEPT !.seq = m + j] /\ new[j] \in Packet
                      /\ new[j].from = d /\ new[j].index = down[j].index /\ new[j].seq = m + j
                      /\ j \in 1..Len(down)
    OBVIOUS
  <2>1. j \in 1..Len(down) /\ m + j \in Nat
    BY <1>1
  <2>2. down[j] \in Packet /\ down[j].from = d
    BY <1>1, <2>1 DEF DownInTurn
  <2>3. new[j] = [down[j] EXCEPT !.seq = m + j]
    BY DEF Renumbered
  <2> HIDE DEF new, m
  <2> QED
    BY <2>1, <2>2, <2>3 DEF Packet
<1>3. new \in Seq(Packet) /\ Len(new) = k
  <2>1. new = [j \in 1..k |-> new[j]]
    BY DEF Renumbered
  <2> HIDE DEF new
  <2>2. new \in [1..k -> Packet]
    BY <1>2, <2>1
  <2> QED
    BY <1>1, <2>2
<1>0. R = S \o new
  OBVIOUS
<1> HIDE DEF new
<1>4. R \in Seq(Packet) /\ Len(R) = m + k /\ \A i \in 1..m : R[i] = S[i]
  <2>1. S \in Seq(Packet) /\ new \in Seq(Packet) /\ Len(new) = k
    BY <1>1, <1>3
  <2>2. R \in Seq(Packet) /\ Len(R) = Len(S) + Len(new)
    <3>1. S \o new \in Seq(Packet)
      BY ONLY <2>1
    <3>2. Len(S \o new) = Len(S) + Len(new)
      BY ONLY <2>1
    <3> QED
      BY <1>0, <3>1, <3>2
  <2>3. \A i \in 1..Len(S) : R[i] = S[i]
    BY ONLY <1>0, <2>1
  <2> QED
    BY <2>1, <2>2, <2>3
<1>5. \A j \in 1..k : R[m + j] = new[j]
  <2> TAKE j \in 1..k
  <2>1. m + j \in 1..(m + k) /\ ~(m + j <= m) /\ m + j - m = j
    BY <1>1
  <2> QED
    BY <1>0, <1>1, <1>3, <2>1
<1>6. \A i \in (m + 1)..(m + k) : i - m \in 1..k /\ m + (i - m) = i
  BY <1>1
<1> HIDE DEF m
<1>7. \A i \in (m + 1)..(m + k) : R[i].from = d /\ R[i].seq = i /\ R[i].index = down[i - m].index
  <2> TAKE i \in (m + 1)..(m + k)
  <2> DEFINE j == i - m
  <2>1. j \in 1..k /\ m + j = i
    BY <1>6
  <2> HIDE DEF j
  <2>2. R[m + j] = new[j] /\ new[j].from = d /\ new[j].seq = m + j /\ new[j].index = down[j].index
    BY <1>2, <1>5, <2>1 DEF m
  <2> QED
    BY <2>1, <2>2 DEF j
\* After each packet the one behind it is next.
<1>8. \A q, n, l : n \in 0..m /\ PartIs(S, q, n, l) => PartIs(R, q, n, l)
  <2> SUFFICES ASSUME NEW q, NEW n \in 0..m, NEW l, PartIs(S, q, n, l) PROVE PartIs(R, q, n, l)
    OBVIOUS
  <2>1. n \in Nat /\ \A i \in 1..n : R[i].from = S[i].from /\ R[i].index = S[i].index
    <3>1. n \in Nat /\ \A i \in 1..n : i \in 1..m
      BY <1>1 DEF m
    <3> QED
      BY <1>4, <3>1 DEF m
  <2> QED
    BY <2>1, PartSame
<1>9. ASSUME NEW i \in (m + 1)..(m + k) PROVE PartIs(R, d, i, Rest(down[i - m]))
  <2>1. i \in 1..i /\ R[i].from = d /\ (\A j \in (i + 1)..i : R[j].from # d)
    <3>1. i \in 1..i /\ \A j \in (i + 1)..i : FALSE
      BY <1>1 DEF m
    <3> QED
      BY <1>7, <3>1
  <2>2. Rest(R[i]) = Rest(down[i - m])
    BY <1>7 DEF Rest
  <2> QED
    BY <2>1, <2>2 DEF PartIs
<1>10. ASSUME NEW i \in (m + 1)..(m + k) PROVE PartIs(R, d, i - 1, Turn(R[i]))
  <2>1. Turn(R[i]) = Turn(down[i - m])
    BY <1>7 DEF Turn
  <2>2. CASE i = m + 1
    <3>1. i - 1 = m /\ i - m = 1 /\ m \in 0..m /\ down # <<>>
      BY <1>1, <1>6, <2>2
    <3>2. PartIs(S, d, m, Turn(down[1]))
      BY <3>1 DEF DownInTurn, m
    <3> QED
      BY <1>8, <2>1, <3>1, <3>2
  <2>3. CASE i # m + 1
    <3>1. i - 1 \in (m + 1)..(m + k) /\ i - m \in 2..Len(down) /\ i - 1 - m = i - m - 1
      BY <1>1, <1>6, <2>3
    <3>2. Turn(down[i - m]) = Rest(down[i - 1 - m])
      BY <3>1 DEF DownInTurn
    <3>3. PartIs(R, d, i - 1, Rest(down[i - 1 - m]))
      BY <1>9, <3>1
    <3> QED
      BY <2>1, <3>2, <3>3
  <2> QED
    BY <2>2, <2>3
<1>11. SentInTurn(R)
  <2> SUFFICES ASSUME NEW i \in 1..Len(R)
               PROVE  R[i].seq = i /\ R[i].from \in 1..N /\ PartIs(R, R[i].from, i - 1, Turn(R[i]))
    BY <1>4 DEF SentInTurn
  <2>1. CASE i \in 1..m
    <3>1. R[i] = S[i] /\ i - 1 \in 0..m
      BY <1>1, <1>4, <2>1
    <3>2. S[i].seq = i /\ S[i].from \in 1..N /\ PartIs(S, S[i].from, i - 1, Turn(S[i]))
      BY <2>1 DEF SentInTurn, m
    <3> QED
      BY <1>8, <3>1, <3>2
  <2>2. CASE i \in (m + 1)..(m + k)
    BY <1>7, <1>10, <2>2
  <2> QED
    BY <1>1, <1>4, <2>1, <2>2
<1>12. \A e, queue : e # d /\ DownInTurn(e, S, queue) => DownInTurn(e, R, queue)
  <2> SUFFICES ASSUME NEW e, NEW queue, e # d, DownInTurn(e, S, queue) PROVE DownInTurn(e, R, queue)
    OBVIOUS
  <2>1. \A l : PartIs(S, e, m, l) => PartIs(R, e, m + k, l)
    <3> SUFFICES ASSUME NEW l, PartIs(S, e, m, l) PROVE PartIs(R, e, m + k, l)
      OBVIOUS
    <3>1. PartIs(R, e, m, l)
      BY <1>1, <1>8
    <3>2. \A i \in (m + 1)..(m + k) : R[i].from # e
      BY <1>7
    <3>3. m + k \in Nat /\ m <= m + k
      BY <1>1
    <3> QED
      BY <1>1, <3>1, <3>2, <3>3, PartOthers
  <2> QED
    BY <1>4, <2>1 DEF DownInTurn, m
<1>13. DownInTurn(d, R, SubSeq(down, k + 1, Len(down)))
  <2> DEFINE rest == SubSeq(down, k + 1, Len(down))
  <2>1. /\ rest \in Seq(Packet) /\ Len(rest) = Len(down) - k
        /\ \A j \in 1..Len(rest) : rest[j] = down[k + j] /\ k + j \in 1..Len(down)
    BY <1>1
  <2> HIDE DEF rest
  <2>2. \A j \in 1..Len(rest) : rest[j].from = d
    BY <2>1 DEF DownInTurn
  <2>3. \A j \in 2..Len(rest) : Turn(rest[j]) = Rest(rest[j - 1])
    <3> TAKE j \in 2..Len(rest)
    <3>1. j \in 1..Len(rest) /\ j - 1 \in 1..Len(rest) /\ k + j \in 2..Len(down) /\ k + j - 1 = k + (j - 1)
      BY <1>1, <2>1
    <3>2. Turn(down[k + j]) = Rest(down[k + j - 1])
      BY <3>1 DEF DownInTurn
    <3> QED
      BY <2>1, <3>1, <3>2
  <2>4. k # 0 => PartIs(R, d, m + k, Rest(down[k]))
    <3> SUFFICES ASSUME k # 0 PROVE PartIs(R, d, m + k, Rest(down[k]))
      OBVIOUS
    <3> DEFINE i == m + k
    <3>1. i \in (m + 1)..(m + k) /\ i - m = k
      BY <1>1 DEF m
    <3> HIDE DEF i
    <3>2. PartIs(R, d, i, Rest(down[i - m]))
      BY <1>9, <3>1
    <3> QED
      BY <3>1, <3>2 DEF i
  <2>5. ASSUME rest # <<>> PROVE PartIs(R, d, m + k, Turn(rest[1])) /\ Rest(rest[Len(rest)]) = 0
    <3>1. 1 \in 1..Len(rest) /\ Len(rest) \in 1..Len(rest) /\ k + Len(rest) = Len(down) /\ down # <<>>
      BY <1>1, <2>1, <2>5
    <3>2. rest[1] = down[k + 1] /\ rest[Len(rest)] = down[Len(down)] /\ k + 1 \in 1..Len(down)
      BY <2>1, <3>1
    <3>3. Rest(down[Len(down)]) = 0 /\ PartIs(S, d, m, Turn(down[1]))
      BY <3>1 DEF DownInTurn, m
    <3>4. CASE k = 0
      <4>1. m + k = m /\ m \in 0..m /\ k + 1 = 1
        BY <1>1, <3>4
      <4> QED
        BY <1>8, <3>2, <3>3, <4>1
    <3>5. CASE k # 0
      <4>1. k + 1 \in 2..Len(down) /\ k + 1 - 1 = k
        BY <1>1, <3>2, <3>5
      <4>2. Turn(down[k + 1]) = Rest(down[k])
        BY <4>1 DEF DownInTurn
      <4> QED
        BY <2>4, <3>2, <3>3, <3>5, <4>2
    <3> QED
      BY <3>4, <3>5
  <2>6. ASSUME rest = <<>> PROVE PartIs(R, d, m + k, 0)
    <3>1. k = Len(down)
      BY <1>1, <2>1, <2>6
    <3>2. CASE k = 0
      <4>1. m + k = m /\ m \in 0..m
        BY <1>1, <3>2 DEF m
      <4>3. down = <<>>
        <5>1. Len(down) = 0 /\ down \in Seq(Packet)
          BY <1>1, <3>1, <3>2
        <5> QED
          BY ONLY <5>1
      <4>2. PartIs(S, d, m, 0)
        BY <4>3 DEF DownInTurn, m
      <4> QED
        BY <1>8, <4>1, <4>2
    <3>3. CASE k # 0
      <4>1. down # <<>>
        BY <1>1, <3>1, <3>3
      <4>2. Rest(down[k]) = 0
        BY <3>1, <4>1 DEF DownInTurn
      <4> QED
        BY <2>4, <3>3, <4>2
    <3> QED
      BY <3>2, <3>3
  <2>7. DownInTurn(d, R, rest)
    BY <1>4, <2>1, <2>2, <2>3, <2>5, <2>6 DEF DownInTurn
  <2> QED
    BY <2>7 DEF rest
<1> QED
  BY <1>2, <1>4, <1>5, <1>11, <1>12, <1>13 DEF m, More, OthersInTurn

LEMMA PacketsOfFacts ==
  ASSUME load \in Loads, NEW d \in Daemons, NEW n \in DOMAIN load[d]
  PROVE  PacketsOf(d, n) \in Seq(Packet)
<1>1. N \in Nat \ {0} /\ Daemons = 1..N /\ d \in Nat
  BY LoadFacts
<1>2. load[d][n].size \in Nat /\ n \in Nat
  BY RingAssumption DEF Daemons
<1>3. \A k \in 1..load[d][n].size :
        [from |-> d, n |-> n, index |-> IF k = load[d][n].size THEN -k ELSE k, seq |-> 0] \in Packet
  BY <1>1, <1>2 DEF Packet
<1> QED
  BY <1>2, <1>3 DEF PacketsOf

\* A session's message goes behind those that wait.
LEMMA DownPlus ==
  ASSUME load \in Loads, NEW d \in Daemons, NEW n \in DOMAIN load[d], NEW S, NEW down, DownInTurn(d, S, down)
  PROVE  DownInTurn(d, S, down \o PacketsOf(d, n))
<1> DEFINE size == load[d][n].size
           new == PacketsOf(d, n)
           all == down \o new
<1>1. size \in Nat \ {0} /\ new \in Seq(Packet) /\ down \in Seq(Packet) /\ Len(down) \in Nat
  BY PacketsOfFacts, RingAssumption DEF Daemons, DownInTurn
<1>2. Len(new) = size /\ \A j \in 1..size : new[j].from = d /\ new[j].index = IF j = size THEN -j ELSE j
  BY <1>1 DEF PacketsOf
<1> HIDE DEF size, new
<1>3. \A j \in 1..size : Turn(new[j]) = j - 1 /\ Rest(new[j]) = IF j = size THEN 0 ELSE j
  <2> TAKE j \in 1..size
  <2>1. CASE j = size
    <3> DEFINE x == new[j].index
    <3>1. x + j = 0 /\ j > 0 /\ j \in Int /\ x = 0 - j
      BY <1>1, <1>2, <2>1
    <3> HIDE DEF x
    <3>2. x < 0 /\ -x = j
      BY <3>1
    <3>3. Turn(new[j]) = -x - 1 /\ Rest(new[j]) = 0
      BY <3>2 DEF Turn, Rest, x
    <3> QED
      BY <2>1, <3>1, <3>2, <3>3
  <2>2. CASE j # size
    BY <1>1, <1>2, <2>2 DEF Turn, Rest
  <2> QED
    BY <2>1, <2>2
<1>4. /\ all \in Seq(Packet) /\ Len(all) = Len(down) + size /\ all # <<>>
      /\ \A j \in 1..Len(down) : all[j] = down[j]
      /\ \A j \in (Len(down) + 1)..Len(all) : all[j] = new[j - Len(down)] /\ j - Len(down) \in 1..size
  <2>1. all \in Seq(Packet) /\ Len(all) = Len(down) + size
    BY <1>1, <1>2
  <2>2. all # <<>>
    <3>1. Len(all) # 0
      BY <1>1, <2>1
    <3> QED
      BY <3>1
  <2>3. \A j \in 1..Len(down) : all[j] = down[j]
    BY <1>1
  <2>4. \A j \in (Len(down) + 1)..Len(all) : all[j] = new[j - Len(down)] /\ j - Len(down) \in 1..size
    BY <1>1, <1>2, <2>1
  <2> QED
    BY <2>1, <2>2, <2>3, <2>4
<1> HIDE DEF all
<1>5. \A j \in 1..Len(all) : all[j].from = d
  <2>1. \A j \in 1..Len(all) : j \in 1..Len(down) \/ j \in (Len(down) + 1)..Len(all)
    BY <1>1
  <2> QED
    BY <1>2, <1>4, <2>1 DEF DownInTurn
<1>6. \A j \in 2..Len(all) : Turn(all[j]) = Rest(all[j - 1])
  <2> TAKE j \in 2..Len(all)
  <2>1. CASE j <= Len(down)
    <3>1. j \in 2..Len(down) /\ j \in 1..Len(down) /\ j - 1 \in 1..Len(down)
      BY <1>1, <2>1
    <3> QED
      BY <1>4, <3>1 DEF DownInTurn
  <2>2. CASE j = Len(down) + 1
    <3>1. j - 1 = Len(down) /\ Len(down) \in 1..Len(down) /\ j \in (Len(down) + 1)..Len(all) /\ j - Len(down) = 1
          /\ down # <<>>
      BY <1>1, <2>2
    <3>2. Rest(all[j - 1]) = 0
      BY <1>4, <3>1 DEF DownInTurn
    <3>3. Turn(all[j]) = 1 - 1
      BY <1>3, <1>4, <3>1
    <3> QED
      BY <3>2, <3>3
  <2>3. CASE j > Len(down) + 1
    <3> DEFINE l == j - Len(down)
    <3>1. /\ j \in (Len(down) + 1)..Len(all) /\ j - 1 \in (Len(down) + 1)..Len(all)
          /\ l - 1 = j - 1 - Len(down) /\ l \in Int
      BY <1>1, <2>3
    <3>2. all[j] = new[l] /\ all[j - 1] = new[l - 1] /\ l \in 1..size /\ l - 1 \in 1..size
      BY <1>4, <3>1
    <3> HIDE DEF l
    <3>3. l - 1 # size
      BY <1>1, <3>2
    <3> QED
      BY <1>3, <3>2, <3>3
  <2> QED
    BY <1>1, <2>1, <2>2, <2>3
<1>7. PartIs(S, d, Len(S), Turn(all[1]))
  <2>1. CASE down = <<>>
    <3>1. Len(down) = 0 /\ 1 \in 1..size /\ 1 \in (0 + 1)..Len(all) /\ 1 - 0 = 1
      BY <1>1, <1>4, <2>1
    <3>2. Turn(all[1]) = 1 - 1
      BY <1>3, <1>4, <3>1
    <3> QED
      BY <2>1, <3>2 DEF DownInTurn
  <2>2. CASE down # <<>>
    <3>1. 1 \in 1..Len(down)
      BY <1>1, <2>2
    <3> QED
      BY <1>4, <2>2, <3>1 DEF DownInTurn
  <2> QED
    BY <2>1, <2>2
<1>8. Rest(all[Len(all)]) = 0
  <2>1. Len(all) \in (Len(down) + 1)..Len(all) /\ Len(all) - Len(down) = size /\ size \in 1..size
    BY <1>1, <1>4
  <2> QED
    BY <1>3, <1>4, <2>1
<1>9. DownInTurn(d, S, all)
  BY <1>4, <1>5, <1>6, <1>7, <1>8 DEF DownInTurn
<1> QED
  BY <1>9 DEF all, new

--------------------------------------------------------------------------------
(* What a visit does to a daemon's packets *)

LEMMA SendNewPacketsFits ==
  ASSUME load \in Loads, NEW s, NEW P, Counters(s, P), NEW S, Fits(s, S), s.seq = Len(S),
         NEW k \in 0..Len(s.down), NEW R, More(S, s.down, k, R), Len(R) <= s.disc + Slots
  PROVE  /\ Fits(SendNewPackets(s, k), R) /\ SendNewPackets(s, k).disc = s.disc
         /\ SendNewPackets(s, k).down = SubSeq(s.down, k + 1, Len(s.down))
         /\ SendNewPackets(s, k).seq = Len(R)
<1> DEFINE a == s.seq + 1
           b == s.seq + k
           t == Over("send", s, s.seq + 1, s.seq + k)
           u == SendNewPackets(s, k)
<1>0. /\ SentInTurn(R) /\ Len(R) = Len(S) + k /\ \A i \in 1..Len(S) : R[i] = S[i]
      /\ \A j \in 1..k : R[Len(S) + j] = [s.down[j] EXCEPT !.seq = Len(S) + j]
  BY DEF More
<1>1. /\ s.seq \in Nat /\ s.down \in Seq(Packet) /\ k \in Nat /\ DOMAIN s = Fields
      /\ s.disc \in Nat /\ s.del \in Nat /\ s.myAru \in Nat /\ s.disc <= s.del /\ s.del <= s.myAru
      /\ s.myAru <= s.seq /\ a \in Int /\ b \in Int /\ b = Len(R) /\ Slots \in Nat
      /\ a - 1 = s.seq /\ b + 1 - 1 = b
  BY <1>0, RingAssumption DEF Counters
<1>2. u = [t EXCEPT !.seq = @ + k, !.down = SubSeq(@, k + 1, Len(@))]
  BY DEF SendNewPackets
<1>10. t = Over("send", s, a, b) /\ a = s.seq + 1 /\ b = s.seq + k
  OBVIOUS
<1> HIDE DEF u, t, a, b
<1>3. Keeps(s, t)
  BY <1>10, <1>1, OverKeeps
<1>4. Within(R, s.disc, s.seq)
  <2>1. s.seq <= Len(R)
    BY <1>0, <1>1
  <2> QED
    BY <1>1, <1>0, <2>1 DEF Within
<1>5. Fits(s, R)
  <2>1. Len(S) <= Len(R)
    BY <1>0, <1>1
  <2> QED
    BY <1>4, <1>0, <2>1, FitsMore
<1>6. FitsAt(t, R, s.disc, s.del, b)
  <2>1. CASE b < a
    <3>1. t = s
      BY <1>10, <2>1 DEF Over
    <3>2. b = s.seq
      BY ONLY <1>1, <1>10, <2>1
    <3> QED
      BY <1>5, <3>1, <3>2 DEF Fits
  <2>2. CASE a <= b
    <3>1. \A i \in a..b : Takes("send", s, R, s.disc, s.del, s.seq, i)
      <4> TAKE i \in a..b
      <4> DEFINE j == i - s.seq
      <4>1. j \in 1..k /\ Len(S) + j = i /\ i \in (s.seq + 1)..Len(R) /\ i \in Int
        BY <1>10, <1>1
      <4>2. Numbered(s, i) = [s.down[j] EXCEPT !.seq = i]
        BY DEF Numbered
      <4> HIDE DEF j
      <4>3. Numbered(s, i) = R[i]
        BY <1>0, <4>1, <4>2
      <4> QED
        BY <1>1, <1>4, <4>1, <4>3 DEF Takes
    <3>2. FitsAt(s, R, LoF("send", s.disc, a), DelF("send", s.del, a), HiF("send", s.seq, a))
      BY <1>1, <1>5 DEF Fits, LoF, DelF, HiF
    <3>3. FitsAt(t, R, LoF("send", s.disc, b + 1), DelF("send", s.del, b + 1), HiF("send", s.seq, b + 1))
      BY <1>10, <1>1, <2>2, <3>1, <3>2, OverFits
    <3>4. LoF("send", s.disc, b + 1) = s.disc /\ DelF("send", s.del, b + 1) = s.del
      BY DEF LoF, DelF
    <3>5. HiF("send", s.seq, b + 1) = b
      BY <1>1 DEF HiF
    <3> QED
      BY <3>3, <3>4, <3>5
  <2> QED
    BY <1>1, <2>1, <2>2
<1>7. /\ u.seq = b /\ u.down = SubSeq(s.down, k + 1, Len(s.down)) /\ u.disc = s.disc /\ u.del = s.del
      /\ u.slot = t.slot /\ u.part = t.part /\ u.dead = t.dead /\ u.myAru = t.myAru /\ DOMAIN u = Fields
  BY <1>10, <1>1, <1>2, <1>3 DEF Keeps, Fields
<1>8. FitsAt(u, R, s.disc, s.del, b)
  BY <1>6, <1>7 DEF FitsAt, SlotsHold, Exist
<1>9. Within(R, s.disc, b)
  <2>1. b \in Nat /\ b <= Len(R)
    BY <1>10, <1>1
  <2> QED
    BY <1>1, <1>0, <2>1 DEF Within
<1> QED
  BY <1>1, <1>7, <1>8, <1>9 DEF Fits, u

LEMMA AdvanceAruFits ==
  ASSUME NEW s, NEW P, Counters(s, P), NEW S, Fits(s, S)
  PROVE  Fits(AdvanceAru(s), S) /\ AdvanceAru(s).disc = s.disc /\ AdvanceAru(s).down = s.down
<1> DEFINE T == {a \in s.myAru..Greater(s.myAru, s.seq) : \A i \in (s.myAru + 1)..a : Exist(s, i) # 0}
           m == Max(T)
           u == AdvanceAru(s)
<1>1. /\ s.myAru \in Int /\ s.seq \in Int /\ Greater(s.myAru, s.seq) = s.seq /\ s.myAru <= s.seq
      /\ s.disc \in Nat /\ DOMAIN s = Fields
  BY DEF Counters, Greater
<1>2. m \in s.myAru..s.seq /\ \A i \in (s.myAru + 1)..m : Exist(s, i) # 0
  <2>1. T \in SUBSET (s.myAru..s.seq)
    BY <1>1
  <2>2. s.myAru \in T
    BY <1>1
  <2>3. m \in T
    <3> HIDE DEF T
    <3> QED
      BY <1>1, <2>1, <2>2, MaxIsIn
  <2> QED
    BY <1>1, <2>3
<1>3. u = [s EXCEPT !.myAru = m]
  BY DEF AdvanceAru
<1> HIDE DEF m, u, T
<1>4. /\ DOMAIN u = Fields /\ u.myAru = m /\ u.seq = s.seq /\ u.disc = s.disc /\ u.del = s.del
      /\ u.slot = s.slot /\ u.part = s.part /\ u.dead = s.dead /\ u.down = s.down
  BY <1>1, <1>3 DEF Fields
<1>5. \A i \in (s.disc + 1)..m : Exist(u, i) # 0
  <2>1. \A i \in (s.disc + 1)..m : i \in (s.disc + 1)..s.myAru \/ i \in (s.myAru + 1)..m
    BY <1>1, <1>2
  <2>2. \A i \in (s.disc + 1)..s.myAru : Exist(s, i) # 0
    BY DEF Fits, FitsAt
  <2> QED
    BY <1>2, <1>4, <2>1, <2>2 DEF Exist
<1>6. FitsAt(u, S, s.disc, s.del, s.seq)
  BY <1>4, <1>5 DEF Fits, FitsAt, SlotsHold, Exist
<1> QED
  BY <1>4, <1>6 DEF Fits, u

LEMMA AfterTokenFits ==
  ASSUME load \in Loads, NEW s, NEW P, Counters(s, P), NEW new, NEW setAru \in Nat \cup {-1},
         NEW counted \in Int, Between(s, new), NEW S, Fits(s, S),
         NEW u, u = AfterToken(s, new, setAru, counted)
  PROVE  Fits(u, S) /\ u.disc = u.aru /\ u.down = s.down
<1> DEFINE aru == Lesser(new.aru, s.last.aru)
           s1 == [s EXCEPT !.aru = aru, !.last = new, !.setAru = setAru,
                           !.count = IF s.seq = aru THEN Lesser(@ + 1, 2) ELSE 0]
           s2 == DiscardPackets(s1)
           s3 == DeliverAgreed(s2)
           s4 == DeliverReliable(s3, s.seq - counted + 1, s.seq)
<1>1. aru \in Nat
  BY DEF Between, Lesser
<1>2. /\ DOMAIN s1 = Fields /\ s1.aru = aru /\ s1.last = new /\ s1.setAru = setAru /\ s1.seq = s.seq
      /\ s1.myAru = s.myAru /\ s1.disc = s.disc /\ s1.del = s.del /\ s1.nSent = s.nSent
      /\ s1.accepted = s.accepted /\ s1.down = s.down /\ s1.slot = s.slot
      /\ s1.part = s.part /\ s1.dead = s.dead
  BY DEF Counters, Fields
<1>3. u = s4
  BY DEF AfterToken
<1>4. s.disc <= aru /\ aru <= s.myAru
  BY DEF Between
<1> HIDE DEF s1, aru
<1>5. SlotsHold(s1, P, s1.disc + 1, s1.seq)
  BY <1>2 DEF SlotsHold, Counters
<1>6. Counters(s1, P) /\ s1.aru <= s1.myAru
  BY <1>1, <1>2, <1>4, <1>5 DEF Counters
<1>7. Fits(s1, S)
  BY <1>2 DEF Fits, FitsAt, SlotsHold, Exist
<1>8. Counters(s2, P) /\ KeepsRing(s1, s2)
  BY <1>6, DiscardPacketsKeeps
<1>9. Fits(s2, S) /\ s2.disc = s1.aru /\ s2.down = s1.down
  BY <1>6, <1>7, DiscardPacketsFits
<1> HIDE DEF s2
<1>10. Counters(s3, P) /\ KeepsRing(s2, s3)
  BY <1>8, DeliverAgreedKeeps
<1>11. Fits(s3, S) /\ s3.disc = s2.disc /\ s3.down = s2.down
  BY <1>8, <1>9, DeliverAgreedFits
<1> HIDE DEF s3
<1>12. s.seq - counted + 1 \in Int /\ s.seq \in Int /\ s.seq <= s3.seq
  <2>1. s.seq \in Nat
    BY DEF Counters
  <2>2. s3.seq = s.seq
    BY <1>2, <1>8, <1>10 DEF KeepsRing
  <2> QED
    BY <2>1, <2>2
<1>13. Counters(s4, P) /\ KeepsRing(s3, s4)
  BY <1>10, <1>12, DeliverReliableKeeps
<1>14. Fits(s4, S) /\ s4.disc = s3.disc /\ s4.down = s3.down
  BY <1>10, <1>11, <1>12, DeliverReliableFits
<1> HIDE DEF s4
<1> QED
  BY <1>2, <1>3, <1>8, <1>9, <1>10, <1>11, <1>13, <1>14 DEF KeepsRing

LEMMA AllowedIsNat ==
  ASSUME NEW s, NEW fc \in Int
  PROVE  Allowed(s, fc) \in Nat
BY RingAssumption DEF Allowed, Lesser, Greater

\* Flow control keeps what is on its way within the slots of every daemon.
LEMMA SendBound ==
  ASSUME NEW s, s.seq \in Nat, s.aru \in Nat, s.down \in Seq(Packet), NEW fc \in Int, NEW per \in {1, PerSend},
         NEW k, k = PacketsSent(s, Allowed(s, fc), per)
  PROVE  k = 0 \/ s.seq + k <= s.aru + Slots
<1> DEFINE a == Allowed(s, fc)
<1>1. a \in Nat /\ (s.seq > s.aru + SeqGap => a = 0) /\ a <= Personal
  BY AllowedIsNat, RingAssumption DEF Allowed, Lesser, Greater
<1>2. k = IF a = 0 THEN 0 ELSE Lesser(Len(s.down), a * per + 1)
  BY DEF PacketsSent
<1> HIDE DEF a
<1>3. /\ per \in Nat /\ per <= PerSend /\ Personal \in Nat /\ PerSend \in Nat /\ SeqGap \in Nat /\ Slots \in Nat
      /\ Slots >= SeqGap + Personal * PerSend + 1 /\ s.seq \in Nat /\ s.aru \in Nat
  BY RingAssumption, SlotsSuffice
<1>4. a * per <= Personal * per
  BY <1>1, <1>3
<1>5. Personal * per <= Personal * PerSend
  BY <1>3
<1>6. a * per \in Nat /\ Personal * per \in Nat /\ Personal * PerSend \in Nat /\ Len(s.down) \in Nat
  BY <1>1, <1>3
<1> DEFINE x == a * per
           y == Personal * per
           z == Personal * PerSend
<1>7. x \in Nat /\ y \in Nat /\ z \in Nat /\ x <= y /\ y <= z /\ Slots >= SeqGap + z + 1
  BY <1>3, <1>4, <1>5, <1>6
<1>8. k = IF a = 0 THEN 0 ELSE Lesser(Len(s.down), x + 1)
  BY <1>2
<1> HIDE DEF x, y, z
<1>9. CASE a # 0
  <2>1. k <= x + 1 /\ k \in Nat
    BY <1>6, <1>7, <1>8, <1>9 DEF Lesser
  <2>2. s.seq <= s.aru + SeqGap
    BY ONLY <1>1, <1>3, <1>9
  <2> QED
    BY <1>3, <1>7, <2>1, <2>2
<1> QED
  BY <1>8, <1>9

\* sD is q's record s once it knows of all that was sent; k of its packets may leave.
Ready(q, S, s, sD, k) ==
  /\ Fits(s, S) /\ DownInTurn(q, S, s.down) /\ s.disc = s.aru
  /\ sD.seq = Len(S) /\ sD.slot = s.slot /\ sD.part = s.part /\ sD.dead = FALSE
  /\ sD.myAru = s.myAru /\ sD.disc = s.disc /\ sD.del = s.del /\ sD.down = s.down
  /\ k \in 0..Len(s.down) /\ (k = 0 \/ Len(S) + k <= s.aru + Slots)

\* Send_new_packets: the packets in the slots, what is unfinished and the Down queues go on
\* fitting what was sent.
LEMMA TurnFits ==
  ASSUME load \in Loads, NEW q \in 1..N, NEW P, NEW S, NEW s, Counters(s, P), NEW sD, Counters(sD, P),
         NEW k, Ready(q, S, s, sD, k), NEW R, R = S \o NewPackets(sD, k), NEW sS, sS = SendNewPackets(sD, k)
  PROVE  /\ More(S, s.down, k, R) /\ OthersInTurn(q, S, R) /\ DownInTurn(q, R, sS.down) /\ Fits(sS, R)
<1>1. /\ SentInTurn(S) /\ Len(S) \in Nat /\ s.disc \in Nat /\ s.seq \in Nat /\ s.seq <= Len(S) /\ k \in Nat
      /\ Len(S) <= s.disc + Slots /\ s.del \in Nat /\ s.disc <= s.del /\ DOMAIN sD = Fields
      /\ Within(S, s.disc, s.seq) /\ k \in 0..Len(s.down) /\ (k = 0 \/ Len(S) + k <= s.aru + Slots)
  BY DEF Ready, Fits, Within, Counters, SentInTurn
<1>2. R = S \o Renumbered(S, s.down, k) /\ k \in 0..Len(s.down) /\ DownInTurn(q, S, s.down)
  BY DEF Ready, NewPackets, Renumbered
<1>3. More(S, s.down, k, R) /\ OthersInTurn(q, S, R) /\ DownInTurn(q, R, SubSeq(s.down, k + 1, Len(s.down)))
  BY ONLY q \in 1..N, <1>1, <1>2, SentMore
<1>4. Fits(sD, S)
  <2>1. Within(S, s.disc, Len(S))
    BY <1>1 DEF Within
  <2>2. FitsAt(s, S, s.disc, s.del, s.seq)
    BY DEF Ready, Fits
  <2>3. FitsAt(sD, S, s.disc, s.del, Len(S))
    <3>1. s.dead = FALSE
      BY <2>2 DEF FitsAt
    <3> QED
      BY <1>1, <2>1, <2>2, <3>1, FitsHigher DEF Ready
  <2> QED
    BY <2>1, <2>3 DEF Ready, Fits
<1>5. Len(R) <= sD.disc + Slots /\ Len(R) = Len(S) + k
  BY <1>1, <1>3 DEF More, Ready
<1>6. /\ Fits(sS, R) /\ sS.disc = sD.disc /\ sS.down = SubSeq(sD.down, k + 1, Len(sD.down)) /\ sS.seq = Len(R)
  <2>1. /\ k \in 0..Len(sD.down) /\ More(S, sD.down, k, R)
        /\ load \in Loads /\ Counters(sD, P) /\ sD.seq = Len(S) /\ sS = SendNewPackets(sD, k)
    BY <1>3 DEF Ready
  <2> QED
    BY ONLY <1>4, <1>5, <2>1, SendNewPacketsFits
<1> QED
  BY <1>3, <1>6 DEF Ready

\* Prot_handle_bcast puts a packet in its slot.
Lacks(s, S, i) == i \in 1..Len(S) /\ i > s.disc /\ Exist(s, i) = 0
Arrived(s, i, k) == [s EXCEPT !.slot[i % Slots] = [exist |-> 1, pkt |-> k], !.seq = Greater(@, i)]

LEMMA ArrivalFits ==
  ASSUME NEW s, NEW P, Counters(s, P), NEW S, Fits(s, S), NEW i, Lacks(s, S, i),
         NEW u, u = Arrived(s, i, S[i])
  PROVE  Fits(u, S) /\ u.disc = s.disc /\ u.down = s.down
<1> DEFINE more == Greater(s.seq, i)
<1>1. /\ s.seq \in Nat /\ DOMAIN s = Fields /\ s.disc \in Nat /\ s.del \in Nat /\ s.myAru \in Nat
      /\ s.disc <= s.del /\ s.del <= s.myAru /\ s.myAru <= s.seq
      /\ Within(S, s.disc, s.seq) /\ FitsAt(s, S, s.disc, s.del, s.seq)
      /\ u = [s EXCEPT !.slot[i % Slots] = [exist |-> 1, pkt |-> S[i]], !.seq = Greater(@, i)]
      /\ i \in 1..Len(S) /\ i > s.disc /\ Exist(s, i) = 0
  BY DEF Counters, Fits, Arrived, Lacks
<1>2. Within(S, s.disc, more) /\ s.seq <= more /\ i \in (s.disc + 1)..more /\ s.del <= more /\ s.myAru <= more
  <2>1. more \in Nat /\ more <= Len(S) /\ s.seq <= more /\ i <= more
    BY <1>1 DEF Greater, Within
  <2> QED
    BY <1>1, <2>1 DEF Within
<1>3. /\ DOMAIN u = Fields /\ u.slot = [s.slot EXCEPT ![i % Slots] = [exist |-> 1, pkt |-> S[i]]]
      /\ u.seq = more /\ u.part = s.part /\ u.dead = s.dead /\ u.myAru = s.myAru /\ u.disc = s.disc
      /\ u.del = s.del /\ u.down = s.down
  BY <1>1 DEF Fields
<1> HIDE DEF more
<1>4. FitsAt(s, S, s.disc, s.del, more)
  BY <1>1, <1>2, FitsHigher
<1>5. FitsAt(u, S, s.disc, s.del, more)
  BY <1>1, <1>2, <1>3, <1>4, PutFits
<1> QED
  BY <1>2, <1>3, <1>5 DEF Fits

--------------------------------------------------------------------------------
(* The inductive invariant *)

OneRecordEach == st = [d \in Daemons |-> st[d]]
Shape ==
  /\ load \in Loads /\ OneRecordEach /\ DOMAIN st = Daemons /\ DOMAIN tokens = Daemons /\ DOMAIN air = Daemons
  /\ sent \in Seq(Packet)
  /\ \A d \in Daemons : /\ Counters(st[d], ToSet(sent)) /\ TokenOK(st[d].last)
                        /\ air[d] \subseteq ToSet(sent) /\ \A t \in tokens[d] : TokenOK(t)
Ring(p) == Turns(p) /\ OnTheWay(p) /\ Arus(p, st) /\ st[p].last.fc = AllSent(st)
RingInv == Shape /\ \E p \in Daemons : Ring(p)

\* What was sent is what the last token counts, and every daemon's packets and Down queue
\* fit it; a token asks for what its sender lacked, and that is beyond its aru.
Asks(t) == \A i \in t.rtr : i > t.aru
InTurn(d, s, R) == Fits(s, R) /\ s.disc = s.aru /\ DownInTurn(d, R, s.down)
Tight(l, S, R, T) ==
  /\ SentInTurn(R) /\ Len(R) = l
  /\ \A d \in Daemons : InTurn(d, S[d], R) /\ \A t \in T[d] : Asks(t)
InSlots(p) == Gaps(p, st) /\ Tight(st[p].last.seq, st, sent, tokens)
SoundInv == Shape /\ \E p \in Daemons : Ring(p) /\ InSlots(p)

LEMMA ToSetPlus ==
  ASSUME NEW T, NEW a \in Seq(T), NEW b \in Seq(T)
  PROVE  a \o b \in Seq(T) /\ ToSet(a \o b) = ToSet(a) \cup ToSet(b)
<1>1. a \o b \in Seq(T) /\ Len(a \o b) = Len(a) + Len(b)
  OBVIOUS
<1>2. ASSUME NEW i \in DOMAIN (a \o b) PROVE (a \o b)[i] \in ToSet(a) \cup ToSet(b)
  <2>1. i \in 1..(Len(a) + Len(b))
    BY <1>1
  <2>2. CASE i <= Len(a)
    BY <2>1, <2>2 DEF ToSet
  <2>3. CASE ~(i <= Len(a))
    <3>1. (a \o b)[i] = b[i - Len(a)] /\ i - Len(a) \in 1..Len(b)
      BY <2>1, <2>3
    <3> QED
      BY <3>1 DEF ToSet
  <2> QED
    BY <2>2, <2>3
<1>3. ASSUME NEW i \in DOMAIN a PROVE a[i] \in ToSet(a \o b)
  <2>1. i \in 1..Len(a) /\ i \in DOMAIN (a \o b) /\ (a \o b)[i] = a[i]
    BY <1>1
  <2> QED
    BY <2>1 DEF ToSet
<1>4. ASSUME NEW i \in DOMAIN b PROVE b[i] \in ToSet(a \o b)
  <2>1. i \in 1..Len(b) /\ Len(a) \in Nat
    OBVIOUS
  <2>2. Len(a) + i \in 1..(Len(a) + Len(b)) /\ ~(Len(a) + i <= Len(a)) /\ Len(a) + i - Len(a) = i
    BY <2>1
  <2>3. Len(a) + i \in DOMAIN (a \o b) /\ (a \o b)[Len(a) + i] = b[i]
    BY <1>1, <2>1, <2>2
  <2> QED
    BY <2>3 DEF ToSet
<1> QED
  BY <1>1, <1>2, <1>3, <1>4 DEF ToSet

\* Flow control never lets more leave than there is.
LEMMA PacketsSentIn ==
  ASSUME NEW s, s.down \in Seq(Packet), NEW allowed \in Nat, NEW per \in Nat
  PROVE  PacketsSent(s, allowed, per) \in 0..Len(s.down)
<1>1. allowed * per + 1 \in Nat /\ Len(s.down) \in Nat
  OBVIOUS
<1> QED
  BY <1>1 DEF PacketsSent, Lesser

LEMMA NewPacketsFacts ==
  ASSUME NEW s, s.seq \in Nat, s.down \in Seq(Packet), NEW k \in 0..Len(s.down)
  PROVE  NewPackets(s, k) \in Seq(Packet)
<1>1. \A j \in 1..k : [s.down[j] EXCEPT !.seq = s.seq + j] \in Packet
  BY NumberedIsPacket
<1> QED
  BY <1>1 DEF NewPackets

LEMMA SendsIsInt ==
  ASSUME NEW k \in Int, NEW per \in Nat \ {0}
  PROVE  Sends(k, per) \in Int
BY DEF Sends

\* What is sent again was sent before.
LEMMA AnswersFacts ==
  ASSUME NEW s, NEW P, Counters(s, P), NEW t, TokenOK(t)
  PROVE  Answers(s, t) \subseteq P /\ Cardinality(Answers(s, t)) \in Nat
<1> DEFINE D == {j \in t.rtr : Exist(s, j) # 0}
           A == {PacketAt(s, i) : i \in D}
<1>1. IsFiniteSet(D)
  BY FS_Subset DEF TokenOK
<1>2. IsFiniteSet(A)
  <2> DEFINE f == [i \in D |-> PacketAt(s, i)]
  <2>1. f \in Surjection(D, A)
    BY DEF Surjection
  <2> HIDE DEF f, D, A
  <2> QED
    BY <1>1, <2>1, FS_Surjection
<1>3. ASSUME NEW i \in D PROVE PacketAt(s, i) \in P
  <2>1. i \in Nat
    BY DEF TokenOK, Token
  <2>2. i % Slots \in 0..(Slots - 1) /\ s.slot[i % Slots].exist # 0
    BY <2>1, SlotPlace DEF Exist
  <2> QED
    BY <2>2 DEF Counters, SlotsHold, SlotHolds, PacketAt
<1>4. A = Answers(s, t)
  BY DEF Answers
<1>5. Cardinality(A) \in Nat
  BY <1>2, FS_CardinalityType
<1> QED
  BY <1>3, <1>4, <1>5
--------------------------------------------------------------------------------
(* Steps *)

\* The daemon knows of all that the token knows of.
Follows(s, t) == t.seq <= s.seq

LEMMA NextTokenOK ==
  ASSUME N \in Nat \ {0}, Daemons = 1..N, NEW q \in Daemons, NEW s, NEW P, Counters(s, P),
         NEW t, TokenOK(t), Follows(s, t), NEW fc \in Int, NEW u, u = NextToken(s, t, q, fc)
  PROVE  /\ TokenOK(u) /\ u.aru = TokenAru(s, t, q).aru /\ u.lastId = TokenAru(s, t, q).lastId
         /\ u.seq = s.seq /\ u.fc = fc /\ u.arq = IF q = Leader THEN Succ(t.arq) ELSE t.arq
<1> DEFINE a == TokenAru(s, t, q)
           r == Requests(s, t, q)
<1>1. /\ t.aru \in Nat /\ t.seq \in Nat /\ t.aru <= t.seq /\ t.lastId \in Daemons
      /\ t.arq \in 0..(ArqModulus - 1) /\ t.retrans \in 0..RetransMax
  BY DEF TokenOK, Token
<1>2. s.myAru \in Nat /\ s.seq \in Nat /\ s.myAru <= s.seq /\ s.setAru \in Nat \cup {-1} /\ t.seq <= s.seq
  BY DEF Counters, Follows
<1>3. a.aru \in Nat /\ a.aru <= s.myAru /\ a.lastId \in {t.lastId, q}
  BY <1>2, <1>1, TokenAruDoes
<1>4. /\ u.arq = IF q = Leader THEN Succ(t.arq) ELSE t.arq
      /\ u.retrans = IF q = Leader THEN 0 ELSE t.retrans
      /\ u.seq = s.seq /\ u.aru = a.aru /\ u.lastId = a.lastId /\ u.fc = fc /\ u.rtr = r.rtr /\ u.to = r.to
      /\ u = [arq |-> u.arq, retrans |-> u.retrans, seq |-> u.seq, aru |-> u.aru, lastId |-> u.lastId,
              fc |-> u.fc, rtr |-> u.rtr, to |-> u.to]
  BY DEF NextToken, Succ
<1>5. r.rtr \in SUBSET Nat /\ IsFiniteSet(r.rtr) /\ r.to \in 0..N
  <2>1. r.rtr = {i \in (s.myAru + 1)..s.seq : Exist(s, i) = 0} /\ r.to \in {0, q}
    BY DEF Requests
  <2>2. IsFiniteSet((s.myAru + 1)..s.seq) /\ r.rtr \subseteq (s.myAru + 1)..s.seq
    <3>1. s.myAru + 1 \in Int /\ s.seq \in Int
      BY <1>2
    <3> QED
      BY <2>1, <3>1, FS_Interval
  <2>3. (s.myAru + 1)..s.seq \subseteq Nat
    BY <1>2
  <2> HIDE DEF r
  <2>4. IsFiniteSet(r.rtr)
    BY <2>2, FS_Subset
  <2>5. r.rtr \in SUBSET Nat
    BY <2>2, <2>3
  <2>6. r.to \in 0..N
    BY <2>1
  <2> QED
    BY <2>4, <2>5, <2>6
<1> HIDE DEF a, r
<1>6. u.arq \in 0..(ArqModulus - 1) /\ u.retrans \in 0..RetransMax
  BY <1>1, <1>4, SuccFacts, RingAssumption
<1>7. u \in Token
  BY <1>2, <1>1, <1>3, <1>4, <1>5, <1>6 DEF Token
<1>8. TokenOK(u)
  BY <1>2, <1>3, <1>4, <1>5, <1>7 DEF TokenOK
<1> QED
  BY <1>4, <1>8 DEF a

\* When q has its turn and the token t, what was sent is what t counts, and q's packets and
\* Down queue fit it.  Afterwards so they do; what was sent before stays, and nothing is
\* sent that has no slot.
TurnOf(q, t) ==
  SentInTurn(sent) /\ Len(sent) = t.seq /\ Asks(t) /\ InTurn(q, st[q], sent)
TurnDone(q, u, R) ==
  /\ SentInTurn(R) /\ Len(R) = u.last.seq /\ Asks(u.last) /\ InTurn(q, u, R)
  /\ Len(sent) <= Len(R) /\ \A i \in 1..Len(sent) : R[i] = sent[i]
  /\ OthersInTurn(q, sent, R) /\ (Len(R) = Len(sent) \/ Len(R) <= st[q].aru + Slots)

\* What handling a token makes of the daemon that is next, and of what was sent.
Handled(p, q, t, s, u) ==
  /\ st' = [st EXCEPT ![q] = u] /\ Visit(p, st, st', s, t)
  /\ sent' \in Seq(Packet) /\ ToSet(sent) \subseteq ToSet(sent')
  /\ Counters(u, ToSet(sent')) /\ TokenOK(u.last) /\ u.seq >= st[q].seq /\ u.myAru >= st[q].myAru
  /\ u.last.fc = t.fc - st[q].nSent + u.nSent
  /\ u.last.arq = IF q = Leader THEN Succ(t.arq) ELSE t.arq
  /\ (tokens' = tokens /\ q = Leader) \/ tokens' = PutToken(q, u.last)
  /\ DOMAIN air' = Daemons /\ \A e \in Daemons : air'[e] \subseteq ToSet(sent')
  /\ TurnOf(q, t) => TurnDone(q, u, sent')

LEMMA HandleTokenDoes ==
  ASSUME Shape, NEW p \in Daemons, Arus(p, st), NEW q, q = After(p), NEW t \in tokens[q],
         Same(t, st[p].last), NEW per \in {1, PerSend}, HandleToken(q, t, per), load' = load
  PROVE  \E s, u : Handled(p, q, t, s, u)
<1> DEFINE s0 == [st[q] EXCEPT !.seq = Greater(@, t.seq)]
           answers == Answers(s0, t)
           k == PacketsSent(s0, Allowed(s0, t.fc), per)
           counted == Sends(k, per)
           new == NewPackets(s0, k)
           n == Sends(Cardinality(answers), IF t.to = 0 THEN per ELSE 1) + counted
           sD == [s0 EXCEPT !.dead = @ \/ \E i \in t.rtr : i < s0.aru]
           sS == SendNewPackets(sD, k)
           s1 == AdvanceAru(sS)
           pass == NextToken(s1, t, q, t.fc - s1.nSent + n)
           s2 == [s1 EXCEPT !.nSent = n]
           u == AfterToken(s2, pass, TokenAru(s1, t, q).setAru, counted)
           P == ToSet(sent)
           Q == ToSet(sent')
<1>1. /\ st' = [st EXCEPT ![q] = u] /\ sent' = sent \o new
      /\ air' = Broadcast(q, ToSet(new), Resent(q, t, answers))
      /\ tokens' = IF q = Leader /\ ToHoldToken(s1) THEN tokens ELSE PutToken(q, pass)
  BY DEF HandleToken
<1>2. N \in Nat \ {0} /\ Daemons = 1..N /\ q \in Daemons /\ DOMAIN st = Daemons /\ AruTypes(st)
  <2>1. N \in Nat \ {0} /\ Daemons = 1..N
    BY LoadFacts DEF Shape
  <2> QED
    BY <2>1, RankNext DEF Shape, AruTypes, Counters, TokenOK, Token
<1>3. Counters(st[q], P) /\ TokenOK(st[q].last) /\ TokenOK(t) /\ TokenOK(st[p].last)
  BY <1>2 DEF Shape
<1>4. /\ t.seq \in Nat /\ t.aru \in Nat /\ t.aru <= t.seq /\ t.fc \in Int /\ t.rtr \in SUBSET Nat
      /\ t.lastId \in Daemons /\ t.to \in 0..N /\ st[q].last.aru \in Nat
  BY <1>3 DEF TokenOK, Token
<1>5. /\ DOMAIN s0 = Fields /\ s0.seq = Greater(st[q].seq, t.seq) /\ s0.slot = st[q].slot
      /\ s0.myAru = st[q].myAru /\ s0.aru = st[q].aru /\ s0.setAru = st[q].setAru /\ s0.disc = st[q].disc
      /\ s0.del = st[q].del /\ s0.last = st[q].last /\ s0.nSent = st[q].nSent
      /\ s0.accepted = st[q].accepted /\ s0.down = st[q].down
      /\ s0.part = st[q].part /\ s0.dead = st[q].dead
  BY <1>3 DEF Counters, Fields
<1> HIDE DEF s0
<1>6. s0.seq \in Nat /\ s0.seq >= st[q].seq /\ s0.seq >= t.seq
  BY SMTT(30), <1>3, <1>4, <1>5 DEF Greater, Counters
<1>7. /\ DOMAIN sD = Fields /\ sD.seq = s0.seq /\ sD.slot = s0.slot /\ sD.myAru = s0.myAru
      /\ sD.aru = s0.aru /\ sD.setAru = s0.setAru /\ sD.disc = s0.disc /\ sD.del = s0.del
      /\ sD.last = s0.last /\ sD.nSent = s0.nSent /\ sD.accepted = s0.accepted /\ sD.down = s0.down
      /\ sD.part = s0.part /\ sD.dead = (s0.dead \/ \E i \in t.rtr : i < s0.aru)
  BY <1>5 DEF Fields
<1> HIDE DEF sD
<1>8. Counters(s0, P) /\ Counters(sD, P)
  <2>1. SlotsHold(s0, P, st[q].disc + 1, st[q].seq) /\ SlotsHold(sD, P, st[q].disc + 1, st[q].seq)
    BY <1>3, <1>5, <1>7 DEF Counters, SlotsHold
  <2>2. st[q].disc + 1 \in Int /\ st[q].seq \in Int /\ s0.seq \in Int /\ st[q].seq <= s0.seq
    BY <1>3, <1>6 DEF Counters
  <2>3. SlotsHold(s0, P, st[q].disc + 1, s0.seq) /\ SlotsHold(sD, P, st[q].disc + 1, s0.seq)
    BY <2>1, <2>2, SlotsMore
  <2>4. st[q].myAru <= s0.seq
    BY <1>3, <1>6 DEF Counters
  <2> QED
    BY <1>3, <1>5, <1>6, <1>7, <2>3, <2>4 DEF Counters
<1>9. k \in 0..Len(sD.down) /\ k \in Int /\ per \in Nat \ {0} /\ (k = 0 \/ s0.seq + k <= s0.aru + Slots)
  <2>1. per \in Nat \ {0} /\ Allowed(s0, t.fc) \in Nat
    BY SMTT(30), <1>4, AllowedIsNat, RingAssumption
  <2>2. s0.down \in Seq(Packet) /\ s0.seq \in Nat /\ s0.aru \in Nat
    BY <1>8 DEF Counters
  <2>3. k = 0 \/ s0.seq + k <= s0.aru + Slots
    BY <1>4, <2>2, SendBound
  <2> QED
    BY <1>7, <2>1, <2>2, <2>3, PacketsSentIn
<1> HIDE DEF k
<1>10. new = NewPackets(sD, k) /\ new \in Seq(Packet)
  BY <1>7, <1>8, <1>9, NewPacketsFacts DEF NewPackets, Counters
<1> HIDE DEF new
<1>11. sent' \in Seq(Packet) /\ Q = P \cup ToSet(new)
  BY <1>1, <1>10, ToSetPlus DEF Shape
<1> HIDE DEF P, Q
<1>12. Counters(sS, Q) /\ Grows(sD, sS) /\ sS.seq = sD.seq + k
  <2>1. P \subseteq Q /\ ToSet(NewPackets(sD, k)) \subseteq Q
    BY <1>10, <1>11
  <2> QED
    BY <1>8, <1>9, <2>1, SendNewPacketsDoes
<1>25. sS = SendNewPackets(sD, k)
  OBVIOUS
<1> HIDE DEF sS
<1>13. Counters(s1, Q) /\ Grows(sS, s1) /\ s1.seq = sS.seq
  BY <1>12, AdvanceAruDoes
<1>26. s1 = AdvanceAru(sS)
  OBVIOUS
<1> HIDE DEF s1
<1>14. /\ s1.seq \in Nat /\ s1.myAru \in Nat /\ s1.myAru <= s1.seq /\ s1.setAru = st[q].setAru
       /\ s1.setAru \in Nat \cup {-1} /\ s1.seq >= t.seq /\ s1.seq >= st[q].seq /\ s1.myAru >= st[q].myAru
       /\ s1.last = st[q].last /\ s1.aru = st[q].aru /\ s1.nSent = st[q].nSent /\ s1.disc <= s1.aru
       /\ DOMAIN s1 = Fields
  <2>1. s1.seq \in Nat /\ s1.myAru \in Nat /\ s1.myAru <= s1.seq /\ s1.setAru \in Nat \cup {-1} /\ s1.disc <= s1.aru /\ DOMAIN s1 = Fields
    BY <1>13 DEF Counters
  <2>2. sS.seq \in Nat /\ sS.myAru \in Nat /\ st[q].seq \in Nat /\ st[q].myAru \in Nat
    BY <1>3, <1>12 DEF Counters
  <2> QED
    BY <1>4, <1>5, <1>6, <1>7, <1>12, <1>13, <2>1, <2>2 DEF Grows
<1>15. n \in Int /\ counted \in Int
  <2> DEFINE many == Cardinality(answers)
             fill == IF t.to = 0 THEN per ELSE 1
  <2>1. many \in Int
    BY <1>3, <1>8, AnswersFacts
  <2>2. counted \in Int
    BY <1>9, SendsIsInt
  <2>3. fill \in Nat \ {0}
    BY <1>9
  <2>4. n = Sends(many, fill) + counted
    OBVIOUS
  <2> HIDE DEF counted, n, many, fill
  <2>5. Sends(many, fill) \in Int
    BY <2>1, <2>3, SendsIsInt
  <2> QED
    BY <2>2, <2>4, <2>5
<1> HIDE DEF n, counted
<1>16. st[q].nSent \in Int /\ t.fc - s1.nSent + n \in Int
  <2>1. st[q].nSent \in Int
    BY <1>3 DEF Counters
  <2>2. s1.nSent \in Int
    BY <1>14, <2>1
  <2> QED
    BY ONLY <1>4, <1>15, <2>1, <2>2
<1>17. /\ TokenOK(pass) /\ pass.aru = TokenAru(s1, t, q).aru /\ pass.lastId = TokenAru(s1, t, q).lastId
       /\ pass.seq = s1.seq /\ pass.fc = t.fc - s1.nSent + n
       /\ pass.arq = IF q = Leader THEN Succ(t.arq) ELSE t.arq
       /\ \A i \in pass.rtr : i > s1.myAru
  <2>4. \A i \in pass.rtr : i > s1.myAru
    <3>1. pass.rtr = {i \in (s1.myAru + 1)..s1.seq : Exist(s1, i) = 0}
      BY DEF NextToken, Requests
    <3> HIDE DEF pass
    <3> QED
      BY <1>14, <3>1
  <2> DEFINE fc == t.fc - s1.nSent + n
  <2>1. Follows(s1, t)
    BY <1>4, <1>14 DEF Follows
  <2>2. fc \in Int /\ pass = NextToken(s1, t, q, fc)
    BY <1>16
  <2>3. fc = t.fc - s1.nSent + n
    OBVIOUS
  <2> HIDE DEF fc, pass
  <2> QED
    BY <1>2, <1>3, <1>13, <2>1, <2>2, <2>3, <2>4, NextTokenOK
<1> HIDE DEF pass
<1>18. Lesser(pass.aru, st[q].last.aru) <= s1.myAru /\ st[q].aru <= Lesser(pass.aru, st[q].last.aru)
       /\ TokenAru(s1, t, q).setAru \in Nat \cup {-1} /\ pass.aru \in Nat /\ pass.aru <= s1.myAru
  <2> DEFINE r == [myAru |-> s1.myAru, aru |-> Lesser(pass.aru, st[q].last.aru),
                   setAru |-> TokenAru(s1, t, q).setAru, last |-> pass]
             R == [st EXCEPT ![q] = r]
  <2>1. R[q] = r /\ \A d \in Daemons : d # q => R[d] = st[d]
    BY <1>2
  <2>2. /\ r.myAru = s1.myAru /\ r.aru = Lesser(pass.aru, st[q].last.aru)
        /\ r.setAru = TokenAru(s1, t, q).setAru /\ r.last = pass
    OBVIOUS
  <2> HIDE DEF r, R
  <2>3. Visit(p, st, R, s1, t)
    BY <1>14, <1>17, <2>1, <2>2 DEF Visit, Same
  <2>4. Lesser(R[q].last.aru, st[q].last.aru) <= s1.myAru /\ st[q].aru <= R[q].last.aru
    BY <1>2, <2>3, LesserIsHeld
  <2>5. st[q].aru <= st[q].last.aru
    BY <1>2 DEF Arus, AruLow
  <2>6. pass.aru \in Nat /\ TokenAru(s1, t, q).setAru \in Nat \cup {-1} /\ pass.aru <= s1.myAru
    BY <1>4, <1>14, <1>17, TokenAruDoes
  <2> QED
    BY <1>4, <2>1, <2>2, <2>4, <2>5, <2>6 DEF Lesser
<1>19. /\ DOMAIN s2 = Fields /\ s2.nSent = n /\ s2.seq = s1.seq /\ s2.myAru = s1.myAru
       /\ s2.aru = s1.aru /\ s2.setAru = s1.setAru /\ s2.disc = s1.disc /\ s2.del = s1.del
       /\ s2.last = s1.last /\ s2.accepted = s1.accepted /\ s2.down = s1.down /\ s2.slot = s1.slot
  BY <1>14 DEF Fields
<1>27. s2 = [s1 EXCEPT !.nSent = n]
  OBVIOUS
<1> HIDE DEF s2
<1>20. Counters(s2, Q)
  <2>1. SlotsHold(s2, Q, s1.disc + 1, s1.seq)
    BY <1>13, <1>19 DEF Counters, SlotsHold
  <2> QED
    BY <1>13, <1>15, <1>19, <2>1 DEF Counters
<1>28. Between(s2, pass) /\ s2.last = st[q].last
  <2>1. s1.disc \in Nat /\ s1.aru \in Nat /\ Lesser(pass.aru, st[q].last.aru) \in Nat
    BY <1>4, <1>13, <1>18 DEF Counters, Lesser
  <2> QED
    BY <1>4, <1>14, <1>18, <1>19, <2>1 DEF Between
<1>21. /\ Counters(u, Q) /\ u.aru = Lesser(pass.aru, st[q].last.aru) /\ u.last = pass
       /\ u.setAru = TokenAru(s1, t, q).setAru /\ u.nSent = n /\ u.seq = s1.seq /\ u.myAru = s1.myAru
  <2> DEFINE setAru == TokenAru(s1, t, q).setAru
  <2>2. setAru \in Nat \cup {-1} /\ u = AfterToken(s2, pass, setAru, counted)
    BY <1>18
  <2> HIDE DEF setAru, u
  <2>3. /\ Counters(u, Q) /\ u.aru = Lesser(pass.aru, s2.last.aru) /\ u.last = pass
        /\ u.setAru = setAru /\ u.nSent = s2.nSent /\ u.seq = s2.seq /\ u.myAru = s2.myAru
    BY <1>15, <1>20, <1>28, <2>2, AfterTokenDoes
  <2> QED
    BY <1>19, <1>28, <2>2, <2>3 DEF setAru
<1>29. u = AfterToken(s2, pass, TokenAru(s1, t, q).setAru, counted)
  OBVIOUS
<1> HIDE DEF u
<1>22. st'[q] = u /\ \A d \in Daemons : d # q => st'[d] = st[d]
  BY <1>1, <1>2
<1>23. Visit(p, st, st', s1, t)
  BY <1>14, <1>17, <1>21, <1>22 DEF Visit, Same
<1>24. DOMAIN air' = Daemons /\ \A e \in Daemons : air'[e] \subseteq Q
  <2> DEFINE a == Resent(q, t, answers)
  <2>1. answers \subseteq P
    BY <1>3, <1>8, AnswersFacts
  <2>2. \A e \in Daemons : a[e] \subseteq P
    <3> HIDE DEF answers
    <3>1. DOMAIN air = Daemons /\ \A e \in Daemons : air[e] \subseteq P
      BY DEF Shape, P
    <3>2. CASE t.to = 0
      BY <2>1, <3>1, <3>2 DEF Resent, Broadcast
    <3>3. CASE t.to # 0
      BY <2>1, <3>1, <3>3 DEF Resent
    <3> QED
      BY <3>2, <3>3
  <2> HIDE DEF a
  <2> QED
    BY <1>1, <1>11, <2>2 DEF Broadcast, a
<1>30. ASSUME TurnOf(q, t) PROVE TurnDone(q, u, sent')
  <2> DEFINE w == st[q]
  <2>1. /\ SentInTurn(sent) /\ Len(sent) = t.seq /\ Asks(t) /\ Fits(w, sent) /\ w.disc = w.aru
        /\ DownInTurn(q, sent, w.down) /\ Counters(w, P) /\ q \in 1..N /\ load \in Loads
    BY <1>2, <1>3, <1>30 DEF TurnOf, InTurn, Shape, P
  <2>2. w.seq <= Len(sent) /\ w.seq \in Nat /\ Len(sent) \in Nat /\ w.aru \in Nat /\ w.dead = FALSE
    BY <2>1 DEF Fits, FitsAt, Within, SentInTurn, Counters
  <2>3. s0.seq = Len(sent)
    BY <1>5, <2>1, <2>2 DEF Greater
  <2>4. w.aru <= t.aru
    BY <1>2 DEF Arus, AruLow, Same
  <2>5. ~(\E i \in t.rtr : i < s0.aru)
    BY <1>4, <1>5, <2>1, <2>2, <2>4 DEF Asks
  <2> HIDE DEF w
  <2>6. /\ sD.seq = Len(sent) /\ sD.slot = w.slot /\ sD.part = w.part /\ sD.dead = FALSE
        /\ sD.myAru = w.myAru /\ sD.disc = w.disc /\ sD.del = w.del /\ sD.down = w.down
    BY <1>5, <1>7, <2>2, <2>3, <2>5 DEF w
  <2>7. k \in 0..Len(w.down) /\ (k = 0 \/ Len(sent) + k <= w.aru + Slots)
    BY <1>5, <1>9, <2>3, <2>6 DEF w
  <2>8. sent' = sent \o NewPackets(sD, k)
    BY <1>1, <1>10
  <2> DEFINE setAru == TokenAru(s1, t, q).setAru
             R == sent'
             S == sent
  <2>9. setAru \in Nat \cup {-1} /\ u = AfterToken(s2, pass, setAru, counted)
    BY <1>18, <1>29
  <2> HIDE DEF setAru, R, S
  <2>10. /\ More(S, w.down, k, R) /\ OthersInTurn(q, S, R) /\ DownInTurn(q, R, u.down)
         /\ Fits(u, R) /\ u.disc = u.aru
    <3>1. Ready(q, S, w, sD, k) /\ R = S \o NewPackets(sD, k)
      BY <2>1, <2>6, <2>7, <2>8 DEF R, S, Ready
    <3>2. /\ More(S, w.down, k, R) /\ OthersInTurn(q, S, R) /\ DownInTurn(q, R, sS.down) /\ Fits(sS, R)
      BY ONLY <1>8, <1>25, <2>1, <3>1, TurnFits
    <3>3. Fits(s1, R) /\ s1.down = sS.down
      BY ONLY <1>12, <1>26, <3>2, AdvanceAruFits
    <3>4. /\ s2.part = s1.part /\ s2.dead = s1.dead
      BY <1>14, <1>27 DEF Fields
    <3>5. Fits(s2, R)
      BY ONLY <1>19, <3>3, <3>4 DEF Fits, FitsAt, SlotsHold, Exist
    <3>6. Fits(u, R) /\ u.disc = u.aru /\ u.down = s2.down
      BY ONLY <1>15, <1>20, <1>28, <2>1, <2>9, <3>5, AfterTokenFits
    <3> QED
      BY <1>19, <3>2, <3>3, <3>6
  <2>11. Len(R) = Len(S) + k /\ SentInTurn(R) /\ \A i \in 1..Len(S) : R[i] = S[i]
    BY <2>10 DEF More
  <2>12. Len(R) = Len(S) \/ Len(R) <= w.aru + Slots
    BY <2>7, <2>11 DEF S
  <2>13. Len(S) <= Len(R)
    BY <2>2, <2>7, <2>11 DEF S
  <2>14. Len(R) = pass.seq
    BY <1>8, <1>9, <1>12, <1>13, <1>17, <2>6, <2>11 DEF S
  <2>15. Asks(pass)
    <3>1. \A i \in pass.rtr : i \in Nat
      BY <1>17 DEF TokenOK, Token
    <3> QED
      BY <1>14, <1>17, <1>18, <3>1 DEF Asks
  <2> QED
    BY <1>21, <2>10, <2>11, <2>12, <2>13, <2>14, <2>15 DEF TurnDone, InTurn, R, S, w
<1> QED
  <2>1. u.last.fc = t.fc - st[q].nSent + u.nSent
    BY <1>14, <1>17, <1>21
  <2>2. u.seq >= st[q].seq /\ u.myAru >= st[q].myAru
    BY <1>14, <1>21
  <2> QED
    BY <1>1, <1>11, <1>17, <1>21, <1>23, <1>24, <1>30, <2>1, <2>2 DEF Q, P, Handled

\* The ring does not change its daemons: what is said of it after a step.
LEMMA RingPrime ==
  ASSUME load' = load, NEW p, Arus(p, st')
  PROVE  Arus(p, st)' /\ AllSent(st)' = AllSent(st') /\ Daemons' = Daemons /\ N' = N /\ Token' = Token
<1>1. Daemons' = Daemons /\ N' = N
  BY DEF Daemons, N
<1>2. \A d, e : (Rank(d, e))' = Rank(d, e)
  BY <1>1 DEF Rank
<1>3. Owned(p, st)' /\ Untouched(p, st)'
  BY <1>1, <1>2 DEF Arus, Owned, Untouched, Rank
<1>4. HeldBetween(p, st)'
  BY <1>1, <1>2 DEF Arus, HeldBetween, Rank
<1>5. SeqGrows(p, st)' /\ AruLow(p, st)' /\ HeldByAll(st)'
  BY <1>1 DEF Arus, SeqGrows, AruLow, HeldByAll
<1>6. AllSent(st)' = AllSent(st')
  BY DEF AllSent
<1>7. Token' = Token
  BY <1>1 DEF Token
<1> QED
  BY <1>1, <1>3, <1>4, <1>5, <1>6, <1>7 DEF Arus

LEMMA SlotsPrime ==
  ASSUME load' = load, NEW p, Gaps(p, st'), Tight(st'[p].last.seq, st', sent', tokens')
  PROVE  InSlots(p)'
<1>1. Daemons' = Daemons /\ N' = N
  BY DEF Daemons, N
<1>2. Gaps(p, st)'
  <2>1. \A d, e : (Rank(d, e))' = Rank(d, e)
    BY <1>1 DEF Rank
  <2> QED
    BY <1>1, <2>1 DEF Gaps, Rank
<1>3. SentInTurn(sent)' /\ Len(sent') = st'[p].last.seq
  BY <1>1 DEF Tight, SentInTurn, PartIs, Turn, Rest
<1>4. ASSUME NEW d \in Daemons PROVE InTurn(d, st[d], sent)' /\ (\A t \in tokens[d] : Asks(t))'
  <2>1. InTurn(d, st'[d], sent') /\ \A t \in tokens'[d] : Asks(t)
    BY DEF Tight
  <2>2. (\A t \in tokens[d] : Asks(t))'
    BY <2>1 DEF Asks
  <2>3. Within(sent, st[d].disc, st[d].seq)'
    BY <1>3, <2>1 DEF InTurn, Fits, Within
  <2>4. FitsAt(st[d], sent, st[d].disc, st[d].del, st[d].seq)'
    BY <1>1, <2>1 DEF InTurn, Fits, FitsAt, SlotsHold, SlotHolds, PartIs, Rest, Exist, Single, Service
  <2>5. DownInTurn(d, sent, st[d].down)'
    BY <2>1 DEF InTurn, DownInTurn, PartIs, Rest, Turn
  <2> QED
    BY <2>1, <2>2, <2>3, <2>4, <2>5 DEF InTurn, Fits
<1> QED
  BY <1>1, <1>2, <1>3, <1>4 DEF InSlots, Tight

LEMMA CountersMore ==
  ASSUME NEW s, NEW P, NEW Q, P \subseteq Q, Counters(s, P)
  PROVE  Counters(s, Q)
<1>1. SlotsHold(s, P, s.disc + 1, s.seq) /\ s.disc + 1 \in Int /\ s.seq \in Int
  BY DEF Counters
<1>2. SlotsHold(s, Q, s.disc + 1, s.seq)
  BY <1>1, SlotsMore
<1> QED
  BY <1>2 DEF Counters

\* What every step has to keep of a daemon's record, of the packets and of the tokens.
LEMMA ShapeNext ==
  ASSUME Shape, load' = load, NEW q \in Daemons, NEW u, st' = [st EXCEPT ![q] = u],
         sent' \in Seq(Packet), ToSet(sent) \subseteq ToSet(sent'),
         Counters(u, ToSet(sent')), TokenOK(u.last),
         DOMAIN air' = Daemons, \A d \in Daemons : air'[d] \subseteq ToSet(sent'),
         DOMAIN tokens' = Daemons, \A d \in Daemons : \A t \in tokens'[d] : TokenOK(t)
  PROVE  Shape'
<1>1. Daemons' = Daemons /\ N' = N
  BY DEF Daemons, N
<1>2. Token' = Token
  BY <1>1 DEF Token
<1>3. DOMAIN st' = Daemons /\ load' \in Loads
  BY DEF Shape
<1>4. OneRecordEach'
  BY <1>1, <1>3 DEF OneRecordEach
<1>5. ASSUME NEW d \in Daemons PROVE Counters(st'[d], ToSet(sent')) /\ TokenOK(st'[d].last)
  <2>1. CASE d = q
    BY <2>1, <1>3 DEF Shape
  <2>2. CASE d # q
    <3>1. st'[d] = st[d] /\ Counters(st[d], ToSet(sent)) /\ TokenOK(st[d].last)
      BY <2>2 DEF Shape
    <3> QED
      BY <3>1, CountersMore
  <2> QED
    BY <2>1, <2>2
<1>6. \A d \in Daemons : st'[d].last \in Token' /\ st'[d].last.aru <= st'[d].last.seq /\ IsFiniteSet(st'[d].last.rtr)
  BY <1>2, <1>5 DEF TokenOK
<1>7. \A d \in Daemons : \A t \in tokens'[d] : t \in Token' /\ t.aru <= t.seq /\ IsFiniteSet(t.rtr)
  BY <1>2 DEF TokenOK
<1> QED
  BY <1>1, <1>3, <1>5, <1>6, <1>7, <1>4 DEF Shape, TokenOK

LEMMA PutTokenDoes ==
  ASSUME N \in Nat \ {0}, Daemons = 1..N, DOMAIN tokens = Daemons, NEW q \in Daemons, NEW u,
         tokens' = PutToken(q, u)
  PROVE  /\ DOMAIN tokens' = Daemons
         /\ tokens'[After(q)] = {w \in tokens[After(q)] : w.arq = u.arq} \cup {u}
         /\ \A d \in Daemons : d # q => tokens'[After(d)] = tokens[After(d)]
         /\ \A d \in Daemons : \A t \in tokens'[d] : t \in tokens[d] \/ t = u
<1>1. After(q) \in Daemons
  BY DEF After, N
<1>2. \A d \in Daemons : d # q => After(d) # After(q) /\ After(d) \in Daemons
  BY DEF After, N
<1>3. tokens' = [tokens EXCEPT ![After(q)] = {w \in tokens[After(q)] : w.arq = u.arq} \cup {u}]
  BY DEF PutToken
<1> QED
  BY <1>1, <1>2, <1>3

\* Handling a token that is fresh: the ring goes on to the next daemon.
LEMMA FreshStep ==
  ASSUME Shape, NEW p \in Daemons, Ring(p), load' = load, NEW q \in Daemons, NEW t \in tokens[q],
         Fresh(q, t), NEW per \in {1, PerSend}, HandleToken(q, t, per)
  PROVE  Shape' /\ Ring(q)' /\ (InSlots(p) => InSlots(q)')
<1> DEFINE A == st[Leader].last.arq
<1>1. /\ N \in Nat \ {0} /\ Daemons = 1..N /\ DOMAIN st = Daemons /\ DOMAIN tokens = Daemons
      /\ Leader \in Daemons /\ AruTypes(st)
  <2>1. N \in Nat \ {0} /\ Daemons = 1..N
    BY LoadFacts DEF Shape
  <2>2. AruTypes(st)
    BY DEF Shape, AruTypes, Counters, TokenOK, Token
  <2> QED
    BY <2>1, <2>2 DEF Shape, Leader
<1>2. \A d \in Daemons : /\ st[d].last.arq \in 0..(ArqModulus - 1) /\ st[d].nSent \in Int
                         /\ \A w \in tokens[d] : w.arq \in 0..(ArqModulus - 1) /\ TokenOK(w)
  BY DEF Shape, Counters, TokenOK, Token
<1>3. q = After(p) /\ Same(t, st[p].last)
  BY <1>1, <1>2, FreshIsNext DEF Ring
<1>18. PICK s, u : Handled(p, q, t, s, u)
  BY <1>3, HandleTokenDoes DEF Ring
<1>4. /\ st' = [st EXCEPT ![q] = u] /\ Visit(p, st, st', s, t)
      /\ sent' \in Seq(Packet) /\ ToSet(sent) \subseteq ToSet(sent')
      /\ Counters(u, ToSet(sent')) /\ TokenOK(u.last) /\ u.seq >= st[q].seq /\ u.myAru >= st[q].myAru
      /\ u.last.fc = t.fc - st[q].nSent + u.nSent
      /\ u.last.arq = IF q = Leader THEN Succ(t.arq) ELSE t.arq
      /\ (tokens' = tokens /\ q = Leader) \/ tokens' = PutToken(q, u.last)
      /\ DOMAIN air' = Daemons /\ \A e \in Daemons : air'[e] \subseteq ToSet(sent')
      /\ TurnOf(q, t) => TurnDone(q, u, sent')
  BY <1>18 DEF Handled
<1>5. st'[q] = u /\ \A d \in Daemons : d # q => st'[d] = st[d]
  BY <1>1, <1>4
<1>6. Arus(q, st')
  BY <1>1, <1>3, <1>4, VisitKeepsArus DEF Ring
<1>7. Arus(q, st)' /\ AllSent(st)' = AllSent(st') /\ Daemons' = Daemons
  BY <1>6, RingPrime
<1>8. /\ DOMAIN tokens' = Daemons
      /\ \/ q = Leader /\ tokens'[After(q)] = tokens[After(q)]
         \/ tokens'[After(q)] = {w \in tokens[After(q)] : w.arq = u.last.arq} \cup {u.last}
      /\ \A d \in Daemons : d # q => tokens'[After(d)] = tokens[After(d)]
      /\ \A d \in Daemons : \A w \in tokens'[d] : w \in tokens[d] \/ w = u.last
  <2> DEFINE l == u.last
  <2>1. (tokens' = tokens /\ q = Leader) \/ tokens' = PutToken(q, l)
    BY <1>4
  <2> HIDE DEF l
  <2>2. CASE tokens' = PutToken(q, l)
    BY <1>1, <2>2, PutTokenDoes DEF l
  <2> QED
    BY <1>1, <2>1, <2>2 DEF l
<1>9. Shape'
  <2>1. \A d \in Daemons : \A w \in tokens'[d] : TokenOK(w)
    BY <1>2, <1>4, <1>8
  <2> QED
    BY <1>4, <1>8, <2>1, ShapeNext
<1>10. t.arq = A /\ p \in 1..N /\ q \in 1..N /\ \A d \in Daemons : IF d <= p THEN st[d].last.arq = A ELSE Succ(st[d].last.arq) = A
  BY <1>1, <1>3 DEF Ring, Turns, Same
<1>11. A \in 0..(ArqModulus - 1) /\ Succ(A) # A
  BY <1>1, <1>2, SuccFacts
<1>12. (q = Leader => p = N) /\ (q # Leader => q = p + 1)
  BY <1>1, <1>3 DEF After, N, Leader
<1> HIDE DEF A
<1>13. Turns(q)'
  <2>1. CASE q = Leader
    <3>1. st'[Leader].last.arq = Succ(A)
      BY <1>4, <1>5, <1>10, <2>1
    <3>2. \A d \in Daemons : d # q => st'[d].last.arq = A /\ ~(d <= q)
      BY <1>1, <1>5, <1>10, <1>12, <2>1 DEF Leader
    <3>3. q <= q
      BY <1>10
    <3> QED
      BY <1>1, <1>7, <2>1, <3>1, <3>2, <3>3 DEF Turns
  <2>2. CASE q # Leader
    <3>1. st'[q].last.arq = A
      BY <1>4, <1>5, <1>10, <2>2
    <3>2. st'[Leader].last.arq = A
      BY <1>1, <1>5, <2>2 DEF A
    <3>3. \A d \in Daemons : d # q => /\ st'[d].last.arq = st[d].last.arq /\ (d <= q <=> d <= p)
      BY <1>1, <1>5, <1>10, <1>12, <2>2
    <3> QED
      BY <1>1, <1>7, <1>10, <3>1, <3>2, <3>3 DEF Turns
  <2> QED
    BY <2>1, <2>2
\* The token that is handled came from p: p does not hold it.
<1>14. \A d \in Daemons : \A w \in tokens[After(d)] : Same(w, st[d].last)
  <2> SUFFICES ASSUME NEW d \in Daemons,
                      d = Leader, p = Leader, \A w \in tokens[After(d)] : Succ(w.arq) = st[d].last.arq
               PROVE  FALSE
    BY DEF Ring, OnTheWay
  <2>1. Succ(t.arq) = A
    BY <1>3 DEF A
  <2> QED
    BY <1>10, <1>11, <2>1
<1>15. OnTheWay(q)'
  <2>1. ASSUME NEW d \in Daemons, d # q PROVE \A w \in tokens'[After(d)] : Same(w, st'[d].last)
    BY <1>5, <1>8, <1>14, <2>1
  <2>2. u.last.arq # st[q].last.arq
    <3>1. CASE q = Leader
      BY <1>4, <1>10, <1>11, <3>1 DEF A
    <3>2. CASE q # Leader
      <4>1. Succ(st[q].last.arq) = A /\ u.last.arq = A
        BY <1>1, <1>4, <1>10, <1>12, <3>2
      <4> QED
        BY <1>11, <4>1
    <3> QED
      BY <3>1, <3>2
  <2>3. \A w \in tokens[After(q)] : w.arq # u.last.arq /\ w.arq = st[q].last.arq
    BY <1>14, <2>2 DEF Same
  <2>4. CASE tokens'[After(q)] = {w \in tokens[After(q)] : w.arq = u.last.arq} \cup {u.last}
    <3>1. \A w \in tokens'[After(q)] : Same(w, st'[q].last)
      BY <1>5, <2>3, <2>4 DEF Same
    <3>2. \A d \in Daemons : \A w \in tokens'[After(d)] : Same(w, st'[d].last)
      BY <2>1, <3>1
    <3> QED
      BY <1>7, <3>2 DEF OnTheWay, After
  <2>5. CASE q = Leader /\ tokens'[After(q)] = tokens[After(q)]
    <3>1. \A w \in tokens'[After(q)] : Succ(w.arq) = st'[q].last.arq
      BY <1>4, <1>5, <1>10, <2>3, <2>5 DEF A
    <3> QED
      BY <1>7, <2>1, <2>5, <3>1 DEF OnTheWay, After
  <2> QED
    BY <1>8, <2>4, <2>5
<1>16. st'[q].last.fc = AllSent(st')
  <2>1. \A e \in Daemons : st[e].nSent \in Int /\ st'[e].nSent \in Int
    BY <1>2, <1>4, <1>5 DEF Counters
  <2>2. \A e \in Daemons : e # q => st'[e].nSent = st[e].nSent
    BY <1>5
  <2>3. AllSent(st') = AllSent(st) - st[q].nSent + st'[q].nSent /\ AllSent(st) \in Int
    BY ZenonT(30), <1>1, <2>1, <2>2, SumUpdate
  <2>4. t.fc = AllSent(st)
    BY <1>3 DEF Ring, Same
  <2> QED
    BY <1>4, <1>5, <2>3, <2>4
\* The others' packets fit: nothing is sent that has no slot with q, and q's Aru is the
\* lowest, as q was visited before the others.
<1>17. ASSUME InSlots(p) PROVE InSlots(q)'
  <2>1. TurnDone(q, u, sent')
    <3>1. Len(sent) = t.seq /\ Asks(t) /\ SentInTurn(sent) /\ InTurn(q, st[q], sent)
      BY <1>1, <1>3, <1>17 DEF InSlots, Tight, Same
    <3> QED
      BY <1>4, <3>1 DEF TurnOf
  <2>2. /\ SentInTurn(sent') /\ Len(sent') = st'[q].last.seq /\ Asks(u.last) /\ InTurn(q, st'[q], sent')
        /\ Len(sent) <= Len(sent') /\ \A i \in 1..Len(sent) : sent'[i] = sent[i]
        /\ OthersInTurn(q, sent, sent') /\ (Len(sent') = Len(sent) \/ Len(sent') <= st[q].aru + Slots)
    BY <1>5, <2>1 DEF TurnDone
  <2>3. ASSUME NEW d \in Daemons, d # q PROVE InTurn(d, st'[d], sent')
    <3>1. InTurn(d, st[d], sent) /\ st'[d] = st[d] /\ Counters(st[d], ToSet(sent))
      BY <1>5, <1>17, <2>3 DEF InSlots, Tight, Shape
    <3>2. st[q].aru <= st[d].aru
      BY <1>1, <1>3, <1>17, <2>3, RankNext DEF InSlots, Gaps
    <3>3. Within(sent, st[d].disc, st[d].seq) /\ st[d].disc = st[d].aru
      BY <3>1 DEF InTurn, Fits
    <3>4. Within(sent', st[d].disc, st[d].seq)
      <4>1. /\ st[d].disc \in Nat /\ st[d].seq \in Nat /\ st[q].aru \in Nat /\ Slots \in Nat
            /\ Len(sent) \in Nat /\ Len(sent') \in Nat
        BY <1>1, <2>2, <3>3, RingAssumption DEF Within, SentInTurn, AruTypes
      <4> QED
        BY SMTT(30), <2>2, <3>2, <3>3, <4>1 DEF Within
    <3>5. Fits(st[d], sent')
      <4> DEFINE R == sent'
                 c == st[d]
      <4>1. Within(R, c.disc, c.seq) /\ Len(sent) <= Len(R) /\ \A i \in 1..Len(sent) : R[i] = sent[i]
        BY <2>2, <3>4
      <4>2. Fits(c, sent) /\ Counters(c, ToSet(sent))
        BY <3>1 DEF InTurn
      <4> HIDE DEF R, c
      <4>3. Fits(c, R)
        BY ONLY <4>1, <4>2, FitsMore
      <4> QED
        BY <4>3 DEF R, c
    <3>6. DownInTurn(d, sent', st[d].down)
      BY <2>2, <2>3, <3>1 DEF InTurn, OthersInTurn
    <3> QED
      BY <3>1, <3>5, <3>6 DEF InTurn
  <2>4. \A d \in Daemons : \A w \in tokens'[d] : Asks(w)
    BY <1>8, <1>17, <2>2 DEF InSlots, Tight
  <2>5. Gaps(q, st')
    BY <1>1, <1>3, <1>4, <1>17, VisitKeepsGaps DEF Ring, InSlots
  <2>6. Tight(st'[q].last.seq, st', sent', tokens')
    BY <2>2, <2>3, <2>4 DEF Tight
  <2> QED
    BY <2>5, <2>6, SlotsPrime
<1> QED
  BY <1>7, <1>9, <1>13, <1>15, <1>16, <1>17 DEF Ring

\* What a step that handles no fresh token leaves as it is: what Arus and the turns are about.
Quiet(s, u) ==
  /\ u.setAru = s.setAru /\ u.aru = s.aru /\ u.nSent = s.nSent /\ Same(u.last, s.last)
  /\ u.myAru \in Nat /\ u.myAru >= s.myAru

LEMMA QuietKeeps ==
  ASSUME Shape, NEW p \in Daemons, Ring(p), load' = load,
         NEW q \in Daemons, NEW u, st' = [st EXCEPT ![q] = u], Quiet(st[q], u),
         \A d \in Daemons : \/ tokens'[After(d)] \subseteq tokens[After(d)]
                            \/ \A w \in tokens'[After(d)] : Same(w, st[d].last)
  PROVE  Ring(p)'
<1>1. N \in Nat \ {0} /\ Daemons = 1..N /\ DOMAIN st = Daemons /\ Leader \in Daemons /\ AruTypes(st)
  <2>1. N \in Nat \ {0} /\ Daemons = 1..N
    BY LoadFacts DEF Shape
  <2>2. AruTypes(st)
    BY DEF Shape, AruTypes, Counters, TokenOK, Token
  <2> QED
    BY <2>1, <2>2 DEF Shape, Leader
<1>2. \A d \in Daemons :
        /\ st'[d].setAru = st[d].setAru /\ st'[d].aru = st[d].aru /\ st'[d].nSent = st[d].nSent
        /\ Same(st'[d].last, st[d].last) /\ st'[d].myAru \in Nat /\ st'[d].myAru >= st[d].myAru
        /\ st[d].nSent \in Int
  <2> TAKE d \in Daemons
  <2>1. st[d].nSent \in Int /\ st[d].myAru \in Nat
    BY DEF Shape, Counters
  <2>2. CASE d = q
    BY <1>1, <2>1, <2>2 DEF Quiet
  <2>3. CASE d # q
    <3>1. st'[d] = st[d]
      BY <1>1, <2>3
    <3> QED
      BY <2>1, <3>1 DEF Same
  <2> QED
    BY <2>2, <2>3
<1>3. Arus(p, st')
  BY <1>1, <1>2, ArusKept DEF Ring, Same
<1>4. Arus(p, st)' /\ AllSent(st)' = AllSent(st') /\ Daemons' = Daemons
  BY <1>3, RingPrime
<1>5. Turns(p)'
  BY <1>1, <1>2, <1>4 DEF Ring, Turns, Same
<1>6. OnTheWay(p)'
  <2>1. \A d \in Daemons :
          \/ \A t \in tokens'[After(d)] : Same(t, st'[d].last)
          \/ d = Leader /\ p = Leader /\ \A t \in tokens'[After(d)] : Succ(t.arq) = st'[d].last.arq
    <3> TAKE d \in Daemons
    <3>1. Same(st'[d].last, st[d].last)
      BY <1>2
    <3>2. CASE \A w \in tokens'[After(d)] : Same(w, st[d].last)
      BY <3>1, <3>2 DEF Same
    <3>3. CASE tokens'[After(d)] \subseteq tokens[After(d)]
      BY <3>1, <3>3 DEF Ring, OnTheWay, Same
    <3> QED
      BY <3>2, <3>3
  <2> QED
    BY <1>4, <2>1 DEF OnTheWay, After
<1>7. st'[p].last.fc = AllSent(st')
  <2>1. \A e \in Daemons : st[e].nSent \in Int /\ st'[e].nSent \in Int
    BY <1>2
  <2>2. \A e \in Daemons : e # q => st'[e].nSent = st[e].nSent
    BY <1>2
  <2>3. AllSent(st') = AllSent(st) - st[q].nSent + st'[q].nSent /\ AllSent(st) \in Int
    BY ZenonT(30), <1>1, <2>1, <2>2, SumUpdate
  <2> QED
    BY <1>2, <2>3 DEF Ring, Same
<1> QED
  BY <1>3, <1>4, <1>5, <1>6, <1>7 DEF Ring

LEMMA QuietSlots ==
  ASSUME Shape, NEW p \in Daemons, InSlots(p), load' = load,
         NEW q \in Daemons, NEW u, st' = [st EXCEPT ![q] = u], Quiet(st[q], u), InTurn(q, u, sent),
         sent' = sent, \A d \in Daemons : \A w \in tokens'[d] : w \in tokens[d] \/ Asks(w)
  PROVE  InSlots(p)'
<1>1. DOMAIN st = Daemons
  BY DEF Shape
<1>2. \A d \in Daemons : st'[d] = IF d = q THEN u ELSE st[d]
  BY <1>1
<1>3. \A d \in Daemons : st'[d].aru = st[d].aru /\ Same(st'[d].last, st[d].last)
  BY <1>2 DEF Quiet, Same
<1>4. Gaps(p, st')
  BY <1>3 DEF InSlots, Gaps, Same
<1>5. Tight(st'[p].last.seq, st', sent', tokens')
  <2>1. st'[p].last.seq = st[p].last.seq
    BY <1>3 DEF Same
  <2>2. SentInTurn(sent) /\ Len(sent) = st[p].last.seq
    BY DEF InSlots, Tight
  <2>3. \A d \in Daemons : InTurn(d, st'[d], sent)
    BY <1>2 DEF InSlots, Tight
  <2>4. \A d \in Daemons : \A w \in tokens'[d] : Asks(w)
    BY DEF InSlots, Tight
  <2> QED
    BY <2>1, <2>2, <2>3, <2>4 DEF Tight
<1> QED
  BY <1>4, <1>5, SlotsPrime

\* Prot_token_hurry: copies of the last token, one more of them counted.
LEMMA HurryStep ==
  ASSUME Shape, NEW p \in Daemons, Ring(p), load' = load, NEW q \in Daemons, NEW s,
         Counters(s, ToSet(sent)), Quiet(st[q], s), TokenOK(s.last), InSlots(p) => InTurn(q, s, sent),
         q = Leader => s.last.retrans < RetransMax,
         TokenHurry(q, s), air' = air, sent' = sent
  PROVE  Shape' /\ Ring(p)' /\ (InSlots(p) => InSlots(p)')
<1> DEFINE l == [s.last EXCEPT !.rtr = {}, !.to = 0, !.retrans = IF q = Leader THEN @ + 1 ELSE @]
           u == [s EXCEPT !.last = l]
<1>1. st' = [st EXCEPT ![q] = u] /\ tokens' = PutToken(q, l)
  BY DEF TokenHurry
<1>2. /\ N \in Nat \ {0} /\ Daemons = 1..N /\ DOMAIN st = Daemons /\ DOMAIN tokens = Daemons
      /\ DOMAIN air = Daemons /\ sent \in Seq(Packet)
      /\ \A d \in Daemons : air[d] \subseteq ToSet(sent) /\ \A t \in tokens[d] : TokenOK(t)
      /\ \A d \in Daemons : st[d].last.arq \in 0..(ArqModulus - 1)
  <2>1. N \in Nat \ {0} /\ Daemons = 1..N
    BY LoadFacts DEF Shape
  <2> QED
    BY <2>1 DEF Shape, TokenOK, Token
<1>3. TokenOK(l) /\ Same(l, s.last) /\ l.rtr = {}
  <2>1. s.last \in Token /\ s.last.aru <= s.last.seq
    BY DEF TokenOK
  <2>2. l \in Token
    <3>1. (IF q = Leader THEN s.last.retrans + 1 ELSE s.last.retrans) \in 0..RetransMax
      BY <2>1, RingAssumption DEF Token
    <3>2. 0 \in 0..N
      BY <1>2
    <3> QED
      BY <2>1, <3>1, <3>2 DEF Token
  <2>3. /\ l.arq = s.last.arq /\ l.seq = s.last.seq /\ l.aru = s.last.aru /\ l.lastId = s.last.lastId
        /\ l.fc = s.last.fc /\ l.rtr = {}
    BY <2>1 DEF Token
  <2>4. IsFiniteSet(l.rtr)
    BY <2>3, FS_EmptySet
  <2> HIDE DEF l
  <2> QED
    BY <2>1, <2>2, <2>3, <2>4 DEF TokenOK, Same
<1>4. DOMAIN s = Fields
  BY DEF Counters
<1> HIDE DEF l
<1>5. /\ DOMAIN u = Fields /\ u.last = l /\ u.seq = s.seq /\ u.myAru = s.myAru /\ u.aru = s.aru
      /\ u.setAru = s.setAru /\ u.disc = s.disc /\ u.del = s.del /\ u.nSent = s.nSent
      /\ u.accepted = s.accepted /\ u.down = s.down /\ u.slot = s.slot
      /\ u.part = s.part /\ u.dead = s.dead
  BY <1>4 DEF Fields
<1> HIDE DEF u
<1>6. Counters(u, ToSet(sent))
  BY <1>5 DEF Counters, SlotsHold
<1>7. Quiet(st[q], u)
  BY <1>3, <1>5 DEF Quiet, Same
<1>8. /\ DOMAIN tokens' = Daemons
      /\ tokens'[After(q)] = {w \in tokens[After(q)] : w.arq = l.arq} \cup {l}
      /\ \A d \in Daemons : d # q => tokens'[After(d)] = tokens[After(d)]
      /\ \A d \in Daemons : \A t \in tokens'[d] : t \in tokens[d] \/ t = l
  BY <1>1, <1>2, PutTokenDoes
<1>9. Shape'
  <2>1. \A d \in Daemons : \A t \in tokens'[d] : TokenOK(t)
    BY <1>2, <1>3, <1>8
  <2> QED
    BY <1>1, <1>2, <1>3, <1>5, <1>6, <1>8, <2>1, ShapeNext
<1>10. \A w \in tokens'[After(q)] : Same(w, st[q].last)
  <2>1. Same(l, st[q].last) /\ st[q].last.arq \in 0..(ArqModulus - 1)
    BY <1>2, <1>5, <1>7 DEF Quiet
  <2>2. \/ \A w \in tokens[After(q)] : Same(w, st[q].last)
        \/ \A w \in tokens[After(q)] : Succ(w.arq) = st[q].last.arq
    BY DEF Ring, OnTheWay
  <2>3. ASSUME NEW w \in tokens[After(q)], w.arq = l.arq PROVE Same(w, st[q].last)
    <3>1. w.arq = st[q].last.arq
      BY <2>1, <2>3 DEF Same
    <3>2. Succ(w.arq) # st[q].last.arq
      BY <2>1, <3>1, SuccFacts
    <3> QED
      BY <2>2, <3>2
  <2> QED
    BY <1>8, <2>1, <2>3
<1>11. \A d \in Daemons : \/ tokens'[After(d)] \subseteq tokens[After(d)]
                          \/ \A w \in tokens'[After(d)] : Same(w, st[d].last)
  BY <1>8, <1>10
<1>12. Ring(p)'
  BY <1>1, <1>7, <1>11, QuietKeeps
<1>13. ASSUME InSlots(p) PROVE InSlots(p)'
  <2>1. InTurn(q, u, sent)
    <3>1. InTurn(q, s, sent)
      BY <1>13
    <3> QED
      BY <1>5, <3>1 DEF InTurn, Fits, FitsAt, SlotsHold, Exist
  <2>2. \A d \in Daemons : \A w \in tokens'[d] : w \in tokens[d] \/ Asks(w)
    BY <1>3, <1>8 DEF Asks
  <2> QED
    BY <1>1, <1>7, <1>13, <2>1, <2>2, QuietSlots
<1> QED
  BY <1>9, <1>12, <1>13

\* A step that sends nothing and leaves the tokens alone.
LEMMA QuietStep ==
  ASSUME Shape, NEW p \in Daemons, Ring(p), load' = load, NEW q \in Daemons, NEW u,
         st' = [st EXCEPT ![q] = u], Quiet(st[q], u), Counters(u, ToSet(sent)), u.last = st[q].last,
         InSlots(p) => InTurn(q, u, sent), tokens' = tokens, sent' = sent, DOMAIN air' = Daemons, \A d \in Daemons : air'[d] \subseteq air[d]
  PROVE  Shape' /\ Ring(p)' /\ (InSlots(p) => InSlots(p)')
<1>1. /\ DOMAIN tokens' = Daemons /\ sent' \in Seq(Packet) /\ TokenOK(u.last) /\ Counters(u, ToSet(sent'))
      /\ \A d \in Daemons : air'[d] \subseteq ToSet(sent') /\ \A t \in tokens'[d] : TokenOK(t)
  BY DEF Shape
<1>2. Shape'
  BY <1>1, ShapeNext
<1>3. \A d \in Daemons : tokens'[After(d)] \subseteq tokens[After(d)]
  OBVIOUS
<1>4. Ring(p)'
  BY <1>3, QuietKeeps
<1>5. ASSUME InSlots(p) PROVE InSlots(p)'
  <2>1. InTurn(q, u, sent) /\ \A d \in Daemons : \A w \in tokens'[d] : w \in tokens[d] \/ Asks(w)
    BY <1>5
  <2> QED
    BY <1>5, <2>1, QuietSlots
<1> QED
  BY <1>2, <1>4, <1>5

LEMMA NewMessageStep ==
  ASSUME Shape, NEW p \in Daemons, Ring(p), load' = load, NEW d \in Daemons, NewMessage(d)
  PROVE  Shape' /\ Ring(p)' /\ (InSlots(p) => InSlots(p)')
<1> DEFINE s == [st[d] EXCEPT !.accepted = @ + 1, !.down = @ \o PacketsOf(d, st[d].accepted + 1)]
<1>1. Counters(st[d], ToSet(sent)) /\ TokenOK(st[d].last) /\ DOMAIN air = Daemons
  BY DEF Shape
<1>2. /\ DOMAIN s = Fields /\ s.last = st[d].last /\ s.seq = st[d].seq /\ s.myAru = st[d].myAru
      /\ s.aru = st[d].aru /\ s.setAru = st[d].setAru /\ s.disc = st[d].disc /\ s.del = st[d].del
      /\ s.nSent = st[d].nSent /\ s.slot = st[d].slot
      /\ s.part = st[d].part /\ s.dead = st[d].dead
      /\ s.accepted = st[d].accepted + 1 /\ s.down = st[d].down \o PacketsOf(d, st[d].accepted + 1)
  BY <1>1 DEF Counters, Fields
<1>3. /\ air' = air /\ sent' = sent
      /\ \/ d = Leader /\ s.last.retrans < RetransMax /\ TokenHurry(d, s)
         \/ st' = [st EXCEPT ![d] = s] /\ tokens' = tokens
  BY DEF NewMessage
<1>4. /\ PacketsOf(d, st[d].accepted + 1) \in Seq(Packet)
      /\ st[d].accepted + 1 \in DOMAIN load[d] /\ load \in Loads
  <2>1. st[d].accepted + 1 \in DOMAIN load[d] /\ load \in Loads
    <3>1. load \in Loads /\ st[d].accepted \in Nat /\ st[d].accepted < Len(load[d])
      BY DEF Shape, Counters, NewMessage
    <3>2. Len(load[d]) \in Nat /\ DOMAIN load[d] = 1..Len(load[d])
      BY <3>1, RingAssumption DEF Daemons
    <3> QED
      BY <3>1, <3>2
  <2> QED
    BY <2>1, PacketsOfFacts
<1> HIDE DEF s
<1>5. s.down \in Seq(Packet) /\ s.accepted \in Nat
  BY SMTT(30), <1>1, <1>2, <1>4 DEF Counters
<1>6. Counters(s, ToSet(sent))
  BY <1>1, <1>2, <1>5 DEF Counters, SlotsHold
<1>7. Quiet(st[d], s)
  BY <1>1, <1>2 DEF Quiet, Counters, Same
<1>8. TokenOK(s.last)
  BY <1>1, <1>2
<1>11. ASSUME InSlots(p) PROVE InTurn(d, s, sent)
  <2>1. InTurn(d, st[d], sent)
    BY <1>11 DEF InSlots, Tight
  <2>2. DownInTurn(d, sent, s.down)
    BY <1>2, <1>4, <2>1, DownPlus DEF InTurn
  <2> QED
    BY <1>2, <2>1, <2>2 DEF InTurn, Fits, FitsAt, SlotsHold, Exist
<1>9. CASE d = Leader /\ s.last.retrans < RetransMax /\ TokenHurry(d, s)
  BY <1>3, <1>6, <1>7, <1>8, <1>9, <1>11, HurryStep
<1>10. CASE st' = [st EXCEPT ![d] = s] /\ tokens' = tokens
  BY <1>1, <1>2, <1>3, <1>6, <1>7, <1>10, <1>11, QuietStep
<1> QED
  BY <1>3, <1>9, <1>10

LEMMA HurryTimerStep ==
  ASSUME Shape, NEW p \in Daemons, Ring(p), load' = load, HurryTimer
  PROVE  Shape' /\ Ring(p)' /\ (InSlots(p) => InSlots(p)')
<1>1. Leader \in Daemons
  BY LoadFacts DEF Shape, Leader
<1>2. Counters(st[Leader], ToSet(sent)) /\ TokenOK(st[Leader].last)
  BY <1>1 DEF Shape
<1>3. Quiet(st[Leader], st[Leader])
  BY <1>2 DEF Quiet, Same, Counters
<1>4. InSlots(p) => InTurn(Leader, st[Leader], sent)
  BY <1>1 DEF InSlots, Tight
<1> QED
  BY <1>1, <1>2, <1>3, <1>4, HurryStep DEF HurryTimer

LEMMA RepeatedStep ==
  ASSUME Shape, NEW p \in Daemons, Ring(p), load' = load, NEW d \in Daemons, NEW t \in tokens[d],
         Repeated(d, t), TokenHurry(d, [st[d] EXCEPT !.last.retrans = t.retrans]),
         air' = air, sent' = sent
  PROVE  Shape' /\ Ring(p)' /\ (InSlots(p) => InSlots(p)')
<1> DEFINE s == [st[d] EXCEPT !.last.retrans = t.retrans]
           l == [st[d].last EXCEPT !.retrans = t.retrans]
<1>1. Counters(st[d], ToSet(sent)) /\ TokenOK(st[d].last) /\ TokenOK(t)
  BY DEF Shape
<1>2. TokenOK(l) /\ Same(l, st[d].last)
  BY <1>1 DEF TokenOK, Token, Same
<1>3. /\ DOMAIN s = Fields /\ s.last = l /\ s.seq = st[d].seq /\ s.myAru = st[d].myAru
      /\ s.aru = st[d].aru /\ s.setAru = st[d].setAru /\ s.disc = st[d].disc /\ s.del = st[d].del
      /\ s.nSent = st[d].nSent /\ s.slot = st[d].slot
      /\ s.accepted = st[d].accepted /\ s.down = st[d].down
      /\ s.part = st[d].part /\ s.dead = st[d].dead
  BY <1>1 DEF Counters, Fields
<1>4. TokenHurry(d, s) /\ d # Leader
  BY DEF Repeated
<1> HIDE DEF s, l
<1>5. Counters(s, ToSet(sent)) /\ TokenOK(s.last)
  BY <1>1, <1>2, <1>3 DEF Counters, SlotsHold
<1>6. Quiet(st[d], s)
  BY <1>1, <1>2, <1>3 DEF Quiet, Counters
<1>7. ASSUME InSlots(p) PROVE InTurn(d, s, sent)
  <2>1. InTurn(d, st[d], sent)
    BY <1>7 DEF InSlots, Tight
  <2> QED
    BY <1>3, <2>1 DEF InTurn, Fits, FitsAt, SlotsHold, Exist
<1> QED
  BY <1>4, <1>5, <1>6, <1>7, HurryStep

\* A packet is put in its slot, and what it completes is delivered.
LEMMA ReceivePacketStep ==
  ASSUME Shape, NEW p \in Daemons, Ring(p), load' = load, NEW d \in Daemons, NEW k, ReceivePacket(d, k)
  PROVE  Shape' /\ Ring(p)' /\ (InSlots(p) => InSlots(p)')
<1> DEFINE s == st[d]
           P == ToSet(sent)
           s1 == [s EXCEPT !.slot[k.seq % Slots] = [exist |-> 1, pkt |-> k], !.seq = Greater(@, k.seq)]
<1>1. /\ Counters(s, P) /\ DOMAIN air = Daemons /\ k \in P /\ air' = air /\ tokens' = tokens /\ sent' = sent
      /\ \/ st' = [st EXCEPT ![d] = s]
         \/ st' = [st EXCEPT ![d] = DeliverAgreed(AdvanceAru(s1))] /\ ~(k.seq <= s.aru) /\ Exist(s, k.seq) = 0
         \/ st' = [st EXCEPT ![d] = DeliverReliable(s1, k.seq, k.seq)] /\ ~(k.seq <= s.aru) /\ Exist(s, k.seq) = 0
  BY DEF Shape, ReceivePacket
<1>2. k.seq \in Nat
  <2>1. PICK i \in DOMAIN sent : k = sent[i]
    BY <1>1 DEF ToSet
  <2>2. sent \in Seq(Packet)
    BY DEF Shape
  <2>3. k \in Packet
    BY <2>1, <2>2
  <2> QED
    BY <2>3 DEF Packet
<1>3. s.seq \in Nat /\ s.myAru \in Nat /\ s.aru \in Nat /\ s.disc \in Nat /\ DOMAIN s = Fields /\ s.disc <= s.aru
      /\ s.myAru <= s.seq
  BY <1>1 DEF Counters
<1>4. CASE st' = [st EXCEPT ![d] = s]
  <2>1. Quiet(s, s) /\ (InSlots(p) => InTurn(d, s, sent))
    BY <1>3 DEF Quiet, Same, InSlots, Tight
  <2> QED
    BY <1>1, <1>4, <2>1, QuietStep
<1>5. ASSUME ~(k.seq <= s.aru) PROVE Counters(s1, P) /\ Grows(s, s1)
  <2>1. /\ DOMAIN s1 = Fields /\ s1.seq = Greater(s.seq, k.seq) /\ s1.myAru = s.myAru
        /\ s1.aru = s.aru /\ s1.setAru = s.setAru /\ s1.disc = s.disc /\ s1.del = s.del
        /\ s1.nSent = s.nSent /\ s1.accepted = s.accepted /\ s1.down = s.down /\ s1.last = s.last
        /\ s1.slot = [s.slot EXCEPT ![k.seq % Slots] = [exist |-> 1, pkt |-> k]]
    BY <1>3 DEF Fields
  <2> HIDE DEF s1, P
  <2>2. /\ s1.seq \in Nat /\ s1.seq >= s.seq /\ s1.seq >= k.seq /\ k.seq >= s.disc + 1
        /\ s.disc + 1 \in Int /\ s.seq \in Int /\ s1.seq \in Int /\ s.seq <= s1.seq
    BY <1>2, <1>3, <1>5, <2>1 DEF Greater
  <2>3. SlotsHold(s, P, s.disc + 1, s1.seq)
    <3>1. SlotsHold(s, P, s.disc + 1, s.seq)
      BY <1>1 DEF Counters
    <3> QED
      BY <2>2, <3>1, SlotsMore
  <2>4. SlotsHold(s1, P, s.disc + 1, s1.seq)
    <3>1. DOMAIN s.slot = 0..(Slots - 1) /\ k.seq % Slots \in 0..(Slots - 1)
      BY <1>2, <2>3, SlotPlace DEF SlotsHold
    <3>2. ASSUME NEW i \in 0..(Slots - 1)
          PROVE  "exist" \in DOMAIN s1.slot[i] /\ SlotHolds(s1.slot[i], i, P, s.disc + 1, s1.seq)
      <4>1. CASE i = k.seq % Slots
        <5>1. s1.slot[i] = [exist |-> 1, pkt |-> k]
          BY <2>1, <3>1, <4>1
        <5>2. k.seq \in (s.disc + 1)..s1.seq
          BY <1>2, <2>2
        <5> QED
          BY <1>1, <4>1, <5>1, <5>2 DEF SlotHolds
      <4>2. CASE i # k.seq % Slots
        <5>1. s1.slot[i] = s.slot[i]
          BY <2>1, <3>1, <4>2
        <5> QED
          BY <2>3, <5>1 DEF SlotsHold
      <4> QED
        BY <4>1, <4>2
    <3>3. DOMAIN s1.slot = 0..(Slots - 1)
      BY <2>1, <3>1
    <3> QED
      BY <3>2, <3>3 DEF SlotsHold
  <2>5. Counters(s1, P)
    BY <1>1, <1>3, <2>1, <2>2, <2>4 DEF Counters
  <2> QED
    BY <1>3, <2>1, <2>2, <2>5 DEF Grows
<1>6. ASSUME NEW u, NEW v, Counters(v, P), Grows(s, v), Counters(u, P), KeepsRing(v, u),
             st' = [st EXCEPT ![d] = u], InSlots(p) => Fits(u, sent) /\ u.disc = s.disc /\ u.down = s.down
      PROVE  Shape' /\ Ring(p)' /\ (InSlots(p) => InSlots(p)')
  <2>1. Quiet(s, u) /\ u.last = s.last
    BY <1>6 DEF Quiet, Same, Grows, KeepsRing, Counters
  <2>2. ASSUME InSlots(p) PROVE InTurn(d, u, sent)
    <3>1. InTurn(d, s, sent)
      BY <2>2 DEF InSlots, Tight
    <3>2. u.aru = s.aru
      BY <1>6 DEF Grows, KeepsRing
    <3> QED
      BY <1>6, <2>2, <3>1, <3>2 DEF InTurn
  <2> QED
    BY <1>1, <1>6, <2>1, <2>2, QuietStep
\* The packet is the one sent with its number.
<1>9. ASSUME InSlots(p), ~(k.seq <= s.aru), Exist(s, k.seq) = 0
      PROVE  Fits(s1, sent) /\ s1.disc = s.disc /\ s1.down = s.down
  <2>1. InTurn(d, s, sent) /\ SentInTurn(sent)
    BY <1>9 DEF InSlots, Tight
  <2>2. PICK j \in DOMAIN sent : k = sent[j]
    BY <1>1 DEF ToSet
  <2>3. j = k.seq /\ j \in 1..Len(sent) /\ k = sent[j]
    BY <2>1, <2>2 DEF SentInTurn
  <2>4. Lacks(s, sent, j)
    BY <1>2, <1>3, <1>9, <2>1, <2>3 DEF InTurn, Lacks
  <2>5. s1 = Arrived(s, j, sent[j])
    BY <2>3 DEF Arrived
  <2>6. Fits(s, sent) /\ Counters(s, P)
    BY <1>1, <2>1 DEF InTurn
  <2> HIDE DEF s1, s, P
  <2>7. Fits(s1, sent) /\ s1.disc = s.disc /\ s1.down = s.down
    BY ONLY <2>4, <2>5, <2>6, ArrivalFits
  <2> QED
    BY <2>7
<1>10. k.seq <= s1.seq /\ load \in Loads
  BY <1>2, <1>3 DEF Greater, Shape, Fields
<1> HIDE DEF s1, P, s
<1>7. CASE ~(k.seq <= s.aru) /\ Exist(s, k.seq) = 0 /\ st' = [st EXCEPT ![d] = DeliverAgreed(AdvanceAru(s1))]
  <2> DEFINE v == AdvanceAru(s1)
             u == DeliverAgreed(v)
  <2>1. Counters(s1, P) /\ Grows(s, s1)
    BY <1>5, <1>7
  <2>2. Counters(v, P) /\ Grows(s1, v)
    BY <2>1, AdvanceAruDoes
  <2>6. InSlots(p) => Fits(v, sent) /\ v.disc = s.disc /\ v.down = s.down
    BY <1>7, <1>9, <2>1, AdvanceAruFits
  <2> HIDE DEF v
  <2>7. InSlots(p) => Fits(u, sent) /\ u.disc = s.disc /\ u.down = s.down
    BY <1>10, <2>2, <2>6, DeliverAgreedFits
  <2>3. Counters(u, P) /\ KeepsRing(v, u)
    BY <2>2, DeliverAgreedKeeps
  <2>4. Grows(s, v)
    <3>1. /\ s1.seq \in Nat /\ s1.myAru \in Nat /\ v.seq \in Nat /\ v.myAru \in Nat
          /\ DOMAIN s = DOMAIN s1 /\ DOMAIN s1 = DOMAIN v
      BY <1>3, <2>1, <2>2 DEF Counters
    <3> QED
      BY ONLY <1>3, <2>1, <2>2, <3>1 DEF Grows
  <2>5. st' = [st EXCEPT ![d] = u]
    BY <1>7 DEF v
  <2> HIDE DEF u
  <2> QED
    BY <1>6, <2>2, <2>3, <2>4, <2>5, <2>7
<1>8. CASE ~(k.seq <= s.aru) /\ Exist(s, k.seq) = 0 /\ st' = [st EXCEPT ![d] = DeliverReliable(s1, k.seq, k.seq)]
  <2> DEFINE u == DeliverReliable(s1, k.seq, k.seq)
  <2>1. Counters(s1, P) /\ Grows(s, s1)
    BY <1>5, <1>8
  <2>2. Counters(u, P) /\ KeepsRing(s1, u)
    BY <1>2, <2>1, DeliverReliableKeeps
  <2>4. InSlots(p) => Fits(u, sent) /\ u.disc = s.disc /\ u.down = s.down
    <3>1. k.seq \in Int
      BY <1>2
    <3> QED
      BY <1>8, <1>9, <1>10, <2>1, <3>1, DeliverReliableFits
  <2> HIDE DEF u
  <2>3. st' = [st EXCEPT ![d] = u]
    BY <1>8 DEF u
  <2> QED
    BY <1>6, <2>1, <2>2, <2>3, <2>4
<1> QED
  BY <1>1, <1>4, <1>7, <1>8

LEMMA SumZero ==
  ASSUME N \in Nat, NEW S, \A e \in 1..N : S[e].nSent = 0
  PROVE  AllSent(S) = 0
<1>1. PICK f : f[0] = 0 /\ AllSent(S) = f[N] /\ \A e \in 1..N : f[e] = f[e - 1] + S[e].nSent
  BY SumSteps
<1> DEFINE Bad == {n \in Nat : n <= N /\ f[n] # 0}
<1>2. Bad = {}
  <2> SUFFICES ASSUME Bad # {} PROVE FALSE
    OBVIOUS
  <2>1. PICK n \in Bad : \A m \in Bad : n <= m
    BY LeastExists
  <2>2. n - 1 \in Nat /\ n \in 1..N /\ n - 1 <= N /\ n - 1 \notin Bad
    BY <1>1, <2>1
  <2>3. f[n - 1] = 0 /\ f[n] = f[n - 1] + 0
    BY <1>1, <2>2
  <2> QED
    BY <2>1, <2>3
<1> QED
  BY <1>1, <1>2

LEMMA InitRing ==
  ASSUME Init
  PROVE  Shape /\ N \in Daemons /\ Ring(N) /\ InSlots(N)
<1>1. N \in Nat \ {0} /\ Daemons = 1..N /\ Leader \in Daemons /\ N \in Daemons /\ load \in Loads
  BY LoadFacts DEF Init, Leader
<1>2. \A d \in Daemons :
        /\ DOMAIN st[d] = Fields /\ st[d].seq = 0 /\ st[d].myAru = 0 /\ st[d].aru = 0 /\ st[d].setAru = -1
        /\ st[d].disc = 0 /\ st[d].del = 0 /\ st[d].nSent = 0 /\ st[d].accepted = 0 /\ st[d].down = <<>>
        /\ st[d].last = InitialToken /\ st[d].slot = [i \in 0..(Slots - 1) |-> NoPacket]
        /\ st[d].part = [q \in 0..N |-> 0] /\ st[d].dead = FALSE
  BY DEF Init, Fields, N
<1>3. OneRecordEach /\ DOMAIN st = Daemons /\ DOMAIN tokens = Daemons /\ DOMAIN air = Daemons /\ sent = <<>>
  BY DEF Init, OneRecordEach
<1>4. TokenOK(InitialToken)
  <2>1. InitialToken \in Token
    BY <1>1, RingAssumption DEF InitialToken, Token
  <2>2. IsFiniteSet(InitialToken.rtr)
    BY FS_EmptySet DEF InitialToken
  <2> QED
    BY <2>1, <2>2 DEF TokenOK, InitialToken
<1>5. Shape
  <2>1. \A d \in Daemons : Counters(st[d], ToSet(sent))
    <3> TAKE d \in Daemons
    <3>1. SlotsHold(st[d], ToSet(sent), 1, 0)
      <4>1. \A i \in 0..(Slots - 1) : st[d].slot[i] = NoPacket
        BY <1>2
      <4> QED
        BY <1>2, <4>1 DEF SlotsHold, SlotHolds, NoPacket
    <3>2. <<>> \in Seq(Packet)
      OBVIOUS
    <3>3. SlotsHold(st[d], ToSet(sent), st[d].disc + 1, st[d].seq)
      <4>1. st[d].disc + 1 = 1 /\ st[d].seq = 0
        BY <1>2
      <4> QED
        BY <3>1, <4>1
    <3>4. /\ DOMAIN st[d] = Fields
          /\ st[d].seq \in Nat /\ st[d].myAru \in Nat /\ st[d].aru \in Nat /\ st[d].disc \in Nat /\ st[d].del \in Nat
          /\ st[d].setAru \in Nat \cup {-1} /\ st[d].nSent \in Int /\ st[d].accepted \in Nat
          /\ st[d].disc <= st[d].del /\ st[d].del <= st[d].myAru /\ st[d].myAru <= st[d].seq /\ st[d].disc <= st[d].aru
      BY <1>2
    <3>5. st[d].down \in Seq(Packet)
      BY <1>2, <3>2
    <3> QED
      BY <3>3, <3>4, <3>5 DEF Counters
  <2>2. \A d \in Daemons : air[d] = {} /\ \A t \in tokens[d] : t = InitialToken
    BY DEF Init
  <2>3. sent \in Seq(Packet)
    BY <1>3
  <2> QED
    BY <1>1, <1>2, <1>3, <1>4, <2>1, <2>2, <2>3 DEF Shape
<1>6. Turns(N)
  <2>1. \A d \in Daemons : d <= N /\ st[d].last.arq = st[Leader].last.arq
    BY <1>1, <1>2
  <2> QED
    BY <2>1 DEF Turns
<1>7. OnTheWay(N)
  <2>1. \A d \in Daemons : \A t \in tokens[d] : t = InitialToken
    BY DEF Init
  <2>2. \A d \in Daemons : After(d) \in Daemons
    BY <1>1, RankNext
  <2> QED
    BY <1>2, <2>1, <2>2 DEF OnTheWay, Same
<1>8. Arus(N, st)
  <2>1. \A d \in Daemons : /\ st[d].last.seq = 0 /\ st[d].last.aru = 0 /\ st[d].last.lastId = Leader
                           /\ st[d].setAru = -1 /\ st[d].aru = 0 /\ st[d].myAru = 0
    BY <1>2 DEF InitialToken
  <2> QED
    BY <1>1, <2>1 DEF Arus, Owned, Untouched, HeldBetween, SeqGrows, AruLow, HeldByAll, Lesser
<1>9. st[N].last.fc = AllSent(st)
  <2>1. AllSent(st) = 0
    BY <1>1, <1>2, SumZero
  <2> QED
    BY <1>1, <1>2, <2>1 DEF InitialToken
<1>10. Gaps(N, st)
  <2>1. \A d \in Daemons : st[d].last.aru = 0 /\ st[d].aru = 0
    BY <1>2 DEF InitialToken
  <2> QED
    BY <1>1, <2>1 DEF Gaps, Lesser
<1>11. Tight(st[N].last.seq, st, sent, tokens)
  <2>1. sent = <<>> /\ sent \in Seq(Packet) /\ Len(sent) = 0 /\ st[N].last.seq = 0
    BY <1>1, <1>2, <1>3 DEF InitialToken
  <2>2. SentInTurn(sent)
    BY <2>1 DEF SentInTurn
  <2>3. \A q : PartIs(sent, q, 0, 0)
    BY DEF PartIs
  <2>4. ASSUME NEW d \in Daemons PROVE InTurn(d, st[d], sent) /\ \A t \in tokens[d] : Asks(t)
    <3>1. Within(sent, 0, 0)
      BY <2>1, <2>2, RingAssumption DEF Within
    <3>2. SlotsHold(st[d], ToSet(sent), 1, 0)
      <4>1. Counters(st[d], ToSet(sent)) /\ st[d].disc + 1 = 1 /\ st[d].seq = 0
        BY <1>2, <1>5 DEF Shape
      <4> QED
        BY <4>1 DEF Counters
    <3>3. FitsAt(st[d], sent, 0, 0, 0)
      <4>1. DOMAIN st[d].part = 0..N /\ \A q \in 0..N : st[d].part[q] = 0
        BY <1>2
      <4>2. 0 \in 0..N /\ (\A q \in 1..N : q \in 0..N) /\ 0 + 1 = 1 /\ \A i \in 1..0 : FALSE
        BY <1>1
      <4> QED
        BY <1>2, <2>3, <3>2, <4>1, <4>2 DEF FitsAt
    <3>4. DownInTurn(d, sent, st[d].down)
      <4>1. st[d].down = <<>>
        BY <1>2
      <4>2. DownInTurn(d, sent, <<>>)
        BY <2>1, <2>3 DEF DownInTurn
      <4> QED
        BY <4>1, <4>2
    <3>5. \A t \in tokens[d] : t.rtr = {}
      BY DEF Init, InitialToken
    <3> QED
      BY <1>2, <3>1, <3>3, <3>4, <3>5 DEF InTurn, Fits, Asks
  <2> QED
    BY <2>1, <2>2, <2>4 DEF Tight
<1> QED
  BY <1>1, <1>5, <1>6, <1>7, <1>8, <1>9, <1>10, <1>11 DEF Ring, InSlots

LEMMA NextRing ==
  ASSUME Shape, NEW p \in Daemons, Ring(p), [Next]_vars
  PROVE  /\ Shape' /\ Daemons' = Daemons
         /\ \E q \in Daemons : Ring(q)' /\ (InSlots(p) => InSlots(q)')
<1>2. load' = load /\ Daemons' = Daemons
  BY DEF Next, vars, Daemons
<1>3. Counters(st[p], ToSet(sent)) /\ DOMAIN air = Daemons /\ DOMAIN st = Daemons
  BY <1>2 DEF Shape
<1>4. st = [st EXCEPT ![p] = st[p]]
  BY <1>2, <1>3 DEF Shape, OneRecordEach
<1>5. Quiet(st[p], st[p]) /\ (InSlots(p) => InTurn(p, st[p], sent))
  BY <1>3 DEF Quiet, Same, Counters, InSlots, Tight
<1>6. SUFFICES Shape' /\ \E q \in Daemons : Ring(q)' /\ (InSlots(p) => InSlots(q)')
  BY <1>2
<1>7. CASE HurryTimer
  BY <1>2, <1>7, HurryTimerStep
<1>8. ASSUME NEW d \in Daemons, NewMessage(d)
      PROVE  Shape' /\ \E q \in Daemons : Ring(q)' /\ (InSlots(p) => InSlots(q)')
  BY <1>2, <1>8, NewMessageStep
<1>9. ASSUME NEW d \in Daemons, NEW t \in tokens[d], ReceiveToken(d, t)
      PROVE  Shape' /\ \E q \in Daemons : Ring(q)' /\ (InSlots(p) => InSlots(q)')
  <2>1. CASE Fresh(d, t) /\ \E per \in {1, PerSend} : HandleToken(d, t, per)
    <3>1. PICK per \in {1, PerSend} : HandleToken(d, t, per)
      BY <2>1
    <3>2. Shape' /\ Ring(d)' /\ (InSlots(p) => InSlots(d)')
      BY <1>2, <2>1, <3>1, FreshStep
    <3> QED
      BY <3>2
  <2>2. CASE Repeated(d, t) /\ TokenHurry(d, [st[d] EXCEPT !.last.retrans = t.retrans])
                            /\ UNCHANGED <<air, sent>>
    <3>1. air' = air /\ sent' = sent
      BY <2>2
    <3> QED
      BY <1>2, <2>2, <3>1, RepeatedStep
  <2> QED
    BY <1>9, <2>1, <2>2 DEF ReceiveToken
<1>10. ASSUME NEW d \in Daemons, NEW k \in air[d], ReceivePacket(d, k)
      PROVE  Shape' /\ \E q \in Daemons : Ring(q)' /\ (InSlots(p) => InSlots(q)')
  BY <1>2, <1>10, ReceivePacketStep
<1>11. ASSUME NEW d \in Daemons, NEW k \in air[d], LosePacket(d, k)
       PROVE  Shape' /\ \E q \in Daemons : Ring(q)' /\ (InSlots(p) => InSlots(q)')
  <2>1. /\ st' = [st EXCEPT ![p] = st[p]] /\ tokens' = tokens /\ sent' = sent
        /\ DOMAIN air' = Daemons /\ \A e \in Daemons : air'[e] \subseteq air[e]
    BY <1>3, <1>11, <1>4 DEF LosePacket
  <2> QED
    BY <1>2, <1>3, <1>5, <2>1, QuietStep
<1>12. CASE UNCHANGED vars
  <2>1. /\ st' = [st EXCEPT ![p] = st[p]] /\ tokens' = tokens /\ sent' = sent
        /\ DOMAIN air' = Daemons /\ \A e \in Daemons : air'[e] \subseteq air[e]
    BY <1>3, <1>12, <1>4 DEF vars
  <2> QED
    BY <1>2, <1>3, <1>5, <2>1, QuietStep
<1> QED
  BY <1>7, <1>8, <1>9, <1>10, <1>11, <1>12 DEF Next

--------------------------------------------------------------------------------
(* Theorems *)

\* Whatever the load, the order and the losses: the ring invariant.  One daemon handled
\* the token last; those up to it in the ring have this round's arq; every copy of the
\* token on its way is a copy of its sender's last.
THEOREM RingHolds == Spec => []RingInv
<1>1. Init => RingInv
  BY InitRing DEF RingInv
<1>2. RingInv /\ [Next]_vars => RingInv'
  <2> SUFFICES ASSUME Shape, NEW p \in Daemons, Ring(p), [Next]_vars PROVE RingInv'
    BY DEF RingInv
  <2>1. Shape' /\ Daemons' = Daemons /\ \E q \in Daemons : Ring(q)'
    BY NextRing
  <2> QED
    BY <2>1 DEF RingInv
<1> QED
  BY <1>1, <1>2, PTL DEF Spec

\* Discard_packets, Deliver_agreed_packets, Prot_handle_bcast: the counters of a daemon
\* stay in step, and every packet it holds was sent, is in its place, and is not older
\* than what was discarded.
THEOREM CountersInStep == Spec => []TypeOK
<1>1. RingInv => TypeOK
  <2> SUFFICES ASSUME Shape, NEW d \in Daemons
               PROVE  LET s == st[d] IN
                 /\ s.disc <= s.del /\ s.del <= s.myAru /\ s.myAru <= s.seq /\ s.disc <= s.aru
                 /\ s.last.retrans \in 0..RetransMax /\ s.last.arq \in 0..(ArqModulus - 1)
                 /\ \A i \in DOMAIN s.slot : s.slot[i].exist # 0 =>
                      /\ s.slot[i].exist \in 1..2 /\ s.slot[i].pkt \in ToSet(sent)
                      /\ s.slot[i].pkt.seq \in (s.disc + 1)..s.seq /\ s.slot[i].pkt.seq % Slots = i
    BY DEF RingInv, TypeOK
  <2>1. Counters(st[d], ToSet(sent)) /\ TokenOK(st[d].last)
    BY DEF Shape
  <2>2. st[d].last.retrans \in 0..RetransMax /\ st[d].last.arq \in 0..(ArqModulus - 1)
    BY <2>1 DEF TokenOK, Token
  <2> QED
    BY <2>1, <2>2 DEF Counters, SlotsHold, SlotHolds
<1> QED
  BY <1>1, RingHolds, PTL

\* Prot_handle_token: what a daemon takes for held by all (Aru, the lesser of the aru of
\* two tokens), and frees, every daemon has.
THEOREM StableIsHeld == Spec => []StableEverywhere
<1>1. RingInv => StableEverywhere
  BY DEF RingInv, Ring, Arus, HeldByAll, StableEverywhere
<1> QED
  BY <1>1, RingHolds, PTL

\* Prot_handle_token and FC_new_token: the flow_control of the token that the next
\* daemon accepts is the sum of what all sent in their last visits, however many
\* packets and tokens were lost or repeated.
THEOREM FlowControlIsExact == Spec => []FlowControlExact
<1>1. RingInv => FlowControlExact
  <2> SUFFICES ASSUME Shape, NEW p \in Daemons, Ring(p), NEW d \in Daemons, NEW t \in tokens[d], Fresh(d, t)
               PROVE  t.fc = AllSent(st)
    BY DEF RingInv, FlowControlExact
  <2>1. N \in Nat \ {0} /\ Daemons = 1..N
    BY LoadFacts DEF Shape
  <2>2. t.arq \in 0..(ArqModulus - 1) /\ \A e \in Daemons : st[e].last.arq \in 0..(ArqModulus - 1)
    BY DEF Shape, TokenOK, Token
  <2>3. Same(t, st[p].last)
    BY <2>1, <2>2, FreshIsNext DEF Ring
  <2> QED
    BY <2>3 DEF Ring, Same
<1> QED
  BY <1>1, RingHolds, PTL

\* The invariant that the packets' slots need: what was sent is numbered in turn, every
\* daemon's slots, unfinished messages and Down queue fit it, and the Aru lie no further
\* apart than the token's round lets them.
THEOREM SlotsHoldWhatWasSent == Spec => []SoundInv
<1>1. Init => SoundInv
  BY InitRing DEF SoundInv
<1>2. SoundInv /\ [Next]_vars => SoundInv'
  <2> SUFFICES ASSUME Shape, NEW p \in Daemons, Ring(p), InSlots(p), [Next]_vars PROVE SoundInv'
    BY DEF SoundInv
  <2>1. Shape' /\ Daemons' = Daemons /\ \E q \in Daemons : Ring(q)' /\ InSlots(q)'
    BY NextRing
  <2> QED
    BY <2>1 DEF SoundInv
<1> QED
  BY <1>1, <1>2, PTL DEF Spec

\* Deliver_packet, Discard_packets, Send_new_packets, Answer_retrans: with slots for a
\* round's packets no daemon reaches an Alarm(EXIT, ...).  A packet of a message is
\* delivered behind the one before it, no hole is where everything should be, no slot in
\* use is given to a new packet, nothing freed is asked for.
THEOREM NoAlarm == Spec => []NeverExits
<1>1. SoundInv => NeverExits
  <2> SUFFICES ASSUME NEW p \in Daemons, InSlots(p), NEW d \in Daemons PROVE ~st[d].dead
    BY DEF SoundInv, NeverExits
  <2> QED
    BY DEF InSlots, Tight, InTurn, Fits, FitsAt
<1> QED
  BY <1>1, SlotsHoldWhatWasSent, PTL

\* protocol.c as a whole, while a membership lasts: the counters in step, no alarm, and
\* nothing freed or delivered as SAFE that a daemon lacks.
THEOREM RingIsSound == Spec => []Sound
<1>1. TypeOK /\ NeverExits /\ StableEverywhere => Sound
  BY DEF Sound
<1> QED
  BY <1>1, CountersInStep, NoAlarm, StableIsHeld, PTL
=============================================================================
