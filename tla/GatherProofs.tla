---------------------------- MODULE GatherProofs ----------------------------
(***************************************************************************)
(* Theorems about Gather, for every number of daemons, of segments, of     *)
(* tokens and of messages on their way.  The search for other daemons      *)
(* leaves every state by a timer, only leaders gather for a ring, and no   *)
(* alarm is reached.  Whoever has had the first round of a form token      *)
(* waits in FORM for the second and for no other token's, and so no token  *)
(* that comes back lists a daemon twice, until one is made to count an     *)
(* entry that nobody has written.                                          *)
(***************************************************************************)
EXTENDS Gather, FiniteSetTheorems, SequenceTheorems, WellFoundedInduction, TLAPS

--------------------------------------------------------------------------------
(* The inductive invariant *)

Fields == {"state", "alive", "memb", "next", "fMembers", "fReps", "potential", "segRep",
           "foreign", "timers"}
Reps == [id : Daemons, type : {"RING", "SEG", "POTENTIAL"}]

\* Token_alive in a state; in GATHER it says for what a daemon gathers.
AliveMatches(s) ==
  /\ s.alive \in BOOLEAN
  /\ s.state \in {"OP", "EVS"} => s.alive
  /\ s.state \in {"SEG", "REPRESENTED", "FORM", "DEAD"} => ~s.alive

\* F_reps begins with the daemon that gathers.
RepsBegin(s, d) ==
  s.fReps \in Seq(Reps) /\ Len(s.fReps) > 0 /\ s.fReps[1] = Rep(d, IF s.alive THEN "RING" ELSE "SEG")

DaemonInv(s, d) ==
  /\ DOMAIN s = Fields
  /\ s.state \in {"OP", "SEG", "REPRESENTED", "GATHER", "FORM", "EVS", "DEAD"}
  /\ AliveMatches(s)
  /\ s.timers = TimersOf(s)
  /\ s.state = "GATHER" => RepsBegin(s, d) /\ (s.alive => d = Leader(s.memb))
  /\ "Memb_lookup_new_members" \in s.timers => d = Leader(s.memb)

\* A join begins with its sender, which is not who receives it: what is inserted in
\* F_reps leaves the first in its place.
PacketInv(m) ==
  /\ "kind" \in DOMAIN m
  /\ m.kind = "join" => m.reps \in Seq(Reps) /\ Len(m.reps) > 0 /\ m.reps[1].id # m.to

SearchInv ==
  /\ DOMAIN st = Daemons /\ \A d \in Daemons : DaemonInv(st[d], d)
  /\ \A m \in air : PacketInv(m)

--------------------------------------------------------------------------------
(* The operators of the model *)

\* A set of numbers has a least one.
LEMMA LeastExists ==
  ASSUME NEW S \in SUBSET Nat, S # {}
  PROVE  \E n \in S : \A m \in S : n <= m
<1> DEFINE less == {ss \in Nat \X Nat : ss[1] < ss[2]}
<1>1. IsWellFoundedOn(less, Nat)
  BY NatLessThanWellFounded DEF OpToRel
<1>2. \E n \in S : \A m \in S : ~(<<m, n>> \in less)
  BY <1>1, WFMin
<1>3. PICK n \in S : \A m \in S : ~(<<m, n>> \in less)
  BY <1>2
<1>4. \A m \in S : m \in Nat /\ n \in Nat /\ (~(m < n) => n <= m)
  OBVIOUS
<1>5. \A m \in S : ~(m < n)
  BY <1>3, <1>4
<1> QED
  BY <1>4, <1>5

\* It is in the set, and the least (Smallest_rep, Insert_rep take places so).
LEMMA MinIsIn ==
  ASSUME NEW S \in SUBSET Nat, S # {}
  PROVE  Min(S) \in S /\ \A m \in S : Min(S) <= m
BY LeastExists DEF Min

\* Insert_rep never takes the first place from a daemon that is known there, unless it
\* is that daemon's own entry that it is given.
LEMMA InsertRepKeepsFirst ==
  ASSUME NEW r \in Seq(Reps), Len(r) > 0, NEW rep \in Reps,
         r[1].id # rep.id, r[1].type # "POTENTIAL"
  PROVE  /\ InsertRep(r, rep) \in Seq(Reps)
         /\ Len(InsertRep(r, rep)) > 0
         /\ InsertRep(r, rep)[1] = r[1]
<1> DEFINE same == {i \in DOMAIN r : Seg[r[i].id] = Seg[rep.id]}
           replaced == {i \in same : r[i].type = "POTENTIAL" \/ r[i].id = rep.id}
           put == [r EXCEPT ![Min(replaced)] = rep]
<1>1. InsertRep(r, rep) \in {r, Append(r, rep)} \/ (replaced # {} /\ InsertRep(r, rep) = put)
  BY DEF InsertRep
<1>2. /\ Append(r, rep) \in Seq(Reps) /\ Len(Append(r, rep)) > 0
      /\ Append(r, rep)[1] = r[1]
  OBVIOUS
<1>3. ASSUME replaced # {}
      PROVE  put \in Seq(Reps) /\ Len(put) > 0 /\ put[1] = r[1]
  <2>1. replaced \in SUBSET Nat /\ 1 \notin replaced /\ replaced \subseteq DOMAIN r
    OBVIOUS
  <2>2. Min(replaced) \in replaced
    BY <1>3, <2>1, MinIsIn
  <2>3. Min(replaced) \in DOMAIN r /\ Min(replaced) # 1
    BY <2>1, <2>2
  <2> HIDE DEF same, replaced
  <2> QED
    BY <2>3
<1> QED
  BY <1>1, <1>2, <1>3

\* What is on its way after a step was there before or is sent by it.
LEMMA SendsKeeps ==
  ASSUME NEW m, NEW S, Sends(m, S),
         \A p \in air : PacketInv(p), \A p \in S : PacketInv(p)
  PROVE  \A p \in air' : PacketInv(p)
BY DEF Sends

\* Alive, refer and foreign messages say nothing that a join says.
LEMMA OtherPackets ==
  ASSUME NEW d
  PROVE  /\ \A p \in Alive(d) : PacketInv(p)
         /\ \A to, rep : \A p \in Refer(d, to, rep) : PacketInv(p)
         /\ \A to : PacketInv([kind |-> "foreign", from |-> d, to |-> to])
BY DEF Alive, Refer, PacketInv

\* A join of what begins with its sender goes to others only (Net_recv).
LEMMA JoinPackets ==
  ASSUME NEW d, NEW reps \in Seq(Reps), Len(reps) > 0, reps[1].id = d, NEW to
  PROVE  \A p \in Join(d, reps, to) : PacketInv(p)
BY DEF Join, Hearers, PacketInv

\* A form token stays one, wherever it goes next.
LEMMA FormPackets ==
  ASSUME NEW t, "kind" \in DOMAIN t, t.kind = "form1"
  PROVE  PacketInv(NextForm1(t))
<1>1. "kind" \in DOMAIN NextForm1(t) /\ NextForm1(t).kind \in {"form1", "form2"}
  BY DEF NextForm1
<1> QED
  BY <1>1 DEF PacketInv
--------------------------------------------------------------------------------
(* Changes of state *)

\* Shift_to_seg, from where its timers are not queued and nothing else is.
LEMMA ToSeg ==
  ASSUME NEW s, NEW d, DOMAIN s = Fields, ~s.alive, s.alive \in BOOLEAN, s.timers = {}
  PROVE  DaemonInv(ShiftToSeg(s, d), d)
<1> DEFINE t == ShiftToSeg(s, d)
<1>1. /\ DOMAIN t = Fields /\ t.state = "SEG" /\ t.alive = s.alive
      /\ t.timers = {"Scast_alive", "Gather_or_represented"}
  BY DEF ShiftToSeg, Fields
<1>4. DaemonInv(t, d)
  <2> HIDE DEF t
  <2> QED
    BY <1>1 DEF DaemonInv, AliveMatches, TimersOf
<1> QED
  BY <1>4

\* Shift_to_gather: for a ring by its leader, else for a segment.
LEMMA ToGather ==
  ASSUME NEW s, NEW d \in Daemons, DOMAIN s = Fields, s.alive \in BOOLEAN,
         s.alive => d = Leader(s.memb),
         s.timers \ {"Scast_alive", "Memb_lookup_new_members", "Send_join"} =
           IF s.alive THEN {"Memb_token_loss"} ELSE {}
  PROVE  DaemonInv(ShiftToGather(s, d), d)
<1> DEFINE t == ShiftToGather(s, d)
<1>1. /\ DOMAIN t = Fields /\ t.state = "GATHER" /\ t.alive = s.alive /\ t.memb = s.memb
      /\ t.fReps = <<Rep(d, IF s.alive THEN "RING" ELSE "SEG")>>
      /\ t.timers = (s.timers \ {"Scast_alive", "Memb_lookup_new_members"}) \cup {"Send_join", "Form_or_fail"}
  BY DEF ShiftToGather, Fields
<1>2. RepsBegin(t, d)
  BY <1>1 DEF RepsBegin, Rep, Reps
<1>3. t.timers = {"Send_join", "Form_or_fail"} \cup (IF s.alive THEN {"Memb_token_loss"} ELSE {})
  BY <1>1
<1>4. DaemonInv(t, d)
  <2> HIDE DEF t
  <2> QED
    BY <1>1, <1>2, <1>3 DEF DaemonInv, AliveMatches, TimersOf
<1> QED
  BY <1>4

\* Shift_to_represented, from SEG or once more.
LEMMA ToRepresented ==
  ASSUME NEW s, NEW d, DOMAIN s = Fields, s.alive \in BOOLEAN, ~s.alive,
         s.timers \subseteq {"Scast_alive", "Gather_or_represented", "Shift_to_seg"}
  PROVE  DaemonInv(ShiftToRepresented(s), d)
<1> DEFINE t == ShiftToRepresented(s)
<1>1. /\ DOMAIN t = Fields /\ t.state = "REPRESENTED" /\ t.alive = s.alive
      /\ t.timers = {"Shift_to_seg"}
  BY DEF ShiftToRepresented, Fields
<1>4. DaemonInv(t, d)
  <2> HIDE DEF t
  <2> QED
    BY <1>1 DEF DaemonInv, AliveMatches, TimersOf
<1> QED
  BY <1>4

\* Memb_token_loss, where there is a token to lose: no alarm, and on to SEG.
LEMMA LossInv ==
  ASSUME NEW s, NEW d, DOMAIN s = Fields,
         s.state \in {"OP", "GATHER", "FORM", "EVS"}, s.state = "GATHER" => s.alive,
         s.timers \subseteq {"Memb_token_loss", "Send_join", "Form_or_fail", "Memb_lookup_new_members"}
  PROVE  DaemonInv(TokenLoss(s, d), d)
<1> DEFINE lost(p) == [s EXCEPT !.potential = p, !.alive = FALSE, !.memb = {d}, !.next = NoNext]
           end(p) == [ShiftToSeg(lost(p), d) EXCEPT !.timers = TokenLossTimers(@)]
<1>1. \E p : TokenLoss(s, d) = end(p)
  BY DEF TokenLoss
<1>2. ASSUME NEW p PROVE DaemonInv(end(p), d)
  <2>1. DOMAIN lost(p) = Fields /\ ~lost(p).alive /\ lost(p).alive \in BOOLEAN /\ lost(p).timers = s.timers
    BY DEF Fields
  <2> HIDE DEF lost
  <2> DEFINE t == ShiftToSeg(lost(p), d)
  <2>2. /\ DOMAIN t = Fields /\ t.state = "SEG" /\ t.alive = lost(p).alive
        /\ t.timers = s.timers \cup {"Scast_alive", "Gather_or_represented"}
    BY <2>1 DEF ShiftToSeg, Fields
  <2> HIDE DEF t
  <2>3. TokenLossTimers(t.timers) = {"Scast_alive", "Gather_or_represented"}
    BY <2>2 DEF TokenLossTimers
  <2>4. /\ DOMAIN end(p) = Fields /\ end(p).state = "SEG" /\ end(p).alive = FALSE
        /\ end(p).timers = {"Scast_alive", "Gather_or_represented"}
    BY <2>1, <2>2, <2>3 DEF Fields, t
  <2> HIDE DEF end
  <2> QED
    BY <2>4 DEF DaemonInv, AliveMatches, TimersOf
<1> QED
  BY <1>1, <1>2

\* The same, told of another daemon.
LEMMA LossByInv ==
  ASSUME NEW s, NEW d, NEW from, DaemonInv(s, d), s.state \in {"OP", "GATHER", "FORM", "EVS"},
         s.state = "GATHER" => s.alive
  PROVE  DaemonInv(TokenLoss(s, d), d) /\ DaemonInv(TokenLossBy(s, d, from), d)
<1>1. s.timers \subseteq {"Memb_token_loss", "Send_join", "Form_or_fail", "Memb_lookup_new_members"}
  BY DEF DaemonInv, TimersOf
<1>2. DaemonInv(TokenLoss(s, d), d)
  BY <1>1, LossInv DEF DaemonInv
<1> DEFINE lost == TokenLoss(s, d)
<1>3. \A x : DaemonInv([lost EXCEPT !.fMembers = x], d)
  BY <1>2 DEF DaemonInv, Fields, AliveMatches, TimersOf, RepsBegin
<1> QED
  BY <1>2, <1>3 DEF TokenLossBy
--------------------------------------------------------------------------------
(* Handlers *)

\* Memb_handle_alive leaves its reader in order.
LEMMA AliveInv ==
  ASSUME NEW s, NEW d, NEW m, DaemonInv(s, d)
  PROVE  DaemonInv(HandleAlive(s, d, m), d)
<1>1. CASE ShowsLoss(s, m)
  <2>1. s.state \in {"OP", "GATHER", "EVS"} /\ (s.state = "GATHER" => s.alive)
    BY <1>1 DEF ShowsLoss, DaemonInv, AliveMatches
  <2> QED
    BY <1>1, <2>1, LossByInv DEF HandleAlive
<1>2. \A x : DaemonInv([s EXCEPT !.fMembers = x], d)
  BY DEF DaemonInv, Fields, AliveMatches, TimersOf, RepsBegin
<1>3. CASE s.state = "REPRESENTED"
  <2>1. s.timers \cup {"Shift_to_seg"} = s.timers
    BY <1>3 DEF DaemonInv, TimersOf
  <2>2. DaemonInv([s EXCEPT !.timers = s.timers], d)
    BY DEF DaemonInv, Fields, AliveMatches, TimersOf, RepsBegin
  <2>3. HandleAlive(s, d, m) = [s EXCEPT !.timers = s.timers] \/ ShowsLoss(s, m)
    BY <1>3, <2>1 DEF HandleAlive
  <2> QED
    BY <1>1, <2>2, <2>3
<1> QED
  BY <1>1, <1>2, <1>3 DEF HandleAlive

\* Memb_handle_join: of a ring only the leader gathers, F_reps keeps its first, and what
\* takes the token for lost had one.
LEMMA JoinInv ==
  ASSUME NEW s, NEW d \in Daemons, NEW m, DaemonInv(s, d), PacketInv(m),
         m.kind = "join", m.to = d
  PROVE  DaemonInv(HandleJoin(s, d, m), d)
<1>1. CASE s.state = "OP"
  <2>1. s.alive /\ s.timers \subseteq {"Memb_token_loss", "Memb_lookup_new_members"} /\ "Memb_token_loss" \in s.timers
    BY <1>1 DEF DaemonInv, AliveMatches, TimersOf
  <2>2. ASSUME d = Leader(s.memb) PROVE DaemonInv(GatherFor(s, d, m), d)
    <3> DEFINE g == [s EXCEPT !.potential = <<m.reps[1]>>, !.fMembers = <<>>]
    <3>1. DOMAIN g = Fields /\ g.alive = s.alive /\ g.memb = s.memb /\ g.timers = s.timers
      BY DEF DaemonInv, Fields
    <3> HIDE DEF g
    <3>2. g.timers \ {"Scast_alive", "Memb_lookup_new_members", "Send_join"} = {"Memb_token_loss"}
      BY <2>1, <3>1
    <3>3. g.alive = TRUE
      BY <2>1, <3>1 DEF DaemonInv, AliveMatches
    <3>4. DaemonInv(ShiftToGather(g, d), d)
      BY <2>2, <3>1, <3>2, <3>3, ToGather
    <3> QED
      BY <3>4 DEF GatherFor, g
  <2>3. DaemonInv(TokenLoss(s, d), d)
    BY <1>1, LossByInv
  <2> QED
    BY <1>1, <2>2, <2>3 DEF HandleJoin
<1>2. CASE s.state \in {"SEG", "REPRESENTED"} /\ IsSegRep(d, m)
  <2>1. DaemonInv(ShiftToRepresented(s), d)
    BY <1>2, ToRepresented DEF DaemonInv, AliveMatches, TimersOf
  <2> DEFINE t == ShiftToRepresented(s)
  <2>2. \A x : DaemonInv([t EXCEPT !.segRep = x], d)
    <3> HIDE DEF t
    <3> QED
      BY <2>1 DEF DaemonInv, Fields, AliveMatches, TimersOf, RepsBegin, t
  <2> QED
    BY <1>2, <2>2 DEF HandleJoin
<1>3. CASE s.state = "GATHER"
  <2>1. s.fReps \in Seq(Reps) /\ Len(s.fReps) > 0 /\ s.fReps[1].id = d /\ s.fReps[1].type # "POTENTIAL"
    BY <1>3 DEF DaemonInv, RepsBegin, Rep
  <2>2. m.reps[1] \in Reps /\ m.reps[1].id # d
    BY DEF PacketInv
  <2> DEFINE r == InsertRep(s.fReps, m.reps[1])
  <2>3. r \in Seq(Reps) /\ Len(r) > 0 /\ r[1] = s.fReps[1]
    BY <2>1, <2>2, InsertRepKeepsFirst
  <2> HIDE DEF r
  <2>4. \A x : DaemonInv([s EXCEPT !.fReps = r, !.potential = x], d)
    BY <1>3, <2>3 DEF DaemonInv, Fields, AliveMatches, TimersOf, RepsBegin
  <2> QED
    BY <1>3, <2>4 DEF HandleJoin, r
<1>4. CASE s.state = "EVS"
  BY <1>4, LossByInv DEF HandleJoin
<1> QED
  BY <1>1, <1>2, <1>3, <1>4 DEF HandleJoin, DaemonInv

\* Memb_handle_refer adds to whom a join is sent, and nothing else.
LEMMA ReferInv ==
  ASSUME NEW s, NEW d, NEW m, DaemonInv(s, d)
  PROVE  DaemonInv(HandleRefer(s, m), d)
<1>1. \A x : DaemonInv([s EXCEPT !.potential = x], d)
  BY DEF DaemonInv, Fields, AliveMatches, TimersOf, RepsBegin
<1> QED
  BY <1>1 DEF HandleRefer

\* A daemon that waits for the token alone, its timers all gone but Memb_token_loss.
LEMMA ToFormInv ==
  ASSUME NEW s, NEW d, NEW p, DOMAIN s = Fields,
         s.timers \subseteq {"Memb_token_loss", "Send_join", "Form_or_fail", "Shift_to_seg"}
  PROVE  DaemonInv([ToForm(s) EXCEPT !.potential = p], d)
<1> DEFINE t == [ToForm(s) EXCEPT !.potential = p]
<1>1. /\ DOMAIN t = Fields /\ t.state = "FORM" /\ t.alive = FALSE
      /\ t.timers = (s.timers \ {"Send_join", "Form_or_fail", "Shift_to_seg"}) \cup {"Memb_token_loss"}
  BY DEF ToForm, Fields
<1>2. t.timers = {"Memb_token_loss"}
  BY <1>1
<1>3. DaemonInv(t, d)
  <2> HIDE DEF t
  <2> QED
    BY <1>1, <1>2 DEF DaemonInv, AliveMatches, TimersOf
<1> QED
  BY <1>3
--------------------------------------------------------------------------------
(* Steps *)

\* A step of one daemon.
LEMMA OneDaemon ==
  ASSUME SearchInv, NEW d \in Daemons, NEW t, DaemonInv(t, d), st' = [st EXCEPT ![d] = t],
         \A p \in air' : PacketInv(p)
  PROVE  SearchInv'
BY DEF SearchInv

\* Memb_handle_message
LEMMA HandleStep ==
  ASSUME SearchInv, NEW d \in Daemons, NEW m \in air, Handle(d, m)
  PROVE  SearchInv'
<1> DEFINE s == st[d]
<1>1. DaemonInv(s, d) /\ PacketInv(m) /\ m.to = d /\ \A p \in air : PacketInv(p)
  BY DEF SearchInv, Handle
<1>2. CASE /\ m.kind = "alive" /\ Sends({m}, {})
           /\ st' = [st EXCEPT ![d] = HandleAlive(s, d, m)]
  <2>1. \A p \in air' : PacketInv(p)
    BY <1>1, <1>2, SendsKeeps
  <2> QED
    BY <1>1, <1>2, <2>1, AliveInv, OneDaemon
<1>3. CASE /\ m.kind = "join" /\ Sends({m}, AnswerJoin(s, d, m))
           /\ st' = [st EXCEPT ![d] = HandleJoin(s, d, m)]
  <2>1. \A p \in AnswerJoin(s, d, m) : PacketInv(p)
    BY OtherPackets DEF AnswerJoin
  <2>2. \A p \in air' : PacketInv(p)
    BY <1>1, <1>3, <2>1, SendsKeeps
  <2>3. DaemonInv(HandleJoin(s, d, m), d)
    BY <1>1, <1>3, JoinInv
  <2> QED
    BY <1>3, <2>2, <2>3, OneDaemon
<1>4. CASE /\ m.kind = "refer" /\ Sends({m}, {})
           /\ st' = [st EXCEPT ![d] = HandleRefer(s, m)]
  <2>1. \A p \in air' : PacketInv(p)
    BY <1>1, <1>4, SendsKeeps
  <2> QED
    BY <1>1, <1>4, <2>1, ReferInv, OneDaemon
<1> QED
  BY <1>2, <1>3, <1>4 DEF Handle

\* Memb_lookup_new_members, called by the leader of a ring.
LEMMA LookupStep ==
  ASSUME SearchInv, NEW d \in Daemons, NEW m, LookupNewMembers(d, m),
         st[d].state = "OP", d = Leader(st[d].memb)
  PROVE  SearchInv'
<1> DEFINE s == [st[d] EXCEPT !.potential = <<>>, !.timers = @ \ {"Memb_lookup_new_members"}]
<1>1. DaemonInv(st[d], d) /\ \A p \in air : PacketInv(p)
  BY DEF SearchInv
<1>2. st[d].alive = TRUE /\ st[d].timers \ {"Memb_lookup_new_members"} = {"Memb_token_loss"}
  BY <1>1 DEF DaemonInv, AliveMatches, TimersOf
<1>3. /\ DOMAIN s = Fields /\ s.state = "OP" /\ s.alive = TRUE /\ s.memb = st[d].memb
      /\ s.timers = {"Memb_token_loss"}
  BY <1>1, <1>2 DEF DaemonInv, Fields
<1>4. DaemonInv(s, d) /\ DaemonInv(ShiftToGather(s, d), d)
  <2> HIDE DEF s
  <2>1. DaemonInv(s, d)
    BY <1>3 DEF DaemonInv, AliveMatches, TimersOf
  <2>2. s.timers \ {"Scast_alive", "Memb_lookup_new_members", "Send_join"} = {"Memb_token_loss"}
    BY <1>3
  <2>3. DaemonInv(ShiftToGather(s, d), d)
    BY <1>3, <2>2, ToGather
  <2> QED
    BY <2>1, <2>3
<1>5. \A to : \A p \in Join(d, <<Rep(d, "RING")>>, to) : PacketInv(p)
  <2>1. <<Rep(d, "RING")>> \in Seq(Reps) /\ Len(<<Rep(d, "RING")>>) > 0 /\ <<Rep(d, "RING")>>[1].id = d
    BY DEF Rep, Reps
  <2> QED
    BY <2>1, JoinPackets
<1>6. \A p \in air' : PacketInv(p)
  <2>1. PICK to : Sends(m, Join(d, <<Rep(d, "RING")>>, to))
    BY DEF LookupNewMembers
  <2> QED
    BY <1>1, <1>5, <2>1, SendsKeeps
<1>7. st' = [st EXCEPT ![d] = s] \/ st' = [st EXCEPT ![d] = ShiftToGather(s, d)]
  BY DEF LookupNewMembers
<1> HIDE DEF s
<1> QED
  BY <1>4, <1>6, <1>7, OneDaemon

\* Memb_handle_foreign
LEMMA ForeignStep ==
  ASSUME SearchInv, NEW d \in Daemons, ReceiveForeign(d)
  PROVE  SearchInv'
<1>1. PICK m : HandleForeign(d, m)
  BY DEF ReceiveForeign
<1>2. CASE d = Leader(st[d].memb) /\ LookupNewMembers(d, m)
  BY <1>1, <1>2, LookupStep DEF HandleForeign
<1>3. CASE ~(d = Leader(st[d].memb) /\ LookupNewMembers(d, m))
  <2>1. PICK to : /\ Sends(m, {[kind |-> "foreign", from |-> d, to |-> to]})
                  /\ st' = [st EXCEPT ![d] = [st[d] EXCEPT !.foreign = TRUE]]
    BY <1>1, <1>3 DEF HandleForeign
  <2>2. DaemonInv([st[d] EXCEPT !.foreign = TRUE], d)
    BY DEF SearchInv, DaemonInv, Fields, AliveMatches, TimersOf, RepsBegin
  <2>3. \A p \in air' : PacketInv(p)
    BY <2>1, OtherPackets, SendsKeeps DEF SearchInv
  <2> QED
    BY <2>1, <2>2, <2>3, OneDaemon
<1> QED
  BY <1>2, <1>3
\* Whose process ends has no timers.
LEMMA DeadInv ==
  ASSUME NEW s, NEW d, DOMAIN s = Fields
  PROVE  DaemonInv(Dead(s), d)
<1> DEFINE t == Dead(s)
<1>1. DOMAIN t = Fields /\ t.state = "DEAD" /\ t.alive = FALSE /\ t.timers = {}
  BY DEF Dead, Fields
<1>2. DaemonInv(t, d)
  <2> HIDE DEF t
  <2> QED
    BY <1>1 DEF DaemonInv, AliveMatches, TimersOf
<1> QED
  BY <1>2

\* Memb_handle_form1: the daemons that take the token have no timer that FORM has not.
LEMMA FillStep ==
  ASSUME SearchInv, NEW d \in Daemons, NEW t \in air, FillForm1(d, t)
  PROVE  SearchInv'
<1> DEFINE s == st[d]
           taken(p) == [ToForm(s) EXCEPT !.potential = p]
<1>1. DaemonInv(s, d) /\ PacketInv(t) /\ \A p \in air : PacketInv(p)
  BY DEF SearchInv
<1>2. PICK p, x : st' = [st EXCEPT ![d] = x] /\ x \in {taken(p), Dead(s)}
  BY DEF FillForm1
<1>3. s.timers \subseteq {"Memb_token_loss", "Send_join", "Form_or_fail", "Shift_to_seg"}
  BY <1>1 DEF FillForm1, TakesAsMember, TakesAsRep, DaemonInv, TimersOf
<1>4. DaemonInv(taken(p), d) /\ DaemonInv(Dead(s), d)
  <2>1. DOMAIN s = Fields
    BY <1>1 DEF DaemonInv
  <2> HIDE DEF s
  <2> QED
    BY <1>3, <2>1, ToFormInv, DeadInv
<1>5. PICK S : Sends({t}, S) /\ \A q \in S : PacketInv(q)
  <2>1. "kind" \in DOMAIN t /\ t.kind = "form1"
    BY <1>1 DEF PacketInv, FillForm1
  <2>2. /\ \A added, entry : "kind" \in DOMAIN AsRep(t, added, entry) /\ AsRep(t, added, entry).kind = "form1"
        /\ "kind" \in DOMAIN AsMember(t) /\ AsMember(t).kind = "form1"
    BY <2>1 DEF AsRep, AsMember
  <2>3. \/ Sends({t}, {})
        \/ Sends({t}, {NextForm1(AsMember(t))})
        \/ \E added, entry : Sends({t}, {NextForm1(AsRep(t, added, entry))})
    BY DEF FillForm1
  <2>4. /\ PacketInv(NextForm1(AsMember(t)))
        /\ \A added, entry : PacketInv(NextForm1(AsRep(t, added, entry)))
    BY <2>2, FormPackets
  <2>5. CASE Sends({t}, {})
    BY <2>5
  <2>6. CASE Sends({t}, {NextForm1(AsMember(t))})
    BY <2>4, <2>6
  <2>7. CASE \E added, entry : Sends({t}, {NextForm1(AsRep(t, added, entry))})
    <3>1. PICK added, entry : Sends({t}, {NextForm1(AsRep(t, added, entry))})
      BY <2>7
    <3> QED
      BY <2>4, <3>1
  <2> QED
    BY <2>3, <2>5, <2>6, <2>7
<1>6. \A q \in air' : PacketInv(q)
  BY <1>1, <1>5, SendsKeeps
<1>7. DaemonInv(x, d)
  BY <1>2, <1>4
<1> QED
  BY <1>2, <1>6, <1>7, OneDaemon

\* Memb_handle_form2
LEMMA ReadStep ==
  ASSUME SearchInv, NEW d \in Daemons, NEW t \in air, ReadForm2(d, t)
  PROVE  SearchInv'
<1> DEFINE s == st[d]
           u(p, next) == [s EXCEPT !.state = "EVS", !.alive = TRUE, !.potential = p, !.next = next]
<1>1. DaemonInv(s, d) /\ PacketInv(t) /\ DOMAIN st = Daemons /\ \A p \in air : PacketInv(p)
  BY DEF SearchInv
<1>2. PICK p, next, x : st' = [st EXCEPT ![d] = x] /\ x \in {u(p, next), Dead(s)}
  BY <1>1 DEF ReadForm2
<1>3. /\ DOMAIN u(p, next) = Fields /\ u(p, next).state = "EVS" /\ u(p, next).alive = TRUE
      /\ u(p, next).timers = {"Memb_token_loss"}
  BY <1>1 DEF DaemonInv, Fields, ReadForm2, TakesForm2, TimersOf
<1>4. DaemonInv(u(p, next), d) /\ DaemonInv(Dead(s), d)
  <2>1. DaemonInv(Dead(s), d)
    BY <1>1, DeadInv DEF DaemonInv
  <2> HIDE DEF u
  <2> QED
    BY <1>3, <2>1 DEF DaemonInv, AliveMatches, TimersOf
<1>5. PICK S : Sends({t}, S) /\ \A q \in S : PacketInv(q)
  <2>1. "kind" \in DOMAIN t /\ t.kind = "form2"
    BY <1>1 DEF PacketInv, ReadForm2
  <2> DEFINE read == [t EXCEPT !.n = @ + 1, !.pending = @ - 1]
             passed == [read EXCEPT !.to = t.list[read.n + 1]]
  <2>2. "kind" \in DOMAIN read /\ read.kind = "form2"
    BY <2>1
  <2>3. PacketInv(passed)
    <3> HIDE DEF read
    <3> QED
      BY <2>2 DEF PacketInv
  <2>4. Sends({t}, {}) \/ Sends({t}, {passed})
    BY DEF ReadForm2
  <2> QED
    BY <2>3, <2>4
<1>6. \A q \in air' : PacketInv(q)
  BY <1>1, <1>5, SendsKeeps
<1>7. DaemonInv(x, d)
  BY <1>2, <1>4
<1> QED
  BY <1>2, <1>6, <1>7, OneDaemon

\* Memb_regular: only the leader of the new ring will look for others.
LEMMA RegularStep ==
  ASSUME SearchInv, NEW d \in Daemons, Regular(d)
  PROVE  SearchInv'
<1> DEFINE s == st[d]
           more == IF d = Leader(s.next.memb) THEN s.timers \cup {"Memb_lookup_new_members"} ELSE s.timers
           u == [s EXCEPT !.state = "OP", !.memb = s.next.memb, !.next = NoNext, !.foreign = FALSE,
                          !.timers = more]
<1>1. DaemonInv(s, d) /\ s.state = "EVS" /\ \A p \in air : PacketInv(p)
  BY DEF SearchInv, Regular
<1>2. st' = [st EXCEPT ![d] = u] /\ air' = air
  BY DEF Regular
<1>3. s.alive = TRUE /\ s.timers = {"Memb_token_loss"}
  BY <1>1 DEF DaemonInv, AliveMatches, TimersOf
<1>4. /\ DOMAIN u = Fields /\ u.state = "OP" /\ u.alive = TRUE /\ u.memb = s.next.memb
      /\ u.timers = more
  BY <1>1, <1>3 DEF DaemonInv, Fields
<1>5. DaemonInv(u, d)
  <2>1. u.timers = {"Memb_token_loss"} \cup (u.timers \cap {"Memb_lookup_new_members"})
    BY <1>3, <1>4
  <2>2. "Memb_lookup_new_members" \in u.timers => d = Leader(u.memb)
    BY <1>3, <1>4
  <2> HIDE DEF u
  <2> QED
    BY <1>4, <2>1, <2>2 DEF DaemonInv, AliveMatches, TimersOf
<1> HIDE DEF u
<1> QED
  BY <1>1, <1>2, <1>5, OneDaemon

\* A timer of the event queue is taken off it and nothing else is changed.
LEMMA FiredIs ==
  ASSUME SearchInv, NEW d \in Daemons, NEW f
  PROVE  LET s == Fired(d, f)
         IN  /\ DOMAIN s = Fields /\ s.timers = st[d].timers \ {f}
             /\ s.state = st[d].state /\ s.alive = st[d].alive /\ s.memb = st[d].memb
             /\ s.fReps = st[d].fReps
BY DEF Fired, SearchInv, DaemonInv, Fields

\* The timer of the token: in every state that has it there is a token to lose.
LEMMA TimeoutStep ==
  ASSUME SearchInv, NEW d \in Daemons, TokenTimeout(d)
  PROVE  SearchInv'
<1> DEFINE s == Fired(d, "Memb_token_loss")
<1>1. DaemonInv(st[d], d) /\ \A p \in air : PacketInv(p)
  BY DEF SearchInv
<1>2. st' = [st EXCEPT ![d] = TokenLoss(s, d)] /\ air' \subseteq air /\ "Memb_token_loss" \in st[d].timers
  BY DEF TokenTimeout, Fire
<1>3. /\ st[d].state \in {"OP", "GATHER", "FORM", "EVS"} /\ (st[d].state = "GATHER" => st[d].alive)
      /\ st[d].timers \subseteq {"Memb_token_loss", "Send_join", "Form_or_fail", "Memb_lookup_new_members"}
  BY <1>1, <1>2 DEF DaemonInv, AliveMatches, TimersOf
<1>4. /\ DOMAIN s = Fields /\ s.timers = st[d].timers \ {"Memb_token_loss"}
      /\ s.state = st[d].state /\ s.alive = st[d].alive
  BY FiredIs
<1>5. DaemonInv(TokenLoss(s, d), d)
  <2> HIDE DEF s
  <2> QED
    BY <1>3, <1>4, LossInv
<1> HIDE DEF s
<1> QED
  BY <1>1, <1>2, <1>5, OneDaemon

\* Scast_alive and Send_join: what is sent begins with who sends it.
LEMMA SendingSteps ==
  ASSUME SearchInv, NEW d \in Daemons, ScastAlive(d) \/ SendJoin(d)
  PROVE  SearchInv'
<1>1. st' = st /\ DaemonInv(st[d], d) /\ \A p \in air : PacketInv(p)
  BY DEF ScastAlive, SendJoin, SearchInv
<1>2. CASE ScastAlive(d)
  <2>1. \A p \in air' : PacketInv(p)
    BY <1>1, <1>2, OtherPackets, SendsKeeps DEF ScastAlive
  <2> QED
    BY <1>1, <2>1 DEF SearchInv
<1>3. CASE SendJoin(d)
  <2>1. st[d].state = "GATHER"
    BY <1>1, <1>3 DEF SendJoin, Fire, DaemonInv, TimersOf
  <2>2. st[d].fReps \in Seq(Reps) /\ Len(st[d].fReps) > 0 /\ st[d].fReps[1].id = d
    BY <1>1, <2>1 DEF DaemonInv, RepsBegin, Rep
  <2>3. PICK to : Sends({}, Join(d, st[d].fReps, to))
    BY <1>3 DEF SendJoin
  <2>4. \A p \in air' : PacketInv(p)
    BY <1>1, <2>2, <2>3, JoinPackets, SendsKeeps
  <2> QED
    BY <1>1, <2>4 DEF SearchInv
<1> QED
  BY <1>2, <1>3
\* Shift_to_seg, when a representative has not been heard of for Rep_timeout.
LEMMA SegAgainStep ==
  ASSUME SearchInv, NEW d \in Daemons, SegAgain(d)
  PROVE  SearchInv'
<1> DEFINE s == Fired(d, "Shift_to_seg")
<1>1. DaemonInv(st[d], d) /\ \A p \in air : PacketInv(p)
  BY DEF SearchInv
<1>2. st' = [st EXCEPT ![d] = ShiftToSeg(s, d)] /\ air' = air /\ "Shift_to_seg" \in st[d].timers
  BY DEF SegAgain, Fire
<1>3. st[d].timers = {"Shift_to_seg"} /\ st[d].alive = FALSE
  BY <1>1, <1>2 DEF DaemonInv, AliveMatches, TimersOf
<1>4. DOMAIN s = Fields /\ s.timers = {} /\ s.alive = FALSE
  BY <1>3, FiredIs
<1>5. DaemonInv(ShiftToSeg(s, d), d)
  <2> HIDE DEF s
  <2> QED
    BY <1>4, ToSeg
<1> HIDE DEF s
<1> QED
  BY <1>1, <1>2, <1>5, OneDaemon

\* Gather_or_represented ends SEG one way or the other.
LEMMA GatherOrStep ==
  ASSUME SearchInv, NEW d \in Daemons, GatherOrRepresented(d)
  PROVE  SearchInv'
<1> DEFINE f == Fired(d, "Gather_or_represented")
           s == [f EXCEPT !.segRep = 0]
<1>1. DaemonInv(st[d], d) /\ \A p \in air : PacketInv(p)
  BY DEF SearchInv
<1>2. /\ \/ st' = [st EXCEPT ![d] = ShiftToGather(s, d)]
         \/ st' = [st EXCEPT ![d] = ShiftToRepresented(s)]
      /\ air' = air /\ "Gather_or_represented" \in st[d].timers
  BY DEF GatherOrRepresented, Fire
<1>3. st[d].timers = {"Scast_alive", "Gather_or_represented"} /\ st[d].alive = FALSE
  BY <1>1, <1>2 DEF DaemonInv, AliveMatches, TimersOf
<1>4. DOMAIN f = Fields /\ f.timers = {"Scast_alive"} /\ f.alive = FALSE
  BY <1>3, FiredIs
<1>5. DOMAIN s = Fields /\ s.timers = {"Scast_alive"} /\ s.alive = FALSE
  <2> HIDE DEF f
  <2> QED
    BY <1>4 DEF Fields
<1>6. DaemonInv(ShiftToGather(s, d), d) /\ DaemonInv(ShiftToRepresented(s), d)
  <2> HIDE DEF s
  <2>1. s.timers \ {"Scast_alive", "Memb_lookup_new_members", "Send_join"} = {}
    BY <1>5
  <2>2. DaemonInv(ShiftToGather(s, d), d)
    BY <1>5, <2>1, ToGather
  <2>3. DaemonInv(ShiftToRepresented(s), d)
    BY <1>5, ToRepresented
  <2> QED
    BY <2>2, <2>3
<1> HIDE DEF s
<1> QED
  BY <1>1, <1>2, <1>6, OneDaemon

\* Form_or_fail: a form token, the old ring, or GATHER once more, for a segment.
LEMMA FormOrFailStep ==
  ASSUME SearchInv, NEW d \in Daemons, FormOrFail(d)
  PROVE  SearchInv'
<1> DEFINE s == Fired(d, "Form_or_fail")
<1>1. DaemonInv(st[d], d) /\ \A p \in air : PacketInv(p)
  BY DEF SearchInv
<1>2. st[d].state = "GATHER" /\ "Form_or_fail" \in st[d].timers
  BY <1>1 DEF FormOrFail, Fire, DaemonInv, TimersOf
<1>3. /\ DOMAIN s = Fields /\ s.alive = st[d].alive /\ s.memb = st[d].memb
      /\ s.timers = {"Send_join"} \cup (IF s.alive THEN {"Memb_token_loss"} ELSE {})
  <2>1. st[d].timers \ {"Form_or_fail"} = {"Send_join"} \cup (IF st[d].alive THEN {"Memb_token_loss"} ELSE {})
    BY <1>1, <1>2 DEF DaemonInv, TimersOf
  <2> QED
    BY <2>1, FiredIs
<1>4. s.alive \in BOOLEAN /\ (s.alive => d = Leader(s.memb))
  BY <1>1, <1>2, <1>3 DEF DaemonInv, AliveMatches
<1>5. CASE CreateForm1(d, {}, s)
  <2>1. PICK p, u : /\ st' = [st EXCEPT ![d] = [ToForm(s) EXCEPT !.potential = p]]
                    /\ "kind" \in DOMAIN u /\ u.kind = "form1" /\ Sends({}, {NextForm1(u)})
    <3>1. \A list, to, pending, reps :
            LET u == [kind |-> "form1", form |-> forms + 1, to |-> to, list |-> list, n |-> 1,
                      pending |-> pending, reps |-> reps, rep |-> 1]
            IN  "kind" \in DOMAIN u /\ u.kind = "form1"
      OBVIOUS
    <3> HIDE DEF s
    <3> QED
      BY <1>5, <3>1 DEF CreateForm1
  <2>2. DaemonInv([ToForm(s) EXCEPT !.potential = p], d)
    <3> HIDE DEF s
    <3>1. s.timers \subseteq {"Memb_token_loss", "Send_join", "Form_or_fail", "Shift_to_seg"}
      BY <1>3
    <3> QED
      BY <1>3, <3>1, ToFormInv
  <2>3. \A q \in air' : PacketInv(q)
    BY <1>1, <2>1, FormPackets, SendsKeeps
  <2> HIDE DEF s
  <2> QED
    BY <2>1, <2>2, <2>3, OneDaemon
<1>6. CASE s.alive /\ st' = [st EXCEPT ![d] = ReturnToOp(s)] /\ air' = air
  <2> DEFINE t == ReturnToOp(s)
  <2> HIDE DEF s
  <2>1. /\ DOMAIN t = Fields /\ t.state = "OP" /\ t.alive = TRUE /\ t.memb = s.memb
        /\ t.timers = (s.timers \ {"Send_join"}) \cup {"Memb_lookup_new_members"}
    BY <1>3, <1>4, <1>6 DEF ReturnToOp, Fields
  <2>2. t.timers = {"Memb_token_loss", "Memb_lookup_new_members"}
    BY <1>3, <1>6, <2>1
  <2>3. DaemonInv(t, d)
    <3> HIDE DEF t
    <3> QED
      BY <1>4, <1>6, <2>1, <2>2 DEF DaemonInv, AliveMatches, TimersOf
  <2> HIDE DEF t
  <2> QED
    BY <1>1, <1>6, <2>3, OneDaemon DEF t
<1>7. ASSUME ~s.alive, air' = air,
             NEW list, NEW p, st' = [st EXCEPT ![d] = ShiftToGather([s EXCEPT !.fMembers = list, !.potential = p], d)]
      PROVE  SearchInv'
  <2> DEFINE g == [s EXCEPT !.fMembers = list, !.potential = p]
  <2> HIDE DEF s
  <2>1. DOMAIN g = Fields /\ g.alive = FALSE /\ g.timers = {"Send_join"}
    BY <1>3, <1>4, <1>7 DEF Fields
  <2> HIDE DEF g
  <2>2. g.timers \ {"Scast_alive", "Memb_lookup_new_members", "Send_join"} = {}
    BY <2>1
  <2>3. DaemonInv(ShiftToGather(g, d), d)
    BY <2>1, <2>2, ToGather
  <2> QED
    BY <1>1, <1>7, <2>3, OneDaemon DEF g
<1> QED
  BY <1>4, <1>5, <1>6, <1>7 DEF FormOrFail
--------------------------------------------------------------------------------
(* The theorem *)

\* On a ring, or just started.
LEMMA SearchInit == Init => SearchInv
<1> SUFFICES ASSUME Init PROVE SearchInv
  OBVIOUS
<1>1. \A d \in Daemons : \A r : DaemonInv(OnRing(d, r), d)
  <2> TAKE d \in Daemons
  <2> TAKE r
  <2> DEFINE t == OnRing(d, r)
  <2>1. /\ DOMAIN t = Fields /\ t.state = "OP" /\ t.alive = TRUE /\ t.memb = r
        /\ t.timers = {"Memb_token_loss"} \cup (IF d = Leader(r) THEN {"Memb_lookup_new_members"} ELSE {})
    BY DEF OnRing, Fields
  <2>2. t.timers = {"Memb_token_loss"} \cup (t.timers \cap {"Memb_lookup_new_members"})
    BY <2>1
  <2> HIDE DEF t
  <2>3. DaemonInv(t, d)
    BY <2>1, <2>2 DEF DaemonInv, AliveMatches, TimersOf
  <2> QED
    BY <2>3 DEF t
<1>2. \A d \in Daemons : DaemonInv(Started(d), d)
  <2> TAKE d \in Daemons
  <2> DEFINE t == [OnRing(d, {d}) EXCEPT !.timers = {}]
  <2>1. DOMAIN t = Fields /\ t.state = "OP" /\ t.timers = {}
    BY DEF OnRing, Fields
  <2> HIDE DEF t
  <2>2. DaemonInv(TokenLoss(t, d), d)
    BY <2>1, LossInv
  <2> QED
    BY <2>2 DEF Started, t
<1>3. DOMAIN st = Daemons /\ \A d \in Daemons : st[d] = Started(d) \/ \E r : st[d] = OnRing(d, r)
  BY DEF Init
<1>4. air = {}
  BY DEF Init
<1> QED
  BY <1>1, <1>2, <1>3, <1>4 DEF SearchInv

\* Every handler and every timer keeps the invariant.
LEMMA SearchNext == SearchInv /\ [Next]_vars => SearchInv'
<1> SUFFICES ASSUME SearchInv, [Next]_vars PROVE SearchInv'
  OBVIOUS
<1>1. CASE UNCHANGED vars
  BY <1>1 DEF vars, SearchInv
<1>2. ASSUME NEW d \in Daemons, NEW m \in air, Swallow(d, m)
      PROVE  SearchInv'
  BY <1>2 DEF Swallow, SearchInv
<1>3. ASSUME NEW d \in Daemons, Lookup(d)
      PROVE  SearchInv'
  <2>1. d = Leader(st[d].memb)
    BY <1>3 DEF Lookup, Fire, SearchInv, DaemonInv
  <2> QED
    BY <1>3, <2>1, LookupStep DEF Lookup
<1> QED
  BY <1>1, <1>2, <1>3, HandleStep, FillStep, ReadStep, ForeignStep, RegularStep, SendingSteps,
     TimeoutStep, SegAgainStep, GatherOrStep, FormOrFailStep
  DEF Next

\* The inductive invariant of the search: of each daemon the timers of its state, for whom
\* it gathers and what its F_reps begins with, of each join with whom it begins
\* (Shift_to_seg, Shift_to_gather, Memb_token_loss, Insert_rep).
THEOREM SearchInvariant == Spec => []SearchInv
<1>1. Init => SearchInv
  BY SearchInit
<1>2. SearchInv /\ [Next]_vars => SearchInv'
  BY SearchNext
<1> QED
  BY <1>1, <1>2, PTL DEF Spec

\* However many daemons search for each other, in whatever segments, and whatever is lost:
\* every state has just the timers that lead out of it, only the leader of a ring gathers
\* for it, and no daemon takes a token for lost that it does not have, which is the alarm
\* "bug !!!" of Memb_token_loss.
THEOREM SearchIsSound == Spec => []SearchSound
<1>1. SearchInv => SearchSound
  BY DEF SearchInv, DaemonInv, RepsBegin, SearchSound, TimersMatch, LeadersGather, NeverExits
<1> QED
  BY <1>1, SearchInvariant, PTL

--------------------------------------------------------------------------------
(* Lists in order *)

\* A finite set of numbers can be listed in ascending order: take the least first.
LEMMA Enumeration ==
  ASSUME NEW S \in SUBSET Nat, IsFiniteSet(S)
  PROVE  \E s \in [1..Cardinality(S) -> S] : \A i, k \in DOMAIN s : i < k => s[i] < s[k]
<1> DEFINE Lists(T) == \E s \in [1..Cardinality(T) -> T] : \A i, k \in DOMAIN s : i < k => s[i] < s[k]
           Fails == {n \in Nat : \E T \in SUBSET Nat : IsFiniteSet(T) /\ Cardinality(T) = n /\ ~Lists(T)}
           less == {ss \in Nat \X Nat : ss[1] < ss[2]}
<1>1. ASSUME Fails # {} PROVE FALSE
  <2>1. IsWellFoundedOn(less, Nat)
    BY NatLessThanWellFounded DEF OpToRel
  <2>2. \E n \in Fails : \A m \in Fails : ~(<<m, n>> \in less)
    BY <1>1, <2>1, WFMin
  <2>3. PICK n \in Fails : \A m \in Fails : ~(<<m, n>> \in less)
    BY <2>2
  <2>4. PICK T \in SUBSET Nat : IsFiniteSet(T) /\ Cardinality(T) = n /\ ~Lists(T)
    BY <2>3
  <2>5. n - 1 \notin Fails
    <3>1. n \in Nat /\ (n - 1 \in Nat => <<n - 1, n>> \in less)
      OBVIOUS
    <3>2. n - 1 \in Fails => n - 1 \in Nat
      OBVIOUS
    <3> HIDE DEF Fails, less
    <3> QED
      BY <2>3, <3>1, <3>2
  <2>6. CASE T = {}
    <3>1. Cardinality(T) = 0
      BY <2>6, FS_EmptySet
    <3>2. [i \in {} |-> 0] \in [1..Cardinality(T) -> T] /\ DOMAIN [i \in {} |-> 0] = {}
      BY <2>6, <3>1
    <3>3. Lists(T)
      BY <3>2
    <3> QED
      BY <2>4, <3>3
  <2>7. CASE T # {}
    <3> DEFINE m == Min(T)
               U == T \ {m}
    <3>1. m \in T
      BY <2>4, <2>7, MinIsIn
    <3>2. \A x \in T : m <= x
      BY <2>4, <2>7, MinIsIn
    <3>3. IsFiniteSet(U) /\ Cardinality(U) = n - 1 /\ n \in Nat
      BY <2>4, <3>1, FS_RemoveElement
    <3>4. n - 1 \in Nat
      BY <3>3, FS_CardinalityType
    <3>5. U \in SUBSET Nat
      BY <2>4
    <3>6. Lists(U)
      <4> HIDE DEF U, Lists
      <4> QED
        BY <2>5, <3>3, <3>4, <3>5
    <3>7. PICK u \in [1..(n - 1) -> U] : \A i, k \in DOMAIN u : i < k => u[i] < u[k]
      BY <3>3, <3>6
    <3> DEFINE s == [i \in 1..n |-> IF i = 1 THEN m ELSE u[i - 1]]
    <3>8. \A i \in 2..n : i - 1 \in 1..(n - 1) /\ u[i - 1] \in U
      BY <3>3, <3>7
    <3>9. s \in [1..n -> T]
      <4> HIDE DEF m
      <4> QED
        BY <3>1, <3>3, <3>8
    <3>10. ASSUME NEW i \in 1..n, NEW k \in 1..n, i < k PROVE s[i] < s[k]
      <4>1. k \in 2..n /\ s[k] = u[k - 1] /\ u[k - 1] \in U
        BY <3>3, <3>8, <3>10
      <4>2. CASE i = 1
        <5>1. s[i] = m /\ u[k - 1] \in T /\ u[k - 1] # m
          BY <4>1, <4>2
        <5>2. m <= u[k - 1] /\ m \in Nat /\ u[k - 1] \in Nat
          BY <2>4, <3>1, <3>2, <5>1
        <5> HIDE DEF m, s
        <5> QED
          BY <4>1, <5>1, <5>2
      <4>3. CASE i # 1
        <5>1. i - 1 \in 1..(n - 1) /\ k - 1 \in 1..(n - 1) /\ i - 1 < k - 1 /\ s[i] = u[i - 1]
          BY <3>3, <3>10, <4>3
        <5> QED
          BY <3>7, <4>1, <5>1
      <4> QED
        BY <4>2, <4>3
    <3>11. Lists(T)
      <4>1. DOMAIN s = 1..n
        OBVIOUS
      <4> HIDE DEF s
      <4> QED
        BY <2>4, <3>9, <3>10, <4>1
    <3> QED
      BY <2>4, <3>11
  <2> QED
    BY <2>6, <2>7
<1>2. Cardinality(S) \in Nat
  BY FS_CardinalityType
<1>3. Lists(S)
  <2> HIDE DEF Lists
  <2> QED
    BY <1>1, <1>2
<1> QED
  BY <1>3

\* What InOrder chooses: everybody once, the leader first (Smallest_member and the
\* order of a configuration).
LEMMA InOrderIs ==
  ASSUME NEW S \in SUBSET Nat, IsFiniteSet(S)
  PROVE  LET s == InOrder(S)
         IN  /\ Cardinality(S) \in Nat /\ s \in [1..Cardinality(S) -> S]
             /\ s \in Seq(S) /\ Len(s) = Cardinality(S) /\ DOMAIN s = 1..Cardinality(S)
             /\ \A i, k \in DOMAIN s : i < k => s[i] < s[k]
             /\ IsInjective(s)
             /\ \A e \in S : \E i \in DOMAIN s : s[i] = e
             /\ S # {} => Len(s) > 0 /\ s[1] = Min(S)
<1> DEFINE s == InOrder(S)
           n == Cardinality(S)
<1>1. s \in [1..n -> S] /\ \A i, k \in DOMAIN s : i < k => s[i] < s[k]
  BY Enumeration DEF InOrder
<1>2. n \in Nat
  BY FS_CardinalityType
<1> HIDE DEF s, n
<1>3. s \in Seq(S) /\ Len(s) = n /\ DOMAIN s = 1..n
  BY <1>1, <1>2
<1>4. IsInjective(s)
  <2>1. ASSUME NEW i \in 1..n, NEW k \in 1..n, s[i] = s[k], i # k PROVE FALSE
    <3>1. i < k \/ k < i
      BY <1>2, <2>1
    <3>2. s[i] < s[k] \/ s[k] < s[i]
      BY <1>1, <1>3, <3>1
    <3>3. s[i] \in S /\ s[k] \in S
      BY <1>1
    <3>4. s[i] \in Nat /\ s[k] \in Nat
      BY <3>3
    <3> QED
      BY <2>1, <3>2, <3>4
  <2> QED
    BY <1>3, <2>1 DEF IsInjective
<1>5. \A e \in S : \E i \in DOMAIN s : s[i] = e
  <2>1. s \in Injection(1..n, S)
    BY <1>1, <1>4 DEF Injection
  <2>2. IsFiniteSet(1..n) /\ Cardinality(1..n) = n
    BY <1>2, FS_Interval
  <2>3. s \in Surjection(1..n, S)
    BY <2>1, <2>2, FS_Injection DEF n
  <2> QED
    BY <1>3, <2>3 DEF Surjection
<1>6. S # {} => Len(s) > 0 /\ s[1] = Min(S)
  <2> SUFFICES ASSUME S # {} PROVE Len(s) > 0 /\ s[1] = Min(S)
    OBVIOUS
  <2>1. PICK i \in 1..n : s[i] = Min(S)
    BY <1>3, <1>5, MinIsIn
  <2>2. 1 \in 1..n /\ n > 0
    BY <1>2, <2>1
  <2>3. s[1] \in S /\ Min(S) <= s[1] /\ Min(S) \in Nat /\ s[1] \in Nat
    BY <1>1, <2>2, MinIsIn
  <2>4. i = 1 \/ 1 < i
    BY <1>2, <2>1
  <2>5. i = 1 \/ s[1] < s[i]
    BY <1>1, <1>3, <2>1, <2>2, <2>4
  <2>6. s[1] = Min(S)
    BY <2>1, <2>3, <2>5
  <2> QED
    BY <1>3, <2>2, <2>6
<1> QED
  BY <1>1, <1>2, <1>3, <1>4, <1>5, <1>6 DEF s, n

\* A list some entries of which are left out keeps its first, if that stays, and lists
\* nobody twice that was not (the loops on invalid_member).
LEMMA AtIs ==
  ASSUME NEW S, NEW l \in Seq(S), NEW I \in SUBSET DOMAIN l
  PROVE  /\ At(l, I) \in Seq(S)
         /\ \A k \in DOMAIN At(l, I) : \E i \in I : At(l, I)[k] = l[i]
         /\ IsInjective(l) => IsInjective(At(l, I))
         /\ 1 \in I => Len(At(l, I)) > 0 /\ At(l, I)[1] = l[1]
<1> DEFINE o == InOrder(I)
           n == Cardinality(I)
           a == At(l, I)
<1>1. I \in SUBSET Nat /\ IsFiniteSet(I)
  <2>1. IsFiniteSet(1..Len(l)) /\ DOMAIN l = 1..Len(l)
    BY FS_Interval
  <2> QED
    BY <2>1, FS_Subset
<1>2. /\ n \in Nat /\ o \in [1..n -> I] /\ IsInjective(o) /\ DOMAIN o = 1..n
      /\ I # {} => n > 0 /\ o[1] = Min(I)
  BY <1>1, InOrderIs
<1>3. a = [k \in 1..n |-> l[o[k]]]
  BY DEF At
<1> HIDE DEF o, n, a
<1>4. \A k \in 1..n : o[k] \in I /\ o[k] \in DOMAIN l /\ l[o[k]] \in S
  BY <1>2
<1>5. a \in Seq(S) /\ Len(a) = n /\ DOMAIN a = 1..n
  BY <1>2, <1>3, <1>4
<1>6. \A k \in DOMAIN a : \E i \in I : a[k] = l[i]
  BY <1>3, <1>4, <1>5
<1>7. IsInjective(l) => IsInjective(a)
  BY <1>2, <1>3, <1>4, <1>5 DEF IsInjective
<1>8. 1 \in I => Len(a) > 0 /\ a[1] = l[1]
  <2> SUFFICES ASSUME 1 \in I PROVE Len(a) > 0 /\ a[1] = l[1]
    OBVIOUS
  <2>1. Min(I) \in I /\ Min(I) <= 1
    BY <1>1, MinIsIn
  <2>2. Min(I) = 1
    <3>1. Min(I) \in 1..Len(l)
      BY <2>1
    <3> QED
      BY <2>1, <3>1
  <2> QED
    BY <1>2, <1>3, <1>5, <2>2
<1> QED
  BY <1>5, <1>6, <1>7, <1>8 DEF a

\* Sort_members of a list that lists nobody twice: the same, none twice, the least first.
LEMMA SortMembersIs ==
  ASSUME NEW l \in Seq(Nat), IsInjective(l), Len(l) > 0
  PROVE  LET s == SortMembers(l)
         IN  /\ s \in Seq(ToSet(l)) /\ Len(s) = Len(l) /\ IsInjective(s)
             /\ \A e \in ToSet(l) : s[1] <= e
             /\ \A e \in ToSet(l) : \E i \in DOMAIN s : s[i] = e
<1> DEFINE S == ToSet(l)
           s == SortMembers(l)
           D == DOMAIN l
           Sorted(f) == /\ \A i, k \in D : i < k => f[i] <= f[k]
                        /\ \E p \in [D -> D] : IsInjective(p) /\ \A i \in D : f[i] = l[p[i]]
<1>1. D = 1..Len(l) /\ Len(l) \in Nat /\ S \in SUBSET Nat /\ \A e : e \in S <=> \E i \in D : l[i] = e
  BY DEF ToSet
<1> HIDE DEF S
<1>2. IsFiniteSet(D) /\ Cardinality(D) = Len(l)
  BY <1>1, FS_Interval
<1>3. IsFiniteSet(S) /\ Cardinality(S) = Len(l)
  <2>1. l \in Surjection(D, S) /\ l \in Injection(D, S)
    BY <1>1 DEF Surjection, Injection
  <2> QED
    BY <1>2, <2>1, FS_Surjection
<1>4. \E f \in [D -> S] : Sorted(f)
  <2> DEFINE f == InOrder(S)
             p == [i \in D |-> CHOOSE k \in D : l[k] = f[i]]
  <2>1. f \in [D -> S] /\ IsInjective(f) /\ \A i, k \in D : i < k => f[i] < f[k]
    BY <1>1, <1>3, InOrderIs
  <2> HIDE DEF f
  <2>2. \A i \in D : p[i] \in D /\ l[p[i]] = f[i]
    BY <1>1, <2>1
  <2>3. p \in [D -> D] /\ IsInjective(p)
    BY <2>1, <2>2 DEF IsInjective
  <2>4. \A i, k \in D : i < k => f[i] <= f[k]
    BY <1>1, <2>1
  <2> HIDE DEF p, D
  <2> QED
    BY <2>1, <2>2, <2>3, <2>4
<1>5. s \in [D -> S] /\ Sorted(s)
  BY <1>4 DEF SortMembers, S
<1> HIDE DEF s
<1>6. PICK p \in [D -> D] : IsInjective(p) /\ \A i \in D : s[i] = l[p[i]]
  BY <1>5
<1>7. s \in Seq(S) /\ Len(s) = Len(l) /\ DOMAIN s = D
  <2>1. s \in [1..Len(l) -> S] /\ Len(l) \in Nat
    BY <1>1, <1>5
  <2> QED
    BY <1>1, <2>1
<1>8. IsInjective(s)
  BY <1>6, <1>7 DEF IsInjective
<1>9. \A e \in S : \E i \in D : s[i] = e
  <2>1. s \in Injection(D, S)
    BY <1>5, <1>8 DEF Injection
  <2>2. s \in Surjection(D, S)
    BY <1>2, <1>3, <2>1, FS_Injection
  <2> QED
    BY <2>2 DEF Surjection
<1>10. \A e \in S : s[1] <= e
  <2> SUFFICES ASSUME NEW e \in S PROVE s[1] <= e
    OBVIOUS
  <2>1. PICK i \in D : s[i] = e
    BY <1>9
  <2>2. i = 1 \/ 1 < i
    BY <1>1
  <2>3. s[1] \in Nat /\ 1 \in D
    <3>1. 1 \in D
      BY <1>1
    <3>2. s[1] \in S
      BY <1>5, <3>1
    <3> QED
      BY <1>1, <3>1, <3>2
  <2>4. s[1] = e \/ s[1] <= e
    BY <1>5, <2>1, <2>2, <2>3
  <2> QED
    BY <2>3, <2>4
<1> QED
  BY <1>7, <1>8, <1>9, <1>10 DEF S, s

--------------------------------------------------------------------------------
(* The inductive invariant *)

TokenFields == {"kind", "form", "to", "list", "n", "pending", "reps", "rep"}
IsForm(m) == m.kind \in {"form1", "form2"}

\* Who has had a form1 token and not yet its form2.
Waiting(t) ==
  IF t.kind = "form1" THEN {t.list[i] : i \in 1..t.n} ELSE {t.list[i] : i \in (t.n + 1)..Len(t.list)}

\* The list of a form1 token: those who have had it, each once, then those who have not.
Form1Inv(t) ==
  /\ t.list \in Seq(Daemons) /\ t.n \in 1..Len(t.list) /\ t.pending \in Nat
  /\ Len(t.list) = t.n + t.pending
  /\ \A i, k \in 1..t.n : t.list[i] = t.list[k] => i = k

\* The list of a form2 token: nobody twice.
Form2Inv(t) ==
  /\ t.list \in Seq(Daemons) /\ IsInjective(t.list)
  /\ t.n \in 0..Len(t.list) /\ t.pending = Len(t.list) - t.n

TokenInv(t) ==
  /\ DOMAIN t = TokenFields
  /\ t.kind = "form1" => Form1Inv(t)
  /\ t.kind = "form2" => Form2Inv(t)

\* What is on its way, but for who waits for it.
OnItsWay(m) ==
  /\ m.kind \in {"alive", "join"} => m.from \in Daemons
  /\ IsForm(m) => TokenInv(m)

\* F_members is in use, d its first.
Heard(s) == s.state = "SEG" \/ (s.state = "GATHER" /\ ~s.alive)

\* The membership of a daemon, and whom it has heard of in its segment.
MembersInv(s, d) ==
  /\ s.memb \subseteq Daemons /\ d \in s.memb
  /\ s.state = "EVS" => s.next.memb \subseteq Daemons /\ d \in s.next.memb
  /\ Heard(s) \/ s.state = "REPRESENTED" => s.memb = {d}
  /\ Heard(s) => /\ s.fMembers \in Seq(Daemons) /\ Len(s.fMembers) > 0 /\ s.fMembers[1] = d
                 /\ IsInjective(s.fMembers)
  /\ ~Heard(s) => s.fMembers = <<>>

\* All who have had a token wait for it in FORM, and for no other.  That is so until an
\* entry is counted that nobody has written, which leads the token to somebody else.
FormInv ==
  /\ SearchInv
  /\ \A d \in Daemons : MembersInv(st[d], d)
  /\ \A m \in air : OnItsWay(m)
  /\ \A t \in air : IsForm(t) => \A e \in Waiting(t) : st[e].state = "FORM"
  /\ \A t, u \in air : IsForm(t) /\ IsForm(u) /\ t # u => Waiting(t) \cap Waiting(u) = {}

--------------------------------------------------------------------------------
(* The tokens *)

\* Who waits for a token is a daemon.
LEMMA WaitingAreDaemons ==
  ASSUME NEW t, IsForm(t), TokenInv(t)
  PROVE  Waiting(t) \subseteq Daemons
<1>1. CASE t.kind = "form1"
  BY <1>1 DEF TokenInv, Form1Inv, Waiting
<1>2. CASE t.kind = "form2"
  BY <1>2 DEF TokenInv, Form2Inv, Waiting
<1> QED
  BY <1>1, <1>2 DEF IsForm

\* A form1 token that goes on, or comes back as form2, sorted.
LEMMA NextForm1Inv ==
  ASSUME NEW t, TokenInv(t), t.kind = "form1"
  PROVE  /\ IsForm(NextForm1(t)) /\ TokenInv(NextForm1(t))
         /\ Waiting(NextForm1(t)) \subseteq Waiting(t)
<1> DEFINE u == NextForm1(t)
           s == SortMembers(t.list)
<1>1. DOMAIN t = TokenFields /\ Form1Inv(t)
  BY DEF TokenInv
<1>2. ASSUME NEW to, u = [t EXCEPT !.to = to]
      PROVE  IsForm(u) /\ TokenInv(u) /\ Waiting(u) \subseteq Waiting(t)
  <2> HIDE DEF u
  <2>1. /\ DOMAIN u = TokenFields /\ u.kind = "form1" /\ u.list = t.list /\ u.n = t.n
        /\ u.pending = t.pending
    BY <1>1, <1>2 DEF TokenFields
  <2> QED
    BY <1>1, <2>1 DEF TokenInv, Form1Inv, IsForm, Waiting
<1>3. CASE ~(t.pending > 0) /\ ~(t.rep < Len(t.reps))
  <2>1. u = [t EXCEPT !.kind = "form2", !.to = s[1], !.list = s, !.n = 0, !.pending = Len(s)]
    BY <1>3 DEF NextForm1
  <2> HIDE DEF u, s
  <2>2. /\ DOMAIN u = TokenFields /\ u.kind = "form2" /\ u.to = s[1] /\ u.list = s /\ u.n = 0
        /\ u.pending = Len(s)
    BY <1>1, <2>1 DEF TokenFields
  <2>3. t.n = Len(t.list) /\ Len(t.list) \in Nat /\ Len(t.list) > 0
    BY <1>1, <1>3 DEF Form1Inv
  <2>4. t.list \in Seq(Daemons) /\ IsInjective(t.list) /\ DOMAIN t.list = 1..t.n
    BY <1>1, <2>3 DEF Form1Inv, IsInjective
  <2>5. t.list \in Seq(Nat)
    <3>1. Daemons \subseteq Nat
      BY DEF Daemons
    <3> QED
      BY <2>4, <3>1, SeqMonotonic
  <2>6. s \in Seq(ToSet(t.list)) /\ Len(s) = Len(t.list) /\ IsInjective(s)
    BY <2>3, <2>4, <2>5, SortMembersIs DEF s
  <2>7. \A e : e \in ToSet(t.list) <=> \E i \in 1..t.n : t.list[i] = e
    BY <2>4 DEF ToSet
  <2>8. ToSet(t.list) \subseteq Daemons
    <3>1. \A i \in 1..t.n : t.list[i] \in Daemons
      BY <2>3, <2>4
    <3> QED
      BY <2>7, <3>1
  <2>9. s \in Seq(Daemons)
    BY <2>6, <2>8, SeqMonotonic
  <2>10. Form2Inv(u)
    BY <2>2, <2>3, <2>6, <2>9 DEF Form2Inv
  <2>11. Waiting(u) \subseteq Waiting(t)
    <3>1. \A i \in 1..Len(s) : s[i] \in ToSet(t.list)
      BY <2>6
    <3>2. ToSet(t.list) \subseteq Waiting(t)
      BY <2>7 DEF Waiting
    <3>3. Waiting(u) \subseteq {s[i] : i \in 1..Len(s)}
      BY <2>2 DEF Waiting
    <3> QED
      BY <3>1, <3>2, <3>3
  <2> QED
    BY <2>2, <2>10, <2>11 DEF TokenInv, IsForm, u
<1>4. CASE t.pending > 0 \/ t.rep < Len(t.reps)
  <2>1. \E to : u = [t EXCEPT !.to = to]
    BY <1>4 DEF NextForm1
  <2> HIDE DEF u
  <2>2. IsForm(u) /\ TokenInv(u) /\ Waiting(u) \subseteq Waiting(t)
    BY <1>2, <2>1
  <2> QED
    BY <2>2 DEF u
<1> QED
  BY <1>3, <1>4

\* A step of daemon d, x afterwards, that leaves A of what was on its way and sends a token
\* u: those who wait for u, d or some of W, wait in FORM and for nothing of A.
Passes(d, x, A, u, W) ==
  /\ st' = [st EXCEPT ![d] = x] /\ MembersInv(x, d)
  /\ A \subseteq air /\ air' \subseteq A \cup {u}
  /\ IsForm(u) /\ TokenInv(u) /\ Waiting(u) \subseteq W \cup {d}
  /\ x.state = "FORM" \/ d \notin Waiting(u)
  /\ \A v \in A : IsForm(v) => d \notin Waiting(v) /\ Waiting(v) \cap W = {}
  /\ \A e \in W : st[e].state = "FORM"

\* Such a step keeps the invariant.
LEMMA StepKeeps ==
  ASSUME FormInv, SearchInv', NEW d \in Daemons, NEW x, NEW A, NEW u, NEW W, Passes(d, x, A, u, W)
  PROVE  FormInv'
<1> USE DEF Passes
<1>1. DOMAIN st = Daemons
  BY DEF FormInv, SearchInv
<1>2. ASSUME NEW e \in Daemons PROVE MembersInv(st[e], e)' /\ st'[e] = IF e = d THEN x ELSE st[e]
  <2>1. CASE e = d
    <3>1. st'[e] = x
      BY <1>1, <2>1
    <3> QED
      BY <2>1, <3>1 DEF MembersInv, Heard
  <2>2. CASE e # d
    <3>1. st'[e] = st[e] /\ MembersInv(st[e], e)
      BY <1>1, <2>2 DEF FormInv
    <3> QED
      BY <2>2, <3>1 DEF MembersInv, Heard
  <2> QED
    BY <2>1, <2>2
<1>3. ASSUME NEW m \in air' PROVE OnItsWay(m) /\ (m = u \/ (m \in A /\ m \in air))
  <2>1. OnItsWay(u)
    BY DEF OnItsWay, IsForm
  <2> QED
    BY <2>1 DEF FormInv
<1>4. ASSUME NEW t \in air', IsForm(t), NEW e \in Waiting(t) PROVE st'[e].state = "FORM"
  <2>1. e \in Daemons
    BY <1>3, <1>4, WaitingAreDaemons DEF OnItsWay
  <2>2. st'[e] = IF e = d THEN x ELSE st[e]
    BY <1>2, <2>1
  <2>3. CASE t = u
    BY <1>4, <2>2, <2>3
  <2>4. CASE t # u
    BY <1>3, <1>4, <2>2, <2>4 DEF FormInv
  <2> QED
    BY <2>3, <2>4
<1>5. ASSUME NEW t \in A, IsForm(t) PROVE Waiting(t) \cap Waiting(u) = {}
  BY <1>5
<1>6. ASSUME NEW t \in air', NEW v \in air', IsForm(t), IsForm(v), t # v
      PROVE  Waiting(t) \cap Waiting(v) = {}
  <2>1. (t = u \/ (t \in A /\ t \in air)) /\ (v = u \/ (v \in A /\ v \in air))
    BY <1>3
  <2>2. CASE t = u
    BY <1>5, <1>6, <2>1, <2>2
  <2>3. CASE v = u
    BY <1>5, <1>6, <2>1, <2>3
  <2>4. CASE t # u /\ v # u
    BY <1>6, <2>1, <2>4 DEF FormInv
  <2> QED
    BY <2>2, <2>3, <2>4
<1> QED
  BY <1>2, <1>3, <1>4, <1>6 DEF FormInv, OnItsWay, TokenInv, Form1Inv, Form2Inv, Waiting, IsForm

\* A step that sends no token, of a daemon that does not leave FORM.
LEMMA QuietKeeps ==
  ASSUME FormInv, SearchInv', NEW d \in Daemons, NEW x, st' = [st EXCEPT ![d] = x],
         MembersInv(x, d), st[d].state = "FORM" => x.state = "FORM",
         NEW U, air' \subseteq air \cup U, \A m \in U : OnItsWay(m) /\ ~IsForm(m)
  PROVE  FormInv'
<1>1. DOMAIN st = Daemons
  BY DEF FormInv, SearchInv
<1>2. ASSUME NEW e \in Daemons PROVE MembersInv(st[e], e)' /\ (st[e].state = "FORM" => st'[e].state = "FORM")
  <2>1. CASE e = d
    <3>1. st'[e] = x
      BY <1>1, <2>1
    <3> QED
      BY <2>1, <3>1 DEF MembersInv, Heard
  <2>2. CASE e # d
    <3>1. st'[e] = st[e] /\ MembersInv(st[e], e)
      BY <1>1, <2>2 DEF FormInv
    <3> QED
      BY <3>1 DEF MembersInv, Heard
  <2> QED
    BY <2>1, <2>2
<1>3. ASSUME NEW m \in air' PROVE OnItsWay(m) /\ (IsForm(m) => m \in air)
  BY DEF FormInv
<1>4. ASSUME NEW t \in air', IsForm(t), NEW e \in Waiting(t) PROVE st'[e].state = "FORM"
  <2>1. e \in Daemons
    BY <1>3, <1>4, WaitingAreDaemons DEF OnItsWay
  <2> QED
    BY <1>2, <1>3, <1>4, <2>1 DEF FormInv
<1>5. ASSUME NEW t \in air', NEW v \in air', IsForm(t), IsForm(v), t # v
      PROVE  Waiting(t) \cap Waiting(v) = {}
  BY <1>3, <1>5 DEF FormInv
<1> QED
  BY <1>2, <1>3, <1>4, <1>5 DEF FormInv, OnItsWay, TokenInv, Form1Inv, Form2Inv, Waiting, IsForm

\* The same, and nothing is sent.
LEMMA SilentKeeps ==
  ASSUME FormInv, SearchInv', NEW d \in Daemons, NEW x, st' = [st EXCEPT ![d] = x],
         MembersInv(x, d), st[d].state = "FORM" => x.state = "FORM", air' \subseteq air
  PROVE  FormInv'
<1>1. PICK U : U = {}
  OBVIOUS
<1>2. air' \subseteq air \cup U /\ \A m \in U : OnItsWay(m) /\ ~IsForm(m)
  BY <1>1
<1> QED
  BY <1>2, QuietKeeps

\* A step that changes no daemon and sends no token.
LEMMA NobodyKeeps ==
  ASSUME FormInv, SearchInv', st' = st,
         NEW U, air' \subseteq air \cup U, \A m \in U : OnItsWay(m) /\ ~IsForm(m)
  PROVE  FormInv'
<1>1. ASSUME NEW m \in air' PROVE OnItsWay(m) /\ (IsForm(m) => m \in air)
  BY DEF FormInv
<1>2. \A d \in Daemons : MembersInv(st[d], d)'
  BY DEF FormInv, MembersInv, Heard
<1>3. \A t \in air' : IsForm(t) => \A e \in Waiting(t) : st'[e].state = "FORM"
  BY <1>1 DEF FormInv
<1>4. \A t, u \in air' : IsForm(t) /\ IsForm(u) /\ t # u => Waiting(t) \cap Waiting(u) = {}
  BY <1>1 DEF FormInv
<1> QED
  BY <1>1, <1>2, <1>3, <1>4 DEF FormInv, OnItsWay, TokenInv, Form1Inv, Form2Inv, Waiting, IsForm

\* What else is sent comes from a daemon and is no token.
LEMMA OthersOnTheirWay ==
  ASSUME NEW d \in Daemons
  PROVE  /\ \A m \in Alive(d) : OnItsWay(m) /\ ~IsForm(m)
         /\ \A reps, to : \A m \in Join(d, reps, to) : OnItsWay(m) /\ ~IsForm(m)
         /\ \A to, rep : \A m \in Refer(d, to, rep) : OnItsWay(m) /\ ~IsForm(m)
         /\ \A to : \A m \in {[kind |-> "foreign", from |-> d, to |-> to]} : OnItsWay(m) /\ ~IsForm(m)
BY DEF Alive, Join, Refer, OnItsWay, IsForm

\* Packets are sent or lost.
LEMMA SendsIs ==
  ASSUME NEW M, NEW S, Sends(M, S)
  PROVE  air' \subseteq (air \ M) \cup S
BY DEF Sends

--------------------------------------------------------------------------------
(* Who is in the ring and who was heard of, after each handler *)

\* Insert_member lists nobody twice and leaves the first in its place.
LEMMA InsertMemberIs ==
  ASSUME NEW d \in Daemons, NEW l \in Seq(Daemons), Len(l) > 0, l[1] = d, IsInjective(l),
         NEW e \in Daemons
  PROVE  LET k == InsertMember(l, e)
         IN  k \in Seq(Daemons) /\ Len(k) > 0 /\ k[1] = d /\ IsInjective(k)
<1>1. CASE e \in ToSet(l)
  BY <1>1 DEF InsertMember
<1>2. CASE e \notin ToSet(l)
  <2> DEFINE k == Append(l, e)
  <2>1. InsertMember(l, e) = k
    BY <1>2 DEF InsertMember
  <2>2. /\ k \in Seq(Daemons) /\ Len(k) = Len(l) + 1 /\ DOMAIN k = 1..(Len(l) + 1)
        /\ \A i \in 1..Len(l) : k[i] = l[i]
        /\ k[Len(l) + 1] = e /\ Len(l) \in Nat /\ DOMAIN l = 1..Len(l)
    OBVIOUS
  <2>3. \A i \in 1..Len(l) : l[i] # e
    BY <1>2, <2>2 DEF ToSet
  <2>4. IsInjective(k)
    <3> HIDE DEF k
    <3>1. ASSUME NEW i \in 1..(Len(l) + 1), NEW j \in 1..(Len(l) + 1), k[i] = k[j] PROVE i = j
      <4>1. CASE i \in 1..Len(l) /\ j \in 1..Len(l)
        BY <2>2, <3>1, <4>1 DEF IsInjective
      <4>2. CASE i = Len(l) + 1 \/ j = Len(l) + 1
        BY <2>2, <2>3, <3>1, <4>2
      <4> QED
        BY <2>2, <4>1, <4>2
    <3> QED
      BY <2>2, <3>1 DEF IsInjective
  <2> QED
    BY <2>1, <2>2, <2>4
<1> QED
  BY <1>1, <1>2

\* Alone in its ring, having heard of itself.
LEMMA AloneIs ==
  ASSUME NEW d \in Daemons
  PROVE  <<d>> \in Seq(Daemons) /\ Len(<<d>>) > 0 /\ <<d>>[1] = d /\ IsInjective(<<d>>)
BY DEF IsInjective

\* Memb_token_loss, and what it is told of.
LEMMA LossMembers ==
  ASSUME NEW s, NEW d \in Daemons, NEW from \in Daemons, DOMAIN s = Fields,
         s.state \in {"OP", "GATHER", "FORM", "EVS"}, s.state = "GATHER" => s.alive
  PROVE  /\ TokenLoss(s, d).state = "SEG" /\ TokenLossBy(s, d, from).state = "SEG"
         /\ MembersInv(TokenLoss(s, d), d) /\ MembersInv(TokenLossBy(s, d, from), d)
<1> DEFINE lost(p) == [s EXCEPT !.potential = p, !.alive = FALSE, !.memb = {d}, !.next = NoNext]
           end(p) == [ShiftToSeg(lost(p), d) EXCEPT !.timers = TokenLossTimers(@)]
           x == TokenLoss(s, d)
           y == TokenLossBy(s, d, from)
<1>1. \E p : x = end(p)
  BY DEF TokenLoss
<1>2. \A p : /\ DOMAIN end(p) = Fields /\ end(p).state = "SEG" /\ end(p).memb = {d}
             /\ end(p).fMembers = <<d>>
  BY DEF ShiftToSeg, Fields
<1>3. y = [x EXCEPT !.fMembers = InsertMember(@, from)]
  BY DEF TokenLossBy
<1> HIDE DEF end, x, y
<1>4. DOMAIN x = Fields /\ x.state = "SEG" /\ x.memb = {d} /\ x.fMembers = <<d>>
  BY <1>1, <1>2
<1>5. y.state = "SEG" /\ y.memb = {d} /\ y.fMembers = InsertMember(<<d>>, from)
  BY <1>3, <1>4 DEF Fields
<1>6. MembersInv(x, d)
  BY <1>4, AloneIs DEF MembersInv, Heard
<1>7. MembersInv(y, d)
  BY <1>5, AloneIs, InsertMemberIs DEF MembersInv, Heard
<1> QED
  BY <1>4, <1>5, <1>6, <1>7 DEF x, y

\* Memb_handle_alive
LEMMA AliveMembers ==
  ASSUME NEW s, NEW d \in Daemons, NEW m, m.from \in Daemons, DaemonInv(s, d), MembersInv(s, d)
  PROVE  /\ MembersInv(HandleAlive(s, d, m), d)
         /\ s.state = "FORM" => HandleAlive(s, d, m).state = "FORM"
<1>1. CASE ShowsLoss(s, m)
  <2>1. s.state \in {"OP", "GATHER", "EVS"} /\ (s.state = "GATHER" => s.alive) /\ DOMAIN s = Fields
    BY <1>1 DEF ShowsLoss, DaemonInv, AliveMatches
  <2> QED
    BY <1>1, <2>1, LossMembers DEF HandleAlive
<1>2. CASE Heard(s) /\ ~ShowsLoss(s, m)
  <2> DEFINE k == InsertMember(s.fMembers, m.from)
             x == [s EXCEPT !.fMembers = k]
  <2>1. HandleAlive(s, d, m) = x
    BY <1>2 DEF HandleAlive, Heard
  <2>2. k \in Seq(Daemons) /\ Len(k) > 0 /\ k[1] = d /\ IsInjective(k)
    BY <1>2, InsertMemberIs DEF MembersInv
  <2> HIDE DEF k
  <2>3. /\ x.state = s.state /\ x.alive = s.alive /\ x.memb = s.memb /\ x.next = s.next
        /\ x.fMembers = k
    BY DEF DaemonInv, Fields
  <2> HIDE DEF x
  <2>4. MembersInv(x, d)
    BY <1>2, <2>2, <2>3 DEF MembersInv, Heard
  <2> QED
    BY <2>1, <2>3, <2>4
<1>3. CASE s.state = "REPRESENTED" /\ ~ShowsLoss(s, m)
  <2> DEFINE x == [s EXCEPT !.timers = @ \cup {"Shift_to_seg"}]
  <2>1. HandleAlive(s, d, m) = x
    BY <1>3 DEF HandleAlive
  <2>2. /\ x.state = s.state /\ x.alive = s.alive /\ x.memb = s.memb /\ x.next = s.next
        /\ x.fMembers = s.fMembers
    BY DEF DaemonInv, Fields
  <2> HIDE DEF x
  <2>3. MembersInv(x, d)
    BY <2>2 DEF MembersInv, Heard
  <2> QED
    BY <2>1, <2>2, <2>3
<1> QED
  BY <1>1, <1>2, <1>3 DEF HandleAlive, Heard

\* What keeps the state, the rings and the list keeps what is said of them.
LEMMA SameMembers ==
  ASSUME NEW s, NEW d, MembersInv(s, d), NEW x, x.state = s.state, x.alive = s.alive,
         x.memb = s.memb, x.next = s.next, x.fMembers = s.fMembers
  PROVE  MembersInv(x, d)
BY DEF MembersInv, Heard

\* Shift_to_gather keeps who was heard of; for a ring that is nobody.
LEMMA GatherMembers ==
  ASSUME NEW s, NEW d \in Daemons, DOMAIN s = Fields, s.memb \subseteq Daemons, d \in s.memb,
         s.alive \in BOOLEAN, s.alive => s.fMembers = <<>>,
         ~s.alive => /\ s.memb = {d} /\ s.fMembers \in Seq(Daemons) /\ Len(s.fMembers) > 0
                     /\ s.fMembers[1] = d /\ IsInjective(s.fMembers)
  PROVE  MembersInv(ShiftToGather(s, d), d)
<1> DEFINE x == ShiftToGather(s, d)
<1>1. x.state = "GATHER" /\ x.alive = s.alive /\ x.memb = s.memb /\ x.fMembers = s.fMembers
  BY DEF ShiftToGather, Fields
<1> HIDE DEF x
<1>2. MembersInv(x, d)
  BY <1>1 DEF MembersInv, Heard
<1> QED
  BY <1>2 DEF x

\* Shift_to_represented forgets them.
LEMMA RepresentedMembers ==
  ASSUME NEW s, NEW d \in Daemons, DOMAIN s = Fields, s.memb = {d}
  PROVE  /\ MembersInv(ShiftToRepresented(s), d)
         /\ \A g : MembersInv([ShiftToRepresented(s) EXCEPT !.segRep = g], d)
<1> DEFINE x == ShiftToRepresented(s)
           y(g) == [x EXCEPT !.segRep = g]
<1>1. DOMAIN x = Fields /\ x.state = "REPRESENTED" /\ x.memb = {d} /\ x.fMembers = <<>>
  BY DEF ShiftToRepresented, Fields
<1> HIDE DEF x
<1>2. \A g : y(g).state = "REPRESENTED" /\ y(g).memb = {d} /\ y(g).fMembers = <<>>
  BY <1>1 DEF Fields
<1> HIDE DEF y
<1>3. MembersInv(x, d) /\ \A g : MembersInv(y(g), d)
  BY <1>1, <1>2 DEF MembersInv, Heard
<1> QED
  BY <1>3 DEF x, y

\* Memb_handle_join
LEMMA JoinMembers ==
  ASSUME NEW s, NEW d \in Daemons, NEW m, m.from \in Daemons, DaemonInv(s, d), MembersInv(s, d)
  PROVE  /\ MembersInv(HandleJoin(s, d, m), d)
         /\ s.state = "FORM" => HandleJoin(s, d, m).state = "FORM"
<1>1. DOMAIN s = Fields
  BY DEF DaemonInv
<1>2. CASE s.state = "OP"
  <2>1. s.alive = TRUE /\ s.memb \subseteq Daemons /\ d \in s.memb
    BY <1>2 DEF DaemonInv, AliveMatches, MembersInv
  <2> DEFINE g == [s EXCEPT !.potential = <<m.reps[1]>>, !.fMembers = <<>>]
  <2>2. DOMAIN g = Fields /\ g.memb = s.memb /\ g.alive = s.alive /\ g.fMembers = <<>>
    BY <1>1 DEF Fields
  <2>3. MembersInv(GatherFor(s, d, m), d)
    <3> HIDE DEF g
    <3>1. MembersInv(ShiftToGather(g, d), d)
      BY <2>1, <2>2, GatherMembers
    <3> QED
      BY <3>1 DEF GatherFor, g
  <2>4. MembersInv(TokenLoss(s, d), d)
    BY <1>1, <1>2, LossMembers
  <2> QED
    BY <1>2, <2>3, <2>4 DEF HandleJoin
<1>3. CASE s.state \in {"SEG", "REPRESENTED"} /\ IsSegRep(d, m)
  <2>1. s.memb = {d}
    BY <1>3 DEF MembersInv, Heard
  <2>2. HandleJoin(s, d, m) = [ShiftToRepresented(s) EXCEPT !.segRep = m.from]
    BY <1>3 DEF HandleJoin
  <2> QED
    BY <1>1, <1>3, <2>1, <2>2, RepresentedMembers
<1>4. CASE s.state = "GATHER"
  <2> DEFINE x == [s EXCEPT !.fReps = InsertRep(@, m.reps[1]), !.potential = InsertReps(@, m.reps)]
  <2>1. HandleJoin(s, d, m) = x
    BY <1>4 DEF HandleJoin
  <2>2. x.state = s.state /\ x.alive = s.alive /\ x.memb = s.memb /\ x.next = s.next /\ x.fMembers = s.fMembers
    BY <1>1 DEF Fields
  <2> HIDE DEF x
  <2> QED
    BY <1>4, <2>1, <2>2, SameMembers
<1>5. CASE s.state = "EVS" /\ InRing(s, m.from)
  BY <1>1, <1>5, LossMembers DEF HandleJoin
<1> QED
  BY <1>2, <1>3, <1>4, <1>5 DEF HandleJoin

\* Memb_handle_refer
LEMMA ReferMembers ==
  ASSUME NEW s, NEW d \in Daemons, NEW m, DaemonInv(s, d), MembersInv(s, d)
  PROVE  /\ MembersInv(HandleRefer(s, m), d)
         /\ s.state = "FORM" => HandleRefer(s, m).state = "FORM"
<1> DEFINE x == [s EXCEPT !.potential = InsertRep(@, m.rep)]
<1>1. x.state = s.state /\ x.alive = s.alive /\ x.memb = s.memb /\ x.next = s.next /\ x.fMembers = s.fMembers
  BY DEF DaemonInv, Fields
<1>2. HandleRefer(s, m) = IF s.state = "GATHER" THEN x ELSE s
  BY DEF HandleRefer
<1> HIDE DEF x
<1> QED
  BY <1>1, <1>2, SameMembers

\* A daemon that goes on with its old ring, and one that waits in FORM.
LEMMA OpAndFormMembers ==
  ASSUME NEW s, NEW d \in Daemons, DOMAIN s = Fields, s.memb \subseteq Daemons, d \in s.memb
  PROVE  /\ MembersInv(ReturnToOp(s), d)
         /\ \A p : LET x == [ToForm(s) EXCEPT !.potential = p] IN x.state = "FORM" /\ MembersInv(x, d)
<1> DEFINE y == ReturnToOp(s)
           x(p) == [ToForm(s) EXCEPT !.potential = p]
<1>1. y.state = "OP" /\ y.memb = s.memb /\ y.fMembers = <<>>
  BY DEF ReturnToOp, Fields
<1>2. \A p : x(p).state = "FORM" /\ x(p).memb = s.memb /\ x(p).fMembers = <<>>
  BY DEF ToForm, Fields
<1> HIDE DEF x, y
<1>3. MembersInv(y, d) /\ \A p : MembersInv(x(p), d)
  BY <1>1, <1>2 DEF MembersInv, Heard
<1> QED
  BY <1>2, <1>3 DEF x, y

--------------------------------------------------------------------------------
(* Steps that send no token *)

\* Memb_handle_message
LEMMA HandleForm ==
  ASSUME FormInv, SearchInv', NEW d \in Daemons, NEW m \in air, Handle(d, m)
  PROVE  FormInv'
<1> DEFINE s == st[d]
<1>1. DaemonInv(s, d) /\ MembersInv(s, d) /\ OnItsWay(m)
  BY DEF FormInv, SearchInv
<1>2. CASE /\ m.kind = "alive" /\ Sends({m}, {})
           /\ st' = [st EXCEPT ![d] = HandleAlive(s, d, m)]
  <2> DEFINE x == HandleAlive(s, d, m)
  <2>1. m.from \in Daemons /\ air' \subseteq air /\ st' = [st EXCEPT ![d] = x]
    BY <1>1, <1>2 DEF OnItsWay, Sends
  <2>2. MembersInv(x, d) /\ (st[d].state = "FORM" => x.state = "FORM")
    BY <1>1, <2>1, AliveMembers
  <2> HIDE DEF x, s
  <2> QED
    BY <2>1, <2>2, SilentKeeps
<1>3. CASE /\ m.kind = "join" /\ Sends({m}, AnswerJoin(s, d, m))
           /\ st' = [st EXCEPT ![d] = HandleJoin(s, d, m)]
  <2> DEFINE U == AnswerJoin(s, d, m)
             x == HandleJoin(s, d, m)
  <2>1. m.from \in Daemons /\ air' \subseteq air \cup U
    BY <1>1, <1>3 DEF OnItsWay, Sends
  <2>2. \A p \in U : OnItsWay(p) /\ ~IsForm(p)
    BY OthersOnTheirWay DEF AnswerJoin
  <2>3. MembersInv(x, d) /\ (st[d].state = "FORM" => x.state = "FORM")
    BY <1>1, <2>1, JoinMembers
  <2>4. st' = [st EXCEPT ![d] = x]
    BY <1>3
  <2> HIDE DEF U, x, s
  <2> QED
    BY <2>1, <2>2, <2>3, <2>4, QuietKeeps
<1>4. CASE /\ m.kind = "refer" /\ Sends({m}, {})
           /\ st' = [st EXCEPT ![d] = HandleRefer(s, m)]
  <2> DEFINE x == HandleRefer(s, m)
  <2>1. air' \subseteq air /\ st' = [st EXCEPT ![d] = x]
    BY <1>4 DEF Sends
  <2>2. MembersInv(x, d) /\ (st[d].state = "FORM" => x.state = "FORM")
    BY <1>1, ReferMembers
  <2> HIDE DEF x, s
  <2> QED
    BY <2>1, <2>2, SilentKeeps
<1> QED
  BY <1>2, <1>3, <1>4 DEF Handle

\* Memb_lookup_new_members, in OP.
LEMMA LookupForm ==
  ASSUME FormInv, SearchInv', NEW d \in Daemons, st[d].state = "OP", NEW M, LookupNewMembers(d, M)
  PROVE  FormInv'
<1> DEFINE s == [st[d] EXCEPT !.potential = <<>>, !.timers = @ \ {"Memb_lookup_new_members"}]
<1>1. DaemonInv(st[d], d) /\ MembersInv(st[d], d)
  BY DEF FormInv, SearchInv
<1>2. /\ DOMAIN s = Fields /\ s.state = "OP" /\ s.alive = st[d].alive /\ s.memb = st[d].memb
      /\ s.next = st[d].next /\ s.fMembers = st[d].fMembers
  BY <1>1 DEF DaemonInv, Fields
<1>3. s.alive = TRUE /\ s.fMembers = <<>> /\ s.memb \subseteq Daemons /\ d \in s.memb
  BY <1>1, <1>2 DEF DaemonInv, AliveMatches, MembersInv, Heard
<1>4. PICK to : /\ st' = [st EXCEPT ![d] = s] \/ st' = [st EXCEPT ![d] = ShiftToGather(s, d)]
                /\ Sends(M, Join(d, <<Rep(d, "RING")>>, to))
  BY DEF LookupNewMembers
<1> DEFINE U == Join(d, <<Rep(d, "RING")>>, to)
<1>5. air' \subseteq air \cup U /\ \A p \in U : OnItsWay(p) /\ ~IsForm(p)
  BY <1>4, OthersOnTheirWay DEF Sends
<1> HIDE DEF s, U
<1>6. MembersInv(s, d) /\ MembersInv(ShiftToGather(s, d), d)
  BY <1>1, <1>2, <1>3, SameMembers, GatherMembers
<1>7. st[d].state # "FORM"
  OBVIOUS
<1> QED
  BY <1>4, <1>5, <1>6, <1>7, QuietKeeps

\* Memb_handle_foreign
LEMMA ForeignForm ==
  ASSUME FormInv, SearchInv', NEW d \in Daemons, ReceiveForeign(d)
  PROVE  FormInv'
<1>1. PICK M : HandleForeign(d, M)
  BY DEF ReceiveForeign
<1>2. st[d].state = "OP" /\ DaemonInv(st[d], d) /\ MembersInv(st[d], d)
  BY <1>1 DEF HandleForeign, FormInv, SearchInv
<1>3. CASE LookupNewMembers(d, M)
  BY <1>2, <1>3, LookupForm
<1>4. CASE ~LookupNewMembers(d, M)
  <2> DEFINE x == [st[d] EXCEPT !.foreign = TRUE]
  <2>1. PICK to : /\ Sends(M, {[kind |-> "foreign", from |-> d, to |-> to]})
                  /\ st' = [st EXCEPT ![d] = x]
    BY <1>1, <1>4 DEF HandleForeign
  <2>2. /\ x.state = st[d].state /\ x.alive = st[d].alive /\ x.memb = st[d].memb /\ x.next = st[d].next
        /\ x.fMembers = st[d].fMembers
    BY <1>2 DEF DaemonInv, Fields
  <2> DEFINE U == {[kind |-> "foreign", from |-> d, to |-> to]}
  <2>3. air' \subseteq air \cup U /\ \A p \in U : OnItsWay(p) /\ ~IsForm(p)
    BY <2>1, OthersOnTheirWay DEF Sends
  <2> HIDE DEF x, U
  <2>4. MembersInv(x, d) /\ st' = [st EXCEPT ![d] = x]
    BY <1>2, <2>1, <2>2, SameMembers
  <2>5. st[d].state = "FORM" => x.state = "FORM"
    BY <1>2
  <2> QED
    BY <2>3, <2>4, <2>5, QuietKeeps
<1> QED
  BY <1>3, <1>4

\* Memb_regular: the future membership is the daemon's own.
LEMMA RegularForm ==
  ASSUME FormInv, SearchInv', NEW d \in Daemons, Regular(d)
  PROVE  FormInv'
<1> DEFINE s == st[d]
           x == [s EXCEPT !.state = "OP", !.memb = s.next.memb, !.next = NoNext, !.foreign = FALSE,
                          !.timers = IF d = Leader(s.next.memb) THEN @ \cup {"Memb_lookup_new_members"} ELSE @]
<1>1. DaemonInv(s, d) /\ MembersInv(s, d) /\ s.state = "EVS"
  BY DEF FormInv, SearchInv, Regular
<1>2. st' = [st EXCEPT ![d] = x] /\ air' \subseteq air
  BY DEF Regular
<1>3. x.state = "OP" /\ x.memb = s.next.memb /\ x.fMembers = s.fMembers
  BY <1>1 DEF DaemonInv, Fields
<1> HIDE DEF x
<1>4. MembersInv(x, d)
  BY <1>1, <1>3 DEF MembersInv, Heard
<1> QED
  BY <1>1, <1>2, <1>4, SilentKeeps

\* Scast_alive and Send_join
LEMMA SendingForm ==
  ASSUME FormInv, SearchInv', NEW d \in Daemons, ScastAlive(d) \/ SendJoin(d)
  PROVE  FormInv'
<1>1. PICK U : air' \subseteq air \cup U /\ \A p \in U : OnItsWay(p) /\ ~IsForm(p)
  <2>1. CASE ScastAlive(d)
    BY <2>1, OthersOnTheirWay DEF ScastAlive, Sends
  <2>2. CASE SendJoin(d)
    <3>1. PICK reps, to : Sends({}, Join(d, reps, to))
      BY <2>2 DEF SendJoin
    <3> QED
      BY <3>1, OthersOnTheirWay DEF Sends
  <2> QED
    BY <2>1, <2>2
<1>2. st' = st
  BY DEF ScastAlive, SendJoin
<1> QED
  BY <1>1, <1>2, NobodyKeeps

\* Shift_to_seg
LEMMA SegAgainForm ==
  ASSUME FormInv, SearchInv', NEW d \in Daemons, SegAgain(d)
  PROVE  FormInv'
<1> DEFINE s == Fired(d, "Shift_to_seg")
           x == ShiftToSeg(s, d)
<1>1. DaemonInv(st[d], d) /\ MembersInv(st[d], d) /\ SearchInv
  BY DEF FormInv, SearchInv
<1>2. st' = [st EXCEPT ![d] = x] /\ air' \subseteq air
  BY DEF SegAgain
<1>3. st[d].state = "REPRESENTED"
  BY <1>1 DEF SegAgain, Fire, DaemonInv, TimersOf
<1>4. DOMAIN s = Fields /\ s.memb = {d}
  BY <1>1, <1>3, FiredIs DEF MembersInv
<1> HIDE DEF s
<1>5. x.state = "SEG" /\ x.memb = {d} /\ x.fMembers = <<d>>
  BY <1>4 DEF ShiftToSeg, Fields
<1> HIDE DEF x
<1>6. MembersInv(x, d)
  BY <1>5, AloneIs DEF MembersInv, Heard
<1> QED
  BY <1>2, <1>3, <1>6, SilentKeeps

\* Gather_or_represented
LEMMA GatherOrForm ==
  ASSUME FormInv, SearchInv', NEW d \in Daemons, GatherOrRepresented(d)
  PROVE  FormInv'
<1> DEFINE f == Fired(d, "Gather_or_represented")
           s == [f EXCEPT !.segRep = 0]
           x == ShiftToGather(s, d)
           y == ShiftToRepresented(s)
<1>1. DaemonInv(st[d], d) /\ MembersInv(st[d], d) /\ SearchInv
  BY DEF FormInv, SearchInv
<1>2. (st' = [st EXCEPT ![d] = x] \/ st' = [st EXCEPT ![d] = y]) /\ air' \subseteq air
  BY DEF GatherOrRepresented
<1>3. st[d].state = "SEG" /\ st[d].alive = FALSE
  BY <1>1 DEF GatherOrRepresented, Fire, DaemonInv, AliveMatches, TimersOf
<1>4. f = [st[d] EXCEPT !.timers = @ \ {"Gather_or_represented"}]
  BY DEF Fired
<1> HIDE DEF f
<1>5. /\ DOMAIN s = Fields /\ s.memb = {d} /\ s.alive = FALSE /\ s.fMembers = st[d].fMembers
  BY <1>1, <1>3, <1>4 DEF DaemonInv, Fields, MembersInv, Heard
<1> HIDE DEF s
<1>6. /\ s.memb \subseteq Daemons /\ d \in s.memb /\ s.fMembers \in Seq(Daemons)
      /\ Len(s.fMembers) > 0 /\ s.fMembers[1] = d /\ IsInjective(s.fMembers)
  BY <1>1, <1>3, <1>5 DEF MembersInv, Heard
<1>7. MembersInv(x, d) /\ MembersInv(y, d)
  BY <1>5, <1>6, GatherMembers, RepresentedMembers
<1> HIDE DEF x, y
<1> QED
  BY <1>2, <1>3, <1>7, SilentKeeps

\* Form_or_fail, when it makes no token.
LEMMA FailForm ==
  ASSUME FormInv, SearchInv', NEW d \in Daemons, FormOrFail(d),
         ~CreateForm1(d, {}, Fired(d, "Form_or_fail"))
  PROVE  FormInv'
<1> DEFINE s == Fired(d, "Form_or_fail")
           g(p) == [s EXCEPT !.fMembers = <<d>>, !.potential = p]
           y == ReturnToOp(s)
<1>1. DaemonInv(st[d], d) /\ MembersInv(st[d], d) /\ SearchInv
  BY DEF FormInv, SearchInv
<1>2. st[d].state = "GATHER" /\ st[d].alive \in BOOLEAN
  BY <1>1 DEF FormOrFail, Fire, DaemonInv, AliveMatches, TimersOf
<1>3. DOMAIN s = Fields /\ s.alive = st[d].alive /\ s.memb = st[d].memb
  BY <1>1, FiredIs
<1>4. /\ air' \subseteq air
      /\ \/ s.alive /\ st' = [st EXCEPT ![d] = y]
         \/ ~s.alive /\ \E p : st' = [st EXCEPT ![d] = ShiftToGather(g(p), d)]
  BY DEF FormOrFail
<1> HIDE DEF s
<1>5. s.memb \subseteq Daemons /\ d \in s.memb /\ (~s.alive => s.memb = {d})
  BY <1>1, <1>2, <1>3 DEF MembersInv, Heard
<1>6. MembersInv(y, d)
  BY <1>3, <1>5, OpAndFormMembers
<1>7. ASSUME NEW p, ~s.alive PROVE MembersInv(ShiftToGather(g(p), d), d)
  <2>1. /\ DOMAIN g(p) = Fields /\ g(p).alive = FALSE /\ g(p).memb = {d} /\ g(p).fMembers = <<d>>
    BY <1>2, <1>3, <1>5, <1>7 DEF Fields
  <2> HIDE DEF g
  <2> QED
    BY <1>5, <2>1, AloneIs, GatherMembers
<1> HIDE DEF y, g
<1>8. PICK x : st' = [st EXCEPT ![d] = x] /\ MembersInv(x, d)
  BY <1>4, <1>6, <1>7
<1>9. st[d].state = "FORM" => x.state = "FORM"
  BY <1>2
<1> QED
  BY <1>4, <1>8, <1>9, SilentKeeps

\* A packet or token is lost.
LEMMA SwallowForm ==
  ASSUME FormInv, SearchInv', NEW d \in Daemons, NEW m \in air, Swallow(d, m)
  PROVE  FormInv'
<1>1. PICK U : U = {}
  OBVIOUS
<1>2. st' = st /\ air' \subseteq air \cup U /\ \A p \in U : OnItsWay(p) /\ ~IsForm(p)
  BY <1>1 DEF Swallow
<1> QED
  BY <1>2, NobodyKeeps

--------------------------------------------------------------------------------
(* The timer of the token *)

\* A step in which d changes and nothing is sent, if d waits for nothing that is left.
LEMMA LeavesKeeps ==
  ASSUME FormInv, SearchInv', NEW d \in Daemons, NEW x, st' = [st EXCEPT ![d] = x],
         MembersInv(x, d), air' \subseteq air,
         \A t \in air' : IsForm(t) => d \notin Waiting(t)
  PROVE  FormInv'
<1>1. DOMAIN st = Daemons
  BY DEF FormInv, SearchInv
<1>2. ASSUME NEW e \in Daemons PROVE MembersInv(st[e], e)' /\ (e # d => st'[e] = st[e])
  <2>1. CASE e = d
    <3>1. st'[e] = x
      BY <1>1, <2>1
    <3> QED
      BY <2>1, <3>1 DEF MembersInv, Heard
  <2>2. CASE e # d
    <3>1. st'[e] = st[e] /\ MembersInv(st[e], e)
      BY <1>1, <2>2 DEF FormInv
    <3> QED
      BY <3>1 DEF MembersInv, Heard
  <2> QED
    BY <2>1, <2>2
<1>3. ASSUME NEW m \in air' PROVE OnItsWay(m) /\ m \in air
  BY DEF FormInv
<1>4. ASSUME NEW t \in air', IsForm(t), NEW e \in Waiting(t) PROVE st'[e].state = "FORM"
  <2>1. e \in Daemons /\ e # d
    BY <1>3, <1>4, WaitingAreDaemons DEF OnItsWay
  <2> QED
    BY <1>2, <1>3, <1>4, <2>1 DEF FormInv
<1>5. ASSUME NEW t \in air', NEW v \in air', IsForm(t), IsForm(v), t # v
      PROVE  Waiting(t) \cap Waiting(v) = {}
  BY <1>3, <1>5 DEF FormInv
<1> QED
  BY <1>2, <1>3, <1>4, <1>5 DEF FormInv, OnItsWay, TokenInv, Form1Inv, Form2Inv, Waiting, IsForm

\* A daemon whose timer runs out does not wait for a token that is left: the timer is
\* longer than a token stays on its way.
LEMMA TimeoutForm ==
  ASSUME FormInv, SearchInv', unwritten = <<>>, NEW d \in Daemons, TokenTimeout(d)
  PROVE  FormInv'
<1> DEFINE s == Fired(d, "Memb_token_loss")
           x == TokenLoss(s, d)
<1>1. DaemonInv(st[d], d) /\ SearchInv
  BY DEF FormInv, SearchInv
<1>2. st' = [st EXCEPT ![d] = x] /\ air' = air \ Stale(d) /\ "Memb_token_loss" \in st[d].timers
  BY DEF TokenTimeout, Fire
<1>3. st[d].state \in {"OP", "GATHER", "FORM", "EVS"} /\ (st[d].state = "GATHER" => st[d].alive)
  BY <1>1, <1>2 DEF DaemonInv, AliveMatches, TimersOf
<1>4. DOMAIN s = Fields /\ s.state = st[d].state /\ s.alive = st[d].alive
  BY <1>1, FiredIs
<1> HIDE DEF s
<1>5. MembersInv(x, d)
  BY <1>3, <1>4, LossMembers
<1>6. ASSUME NEW t \in air, IsForm(t), d \in Waiting(t) PROVE t \in Stale(d)
  <2> ~Strange(d, t)
    BY DEF Strange
  <2>1. TokenInv(t)
    BY <1>6 DEF FormInv, OnItsWay
  <2>2. CASE t.kind = "form1"
    <3>1. t.list \in Seq(Daemons) /\ t.n \in 1..Len(t.list)
      BY <2>1, <2>2 DEF TokenInv, Form1Inv
    <3>2. PICK i \in 1..t.n : t.list[i] = d
      BY <1>6, <2>2 DEF Waiting
    <3> DEFINE q == SubSeq(t.list, 1, t.n)
    <3>3. DOMAIN q = 1..t.n /\ q[i] = t.list[i] /\ i \in DOMAIN t.list
      BY <3>1, <3>2
    <3> HIDE DEF q
    <3>4. d \in ToSet(q) /\ d \in ToSet(t.list)
      BY <3>2, <3>3 DEF ToSet
    <3> QED
      BY <1>6, <2>2, <3>4 DEF Stale, q
  <2>3. CASE t.kind = "form2"
    <3>1. t.list \in Seq(Daemons) /\ t.n \in 0..Len(t.list)
      BY <1>6, <2>1, <2>3 DEF TokenInv, Form2Inv, Waiting
    <3>2. PICK i \in (t.n + 1)..Len(t.list) : t.list[i] = d
      BY <1>6, <2>3, <3>1 DEF Waiting
    <3>3. i \in DOMAIN t.list
      BY <3>1, <3>2
    <3> QED
      BY <2>3, <3>2, <3>3 DEF Stale, ToSet
  <2> QED
    BY <1>6, <2>2, <2>3 DEF IsForm
<1>7. \A t \in air' : IsForm(t) => d \notin Waiting(t)
  BY <1>2, <1>6
<1> HIDE DEF x
<1> QED
  BY <1>2, <1>5, <1>7, LeavesKeeps

--------------------------------------------------------------------------------
(* Tokens go on *)

\* A daemon takes token t and sends u in its place: for that only those wait who have
\* waited for t or, if it waits for it now, the daemon itself.
LEMMA PassKeeps ==
  ASSUME FormInv, SearchInv', NEW d \in Daemons, NEW x, st' = [st EXCEPT ![d] = x],
         MembersInv(x, d), NEW t \in air, IsForm(t), NEW u, air' \subseteq (air \ {t}) \cup {u},
         IsForm(u), TokenInv(u), Waiting(u) \subseteq Waiting(t) \cup {d},
         x.state = "FORM" \/ d \notin Waiting(u),
         \A v \in air \ {t} : IsForm(v) => d \notin Waiting(v)
  PROVE  FormInv'
<1> DEFINE A == air \ {t}
           W == Waiting(t)
<1>1. A \in SUBSET air /\ air' \subseteq A \cup {u} /\ Waiting(u) \subseteq W \cup {d}
  OBVIOUS
<1>2. \A e \in W : st[e].state = "FORM"
  BY DEF FormInv
<1>3. \A v \in A : IsForm(v) => d \notin Waiting(v) /\ Waiting(v) \cap W = {}
  BY DEF FormInv
<1>4. Passes(d, x, A, u, W)
  BY <1>1, <1>2, <1>3 DEF Passes
<1> QED
  BY <1>4, StepKeeps

\* Memb_handle_form2: the reader leaves FORM, and has been waiting for this token alone.
LEMMA ReadForm ==
  ASSUME FormInv, SearchInv', unwritten = <<>>, NEW d \in Daemons, NEW t \in air, ReadForm2(d, t)
  PROVE  FormInv'
<1> DEFINE s == st[d]
           next == [form |-> t.form, memb |-> ToSet(t.list)]
           x == [s EXCEPT !.state = "EVS", !.alive = TRUE, !.potential = <<>>, !.next = next]
           read == [t EXCEPT !.n = @ + 1, !.pending = @ - 1]
           u == [read EXCEPT !.to = t.list[read.n + 1]]
<1>1. /\ t.kind = "form2" /\ t.to = d /\ IsForm(t) /\ s.state = "FORM" /\ t.pending > 0
      /\ t.list[t.n + 1] = d
  BY DEF ReadForm2, TakesForm2, IsForm
<1>2. /\ DOMAIN t = TokenFields /\ t.list \in Seq(Daemons) /\ IsInjective(t.list)
      /\ t.n \in 0..Len(t.list) /\ t.pending = Len(t.list) - t.n
  BY <1>1 DEF FormInv, OnItsWay, TokenInv, Form2Inv
<1>3. MembersInv(s, d) /\ DOMAIN s = Fields
  BY DEF FormInv, SearchInv, DaemonInv
<1>4. t.n + 1 \in 1..Len(t.list) /\ t.n + 1 \in DOMAIN t.list
  BY <1>1, <1>2
<1>5. MembersInv(x, d)
  <2>1. ToSet(t.list) \subseteq Daemons /\ d \in ToSet(t.list)
    BY <1>1, <1>2, <1>4 DEF ToSet
  <2>2. s.fMembers = <<>> /\ s.memb \subseteq Daemons /\ d \in s.memb
    BY <1>1, <1>3 DEF MembersInv, Heard
  <2>3. x.state = "EVS" /\ x.memb = s.memb /\ x.next = next /\ x.fMembers = s.fMembers
    BY <1>3 DEF Fields
  <2>4. next.memb = ToSet(t.list)
    OBVIOUS
  <2> HIDE DEF x, next
  <2> QED
    BY <2>1, <2>2, <2>3, <2>4 DEF MembersInv, Heard
<1>6. d \in Waiting(t)
  BY <1>1, <1>2, <1>4 DEF Waiting
<1>7. \A v \in air \ {t} : IsForm(v) => d \notin Waiting(v)
  BY <1>1, <1>6 DEF FormInv
<1>8. st' = [st EXCEPT ![d] = x] /\ (air' \subseteq air \ {t} \/ air' \subseteq (air \ {t}) \cup {u})
  <2>1. ~Strange(d, t)
    BY DEF Strange
  <2>2. Sends({t}, {}) \/ Sends({t}, {u})
    BY DEF ReadForm2
  <2> QED
    BY <2>1, <2>2 DEF ReadForm2, Sends
<1>9. DOMAIN read = TokenFields /\ read.kind = "form2" /\ read.list = t.list
      /\ read.n = t.n + 1 /\ read.pending = t.pending - 1
  BY <1>1, <1>2 DEF TokenFields
<1> HIDE DEF x, s, read
<1>10. DOMAIN u = TokenFields /\ u.kind = "form2" /\ u.list = t.list
       /\ u.n = t.n + 1 /\ u.pending = t.pending - 1
  BY <1>9 DEF TokenFields
<1> HIDE DEF u
<1>11. IsForm(u) /\ TokenInv(u)
  <2>1. t.n + 1 \in 0..Len(t.list) /\ t.pending - 1 = Len(t.list) - (t.n + 1)
    BY <1>2, <1>4
  <2> QED
    BY <1>2, <1>10, <2>1 DEF IsForm, TokenInv, Form2Inv
<1>12. Waiting(u) \subseteq Waiting(t) /\ d \notin Waiting(u)
  <2>1. ASSUME NEW e \in Waiting(u) PROVE e \in Waiting(t) /\ e # d
    <3>1. PICK i \in (t.n + 2)..Len(t.list) : t.list[i] = e
      <4>1. Waiting(u) \subseteq {t.list[i] : i \in (t.n + 1 + 1)..Len(t.list)}
        BY <1>10 DEF Waiting
      <4>2. t.n + 1 + 1 = t.n + 2
        BY <1>2
      <4> QED
        BY <2>1, <4>1, <4>2
    <3>2. i \in (t.n + 1)..Len(t.list) /\ i # t.n + 1 /\ i \in DOMAIN t.list
      BY <1>2, <3>1
    <3>3. e # d
      BY <1>1, <1>2, <1>4, <3>1, <3>2 DEF IsInjective
    <3> QED
      BY <1>1, <3>1, <3>2, <3>3 DEF Waiting
  <2> QED
    BY <2>1
<1>13. CASE air' \subseteq air \ {t}
  <2>1. air' \subseteq air /\ \A v \in air' : IsForm(v) => d \notin Waiting(v)
    BY <1>7, <1>13
  <2> QED
    BY <1>5, <1>8, <2>1, LeavesKeeps
<1>14. CASE air' \subseteq (air \ {t}) \cup {u}
  <2>1. Waiting(u) \subseteq Waiting(t) \cup {d}
    BY <1>12
  <2> QED
    BY <1>1, <1>5, <1>7, <1>8, <1>11, <1>12, <1>14, <2>1, PassKeeps
<1> QED
  BY <1>8, <1>13, <1>14

--------------------------------------------------------------------------------
(* Whom a daemon puts on a token *)

Begins(l, d) == l \in Seq(Daemons) /\ (l = <<>> \/ (Len(l) > 0 /\ l[1] = d))

\* Leaving out others than the first leaves the first.
LEMMA AtBegins ==
  ASSUME NEW d, NEW l, Begins(l, d), NEW I \in SUBSET DOMAIN l, \A k \in DOMAIN l : l[k] = d => k \in I
  PROVE  Begins(At(l, I), d) /\ (Len(l) > 0 => Len(At(l, I)) > 0)
<1> DEFINE a == At(l, I)
<1>1. /\ a \in Seq(Daemons) /\ \A k \in DOMAIN a : \E i \in I : a[k] = l[i]
      /\ 1 \in I => Len(a) > 0 /\ a[1] = l[1]
  BY AtIs DEF Begins
<1> HIDE DEF a
<1>2. CASE l = <<>>
  <2>1. DOMAIN a = {} /\ Len(l) = 0
    BY <1>1, <1>2
  <2>2. a = <<>>
    BY <1>1, <2>1
  <2> QED
    BY <1>1, <2>1, <2>2 DEF Begins, a
<1>3. CASE Len(l) > 0 /\ l[1] = d
  <2>1. 1 \in DOMAIN l
    BY <1>3 DEF Begins
  <2> QED
    BY <1>1, <1>3, <2>1 DEF Begins, a
<1> QED
  BY <1>2, <1>3 DEF Begins

\* Invalid members are left out, but for the daemon itself.
LEMMA ValidBegins ==
  ASSUME NEW s, NEW d, NEW l, Begins(l, d)
  PROVE  Begins(Valid(s, d, l), d) /\ (Len(l) > 0 => Len(Valid(s, d, l)) > 0)
BY AtBegins DEF Valid

\* The membership in order begins with its leader.
LEMMA RingBegins ==
  ASSUME NEW S \in SUBSET Daemons, NEW d, d = Leader(S), S # {}
  PROVE  Begins(InOrder(S), d) /\ Len(InOrder(S)) > 0
<1>1. S \in SUBSET Nat /\ IsFiniteSet(S)
  <2>1. N \in Nat
    BY GatherAssumption
  <2>2. IsFiniteSet(Daemons) /\ Daemons \subseteq Nat
    BY <2>1, FS_Interval DEF Daemons
  <2> QED
    BY <2>2, FS_Subset
<1> DEFINE l == InOrder(S)
<1>2. l \in Seq(S) /\ Len(l) > 0 /\ l[1] = d
  BY <1>1, InOrderIs DEF Leader
<1> HIDE DEF l
<1>3. l \in Seq(Daemons)
  BY <1>2, SeqMonotonic
<1> QED
  BY <1>2, <1>3 DEF Begins, l

\* The one of a ring of one is its leader.
LEMMA LoneLeader ==
  ASSUME NEW d \in Daemons
  PROVE  Leader({d}) = d
BY MinIsIn DEF Leader, Daemons

\* Who gathers leads its ring, or has none, and has heard of itself before all others.
LEMMA GatherBegins ==
  ASSUME NEW s, NEW d \in Daemons, DaemonInv(s, d), MembersInv(s, d), s.state = "GATHER"
  PROVE  /\ d = Leader(s.memb) /\ s.memb # {} /\ s.memb \subseteq Daemons
         /\ Begins(s.fMembers, d) /\ (~s.alive => Len(s.fMembers) > 0)
<1>1. CASE s.alive
  <2>1. d = Leader(s.memb) /\ d \in s.memb /\ s.memb \subseteq Daemons /\ s.fMembers = <<>>
    BY <1>1 DEF DaemonInv, MembersInv, Heard
  <2> QED
    BY <1>1, <2>1 DEF Begins
<1>2. CASE ~s.alive
  BY <1>2, LoneLeader DEF MembersInv, Heard, Begins
<1> QED
  BY <1>1, <1>2

\* What a representative adds to a token on which it is not: nobody, or itself first.
LEMMA AddedBegins ==
  ASSUME NEW d \in Daemons, NEW s, DaemonInv(s, d), MembersInv(s, d), s.state = "GATHER",
         NEW t, d \notin ToSet(t.list)
  PROVE  /\ Begins(Added(s, d, t), d)
         /\ Added(s, d, t) = <<>> => s.alive /\ t.reps[t.rep + 1].type # "RING"
<1> DEFINE mine == Valid(s, d, s.fMembers)
           free == {k \in DOMAIN mine :
                      /\ mine[k] \notin ToSet(t.list)
                      /\ mine[k] = d \/ \A i \in DOMAIN t.reps : t.reps[i].id # mine[k]}
<1>1. Begins(InOrder(s.memb), d) /\ Len(InOrder(s.memb)) > 0
  BY GatherBegins, RingBegins
<1>2. Begins(mine, d) /\ (~s.alive => Len(mine) > 0)
  BY GatherBegins, ValidBegins
<1> HIDE DEF mine
<1>3. free \in SUBSET DOMAIN mine /\ \A k \in DOMAIN mine : mine[k] = d => k \in free
  OBVIOUS
<1> HIDE DEF free
<1>4. Begins(At(mine, free), d) /\ (Len(mine) > 0 => Len(At(mine, free)) > 0)
  BY <1>2, <1>3, AtBegins
<1>5. Added(s, d, t) = IF t.reps[t.rep + 1].type = "RING" THEN InOrder(s.memb) ELSE At(mine, free)
  BY DEF Added, mine, free
<1>6. \A l : Len(l) > 0 => l # <<>>
  OBVIOUS
<1>7. CASE t.reps[t.rep + 1].type = "RING"
  BY <1>1, <1>5, <1>6, <1>7
<1>8. CASE t.reps[t.rep + 1].type # "RING"
  BY <1>2, <1>4, <1>5, <1>6, <1>8
<1> QED
  BY <1>7, <1>8

\* What the maker of a token puts on it, its timer f taken off the queue.
LEMMA OwnBegins ==
  ASSUME NEW d \in Daemons, NEW s, DaemonInv(s, d), MembersInv(s, d), s.state = "GATHER",
         NEW f, f.fReps = s.fReps, f.memb = s.memb, f.fMembers = s.fMembers
  PROVE  LET l == Valid(f, d, Own(f, d)) IN Begins(l, d) /\ Len(l) > 0
<1>1. f.fReps[1].type = IF s.alive THEN "RING" ELSE "SEG"
  BY DEF DaemonInv, RepsBegin, Rep
<1>2. Begins(Own(f, d), d) /\ Len(Own(f, d)) > 0
  BY <1>1, GatherBegins, RingBegins DEF Own
<1> QED
  BY <1>2, ValidBegins

--------------------------------------------------------------------------------
(* Tokens are made and filled *)

\* A form1 token that a daemon makes, or has had, goes on.
LEMMA GoesOn ==
  ASSUME NEW d \in Daemons, NEW t, t.kind = "form1", DOMAIN t = TokenFields, Form1Inv(t)
  PROVE  LET u == NextForm1(t) IN IsForm(u) /\ TokenInv(u) /\ Waiting(u) \subseteq Waiting(t)
<1>1. TokenInv(t)
  BY DEF TokenInv
<1> QED
  BY <1>1, NextForm1Inv

\* Create_form1: the first to wait for a token is who makes it.
LEMMA CreateForm ==
  ASSUME FormInv, SearchInv', NEW d \in Daemons, FormOrFail(d),
         CreateForm1(d, {}, Fired(d, "Form_or_fail"))
  PROVE  FormInv'
<1> DEFINE f == Fired(d, "Form_or_fail")
           mine == Valid(f, d, Own(f, d))
           t == [kind |-> "form1", form |-> forms + 1, to |-> d, list |-> mine, n |-> 1,
                 pending |-> Len(mine) - 1, reps |-> SortReps(f.fReps), rep |-> 1]
           u == NextForm1(t)
           x(p) == [ToForm(f) EXCEPT !.potential = p]
<1>1. DaemonInv(st[d], d) /\ MembersInv(st[d], d)
  BY DEF FormInv, SearchInv
<1>2. st[d].state = "GATHER"
  BY <1>1 DEF FormOrFail, Fire, DaemonInv, TimersOf
<1>3. /\ DOMAIN f = Fields /\ f.fReps = st[d].fReps /\ f.memb = st[d].memb
      /\ f.fMembers = st[d].fMembers
  BY <1>1 DEF Fired, DaemonInv, Fields
<1>4. (\E p : st' = [st EXCEPT ![d] = x(p)]) /\ air' \subseteq air \cup {u}
  BY DEF CreateForm1, Sends
<1> HIDE DEF f
<1>5. Begins(mine, d) /\ Len(mine) > 0
  BY <1>1, <1>2, <1>3, OwnBegins
<1>6. \A p : x(p).state = "FORM" /\ MembersInv(x(p), d)
  BY <1>1, <1>3, OpAndFormMembers DEF MembersInv
<1>7. /\ DOMAIN t = TokenFields /\ t.kind = "form1" /\ t.list = mine /\ t.n = 1
      /\ t.pending = Len(mine) - 1
  BY DEF TokenFields
<1> HIDE DEF x, mine, t
<1>8. mine \in Seq(Daemons) /\ mine[1] = d /\ Len(mine) \in Nat /\ DOMAIN mine = 1..Len(mine)
  BY <1>5 DEF Begins
<1>9. Form1Inv(t)
  <2>1. Len(mine) - 1 \in Nat /\ 1 \in 1..Len(mine) /\ Len(mine) = 1 + (Len(mine) - 1)
    BY <1>5, <1>8
  <2> QED
    BY <1>7, <1>8, <2>1 DEF Form1Inv
<1>10. Waiting(t) = {d}
  BY <1>7, <1>8 DEF Waiting
<1>11. IsForm(u) /\ TokenInv(u) /\ Waiting(u) \subseteq {d}
  BY <1>7, <1>9, <1>10, GoesOn
<1> HIDE DEF u
<1>12. PICK p : st' = [st EXCEPT ![d] = x(p)]
  BY <1>4
<1>13. \A v \in air : IsForm(v) => d \notin Waiting(v)
  BY <1>2 DEF FormInv
<1>14. Passes(d, x(p), air, u, {})
  BY <1>4, <1>6, <1>11, <1>12, <1>13 DEF Passes
<1> QED
  BY <1>14, StepKeeps

\* A member that others have listed has had the token too; it was on no token before.
LEMMA MemberFills ==
  ASSUME NEW d \in Daemons, NEW t, t.kind = "form1", DOMAIN t = TokenFields, Form1Inv(t),
         d \notin Waiting(t), t.pending > 0, t.list[t.n + 1] = d
  PROVE  LET u == AsMember(t)
         IN  /\ DOMAIN u = TokenFields /\ u.kind = "form1" /\ Form1Inv(u)
             /\ Waiting(u) \subseteq Waiting(t) \cup {d}
<1> DEFINE u == AsMember(t)
<1>1. /\ DOMAIN u = TokenFields /\ u.kind = "form1" /\ u.list = t.list /\ u.n = t.n + 1
      /\ u.pending = t.pending - 1
  BY DEF TokenFields, AsMember
<1> HIDE DEF u
<1>2. /\ t.list \in Seq(Daemons) /\ t.n \in 1..Len(t.list) /\ t.pending \in Nat
      /\ Len(t.list) = t.n + t.pending /\ Len(t.list) \in Nat
  BY DEF Form1Inv
<1>3. \A i \in 1..t.n : t.list[i] # d
  BY DEF Waiting
<1>4. u.n \in 1..Len(t.list) /\ u.pending \in Nat /\ Len(t.list) = u.n + u.pending
  <2>1. \A n, p, k \in Int : n >= 1 /\ p > 0 /\ k = n + p =>
          n + 1 \in 1..k /\ p - 1 \in Nat /\ k = n + 1 + (p - 1)
    OBVIOUS
  <2>2. t.n \in Int /\ t.n >= 1 /\ t.pending \in Int /\ Len(t.list) \in Int
    BY <1>2
  <2>3. t.n + 1 \in 1..Len(t.list) /\ t.pending - 1 \in Nat /\ Len(t.list) = t.n + 1 + (t.pending - 1)
    BY <1>2, <2>1, <2>2
  <2> QED
    BY <1>1, <2>3
<1>5. \A i, k \in 1..u.n : t.list[i] = t.list[k] => i = k
  <2> SUFFICES ASSUME NEW i \in 1..u.n, NEW k \in 1..u.n, t.list[i] = t.list[k] PROVE i = k
    OBVIOUS
  <2>1. (i \in 1..t.n \/ i = t.n + 1) /\ (k \in 1..t.n \/ k = t.n + 1)
    BY <1>1, <1>2
  <2> QED
    BY <1>3, <2>1 DEF Form1Inv
<1>6. Form1Inv(u)
  BY <1>1, <1>2, <1>4, <1>5 DEF Form1Inv
<1>7. Waiting(u) \subseteq Waiting(t) \cup {d}
  <2>1. ASSUME NEW e \in Waiting(u) PROVE e \in Waiting(t) \cup {d}
    <3>1. PICK i \in 1..u.n : t.list[i] = e
      BY <1>1, <2>1 DEF Waiting
    <3>2. i \in 1..t.n \/ i = t.n + 1
      BY <1>1, <1>2
    <3> QED
      BY <3>1, <3>2 DEF Waiting
  <2> QED
    BY <2>1
<1> QED
  BY <1>1, <1>6, <1>7 DEF u

\* A representative with members adds itself first.
LEMMA RepFills ==
  ASSUME NEW d \in Daemons, NEW t, t.kind = "form1", DOMAIN t = TokenFields, Form1Inv(t),
         d \notin Waiting(t), t.pending = 0, NEW added, Begins(added, d), added # <<>>, NEW entry
  PROVE  LET u == AsRep(t, added, entry)
         IN  /\ DOMAIN u = TokenFields /\ u.kind = "form1" /\ Form1Inv(u)
             /\ Waiting(u) \subseteq Waiting(t) \cup {d}
<1> DEFINE u == AsRep(t, added, entry)
           l == t.list \o added
<1>1. /\ DOMAIN u = TokenFields /\ u.kind = "form1" /\ u.list = l /\ u.n = t.n + 1
      /\ u.pending = Len(added) - 1
  BY DEF TokenFields, AsRep
<1> HIDE DEF u
<1>2. t.list \in Seq(Daemons) /\ t.n \in Nat /\ t.n >= 1 /\ Len(t.list) = t.n
  BY DEF Form1Inv
<1>3. added \in Seq(Daemons) /\ Len(added) > 0 /\ Len(added) \in Nat /\ added[1] = d
  BY DEF Begins
<1>4. /\ l \in Seq(Daemons) /\ Len(l) = t.n + Len(added)
      /\ \A i \in 1..t.n : l[i] = t.list[i]
      /\ l[t.n + 1] = d
  <2>1. /\ l \in Seq(Daemons) /\ Len(l) = Len(t.list) + Len(added)
        /\ \A i \in 1..(Len(t.list) + Len(added)) :
              l[i] = IF i <= Len(t.list) THEN t.list[i] ELSE added[i - Len(t.list)]
    BY <1>2, <1>3, ConcatProperties
  <2> HIDE DEF l
  <2>2. ASSUME NEW i \in 1..t.n PROVE l[i] = t.list[i]
    <3>1. i \in 1..(Len(t.list) + Len(added)) /\ i <= Len(t.list)
      BY <1>2, <1>3
    <3> QED
      BY <2>1, <3>1
  <2>3. l[t.n + 1] = added[1]
    <3>1. /\ t.n + 1 \in 1..(Len(t.list) + Len(added)) /\ ~(t.n + 1 <= Len(t.list))
          /\ (t.n + 1) - Len(t.list) = 1
      BY <1>2, <1>3
    <3> QED
      BY <2>1, <3>1
  <2> QED
    BY <1>2, <1>3, <2>1, <2>2, <2>3
<1> HIDE DEF l
<1>5. \A i \in 1..u.n : (i \in 1..t.n /\ l[i] = t.list[i]) \/ (i = t.n + 1 /\ l[i] = d)
  BY <1>1, <1>2, <1>4
<1>6. \A i \in 1..t.n : t.list[i] # d
  BY DEF Waiting
<1>7. \A i, k \in 1..u.n : l[i] = l[k] => i = k
  BY <1>5, <1>6 DEF Form1Inv
<1>8. u.n \in 1..Len(l) /\ u.pending \in Nat /\ Len(l) = u.n + u.pending
  <2>1. \A n, k \in Nat : k > 0 => n + 1 \in 1..(n + k) /\ k - 1 \in Nat /\ n + k = n + 1 + (k - 1)
    OBVIOUS
  <2>2. /\ t.n + 1 \in 1..(t.n + Len(added)) /\ Len(added) - 1 \in Nat
        /\ t.n + Len(added) = t.n + 1 + (Len(added) - 1)
    BY <1>2, <1>3, <2>1
  <2> QED
    BY <1>1, <1>4, <2>2
<1>9. Form1Inv(u)
  BY <1>1, <1>4, <1>7, <1>8 DEF Form1Inv
<1>10. Waiting(u) \subseteq Waiting(t) \cup {d}
  <2>1. ASSUME NEW e \in Waiting(u) PROVE e \in Waiting(t) \cup {d}
    <3>1. PICK i \in 1..u.n : l[i] = e
      BY <1>1, <2>1 DEF Waiting
    <3> QED
      BY <1>5, <3>1 DEF Waiting
  <2> QED
    BY <2>1
<1> QED
  BY <1>1, <1>9, <1>10 DEF u

\* A representative that has not had the token adds itself first, or nobody; nobody, only
\* if it gathers for a ring and the token has it as something else.
LEMMA OffBegins ==
  ASSUME NEW d \in Daemons, NEW s, DaemonInv(s, d), MembersInv(s, d), s.state = "GATHER",
         NEW t, Form1Inv(t), t.kind = "form1", t.pending = 0, d \notin Waiting(t)
  PROVE  /\ Begins(Added(s, d, t), d)
         /\ Added(s, d, t) = <<>> => s.alive /\ t.reps[t.rep + 1].type # "RING"
<1>1. d \notin ToSet(t.list)
  <2>1. DOMAIN t.list = 1..t.n
    BY DEF Form1Inv
  <2> QED
    BY <2>1 DEF Waiting, ToSet
<1> QED
  BY <1>1, AddedBegins

\* Memb_handle_form1, Fill_form1: who takes the token has waited for none.
LEMMA FillForm ==
  ASSUME FormInv, SearchInv', NEW d \in Daemons, NEW t \in air, FillForm1(d, t),
         st[d].state = "GATHER" => Added(st[d], d, t) # <<>>
  PROVE  FormInv'
<1> DEFINE s == st[d]
           added == Added(s, d, t)
           filled == IF s.state = "GATHER" THEN AsRep(t, added, 0) ELSE AsMember(t)
           u == NextForm1(filled)
           x(p) == [ToForm(s) EXCEPT !.potential = p]
<1>1. DaemonInv(s, d) /\ MembersInv(s, d) /\ DOMAIN s = Fields
  BY DEF FormInv, SearchInv, DaemonInv
<1>2. t.kind = "form1" /\ IsForm(t) /\ DOMAIN t = TokenFields /\ Form1Inv(t)
  BY DEF FillForm1, IsForm, FormInv, OnItsWay, TokenInv
<1>3. /\ \E p : st' = [st EXCEPT ![d] = x(p)]
      /\ air' \subseteq (air \ {t}) \cup {u}
  BY DEF FillForm1, Sends
<1>4. s.state # "FORM"
  BY DEF FillForm1, TakesAsMember, TakesAsRep
<1>5. \A v \in air : IsForm(v) => d \notin Waiting(v)
  BY <1>4 DEF FormInv
<1>6. \A p : x(p).state = "FORM" /\ MembersInv(x(p), d)
  BY <1>1, OpAndFormMembers DEF MembersInv
<1> d \notin Waiting(t)
  BY <1>2, <1>5
<1>7. /\ DOMAIN filled = TokenFields /\ filled.kind = "form1" /\ Form1Inv(filled)
      /\ Waiting(filled) \subseteq Waiting(t) \cup {d}
  <2>1. CASE s.state = "GATHER"
    <3>1. t.pending = 0
      BY <2>1 DEF FillForm1, TakesAsMember, TakesAsRep
    <3>2. Begins(added, d) /\ added # <<>>
      BY <1>1, <1>2, <2>1, <3>1, OffBegins
    <3> HIDE DEF added
    <3>3. /\ DOMAIN AsRep(t, added, 0) = TokenFields /\ AsRep(t, added, 0).kind = "form1"
          /\ Form1Inv(AsRep(t, added, 0)) /\ Waiting(AsRep(t, added, 0)) \subseteq Waiting(t) \cup {d}
      BY <1>2, <3>1, <3>2, RepFills
    <3> QED
      BY <2>1, <3>3
  <2>2. CASE s.state # "GATHER"
    <3>1. t.pending > 0 /\ t.list[t.n + 1] = d
      BY <2>2 DEF FillForm1, TakesAsMember, TakesAsRep
    <3>2. /\ DOMAIN AsMember(t) = TokenFields /\ AsMember(t).kind = "form1" /\ Form1Inv(AsMember(t))
          /\ Waiting(AsMember(t)) \subseteq Waiting(t) \cup {d}
      BY <1>2, <3>1, MemberFills
    <3> QED
      BY <2>2, <3>2
  <2> QED
    BY <2>1, <2>2
<1> HIDE DEF filled, x
<1>8. IsForm(u) /\ TokenInv(u) /\ Waiting(u) \subseteq Waiting(t) \cup {d}
  BY <1>7, GoesOn
<1> HIDE DEF u
<1>9. PICK p : st' = [st EXCEPT ![d] = x(p)]
  BY <1>3
<1>10. \A v \in air \ {t} : IsForm(v) => d \notin Waiting(v) /\ Waiting(v) \cap Waiting(t) = {}
  BY <1>2, <1>5 DEF FormInv
<1>11. \A e \in Waiting(t) : st[e].state = "FORM"
  BY <1>2 DEF FormInv
<1>12. air \ {t} \subseteq air
  OBVIOUS
<1>13. Passes(d, x(p), air \ {t}, u, Waiting(t))
  BY <1>3, <1>6, <1>8, <1>9, <1>10, <1>11, <1>12 DEF Passes
<1> QED
  BY <1>13, StepKeeps

--------------------------------------------------------------------------------
(* The theorems *)

\* On a ring, or just started, and nothing on its way.
LEMMA FormInit == Init => FormInv
<1> SUFFICES ASSUME Init PROVE FormInv
  OBVIOUS
<1>1. ASSUME NEW d \in Daemons, NEW r, r \subseteq Daemons, d \in r
      PROVE  MembersInv(OnRing(d, r), d)
  <2> DEFINE x == OnRing(d, r)
  <2>1. x.state = "OP" /\ x.memb = r /\ x.fMembers = <<>>
    BY DEF OnRing
  <2> HIDE DEF x
  <2>2. MembersInv(x, d)
    BY <1>1, <2>1 DEF MembersInv, Heard
  <2> QED
    BY <2>2 DEF x
<1>2. ASSUME NEW d \in Daemons PROVE MembersInv(Started(d), d)
  <2> DEFINE x == [OnRing(d, {d}) EXCEPT !.timers = {}]
  <2>1. DOMAIN x = Fields /\ x.state = "OP"
    BY DEF OnRing, Fields
  <2> HIDE DEF x
  <2>2. MembersInv(TokenLoss(x, d), d)
    BY <2>1, LossMembers
  <2> QED
    BY <2>2 DEF Started, x
<1>3. \A d \in Daemons : MembersInv(st[d], d)
  <2> TAKE d \in Daemons
  <2>1. PICK rings \in Starts :
          st[d] = IF \E r \in rings : d \in r THEN OnRing(d, CHOOSE r \in rings : d \in r) ELSE Started(d)
    BY DEF Init
  <2>2. CASE \E r \in rings : d \in r
    <3> DEFINE r == CHOOSE q \in rings : d \in q
    <3>1. r \in rings /\ d \in r
      BY <2>2
    <3> HIDE DEF r
    <3>2. r \subseteq Daemons
      BY <3>1, GatherAssumption DEF Daemons
    <3>3. st[d] = OnRing(d, r)
      BY <2>1, <2>2 DEF r
    <3> QED
      BY <1>1, <3>1, <3>2, <3>3
  <2> QED
    BY <1>2, <2>1, <2>2
<1>4. air = {}
  BY DEF Init
<1> QED
  BY <1>3, <1>4, SearchInit DEF FormInv

\* Every handler and every timer keeps it, as long as no unwritten entry is counted.
LEMMA FormNext ==
  ASSUME FormInv, [Next]_vars, unwritten = <<>>, unwritten' = <<>>
  PROVE  FormInv'
<1>1. SearchInv'
  BY SearchNext DEF FormInv
<1>2. CASE UNCHANGED vars
  <2>1. PICK U : U = {}
    OBVIOUS
  <2>2. st' = st /\ air' \subseteq air \cup U /\ \A m \in U : OnItsWay(m) /\ ~IsForm(m)
    BY <1>2, <2>1 DEF vars
  <2> QED
    BY <1>1, <2>2, NobodyKeeps
<1>3. ASSUME NEW d \in Daemons, FormOrFail(d)
      PROVE  FormInv'
  BY <1>1, <1>3, CreateForm, FailForm
<1>4. ASSUME NEW d \in Daemons, Lookup(d)
      PROVE  FormInv'
  BY <1>1, <1>4, LookupForm DEF Lookup
<1>5. ASSUME NEW d \in Daemons, NEW t \in air, FillForm1(d, t)
      PROVE  FormInv'
  <2>1. st[d].state = "GATHER" => Added(st[d], d, t) # <<>>
    <3> SUFFICES ASSUME st[d].state = "GATHER", Added(st[d], d, t) = <<>> PROVE FALSE
      OBVIOUS
    <3>1. \E c : unwritten' = Append(unwritten, c)
      BY <1>5 DEF FillForm1
    <3> QED
      BY <3>1
  <2> QED
    BY <1>1, <1>5, <2>1, FillForm
<1> QED
  BY <1>1, <1>2, <1>3, <1>4, <1>5, HandleForm, ReadForm, SwallowForm, ForeignForm, RegularForm,
     SendingForm, TimeoutForm, SegAgainForm, GatherOrForm
  DEF Next

\* The entries that were counted unwritten, in order: the first by a daemon that gathers for
\* a ring and that the token has as something else.
IsSequence(l) == \E S : l \in Seq(S)
FirstByRing == unwritten = <<>> \/ (unwritten[1].ring /\ unwritten[1].rep # "RING")
TokensInv ==
  /\ SearchInv /\ IsSequence(unwritten) /\ FirstByRing
  /\ unwritten = <<>> => FormInv

\* One more entry is counted at the end, and only by Fill_form1.
LEMMA CountedAtEnd ==
  ASSUME [Next]_vars, unwritten' # unwritten
  PROVE  \E d \in Daemons : \E t \in air : \E entry :
            /\ FillForm1(d, t) /\ st[d].state = "GATHER" /\ Added(st[d], d, t) = <<>>
            /\ unwritten' = Append(unwritten, Counted(t, d, entry))
<1>1. ~(UNCHANGED vars)
  BY DEF vars
<1>2. ASSUME NEW d \in Daemons PROVE ~FormOrFail(d) /\ ~Lookup(d)
  BY DEF FormOrFail, Lookup, LookupNewMembers, CreateForm1, NoForm
<1>3. ASSUME NEW d \in Daemons PROVE ~ReceiveForeign(d)
  BY DEF ReceiveForeign, HandleForeign, LookupNewMembers, NoForm
<1>4. ASSUME NEW d \in Daemons
      PROVE  ~Regular(d) /\ ~ScastAlive(d) /\ ~SendJoin(d) /\ ~TokenTimeout(d) /\ ~SegAgain(d) /\ ~GatherOrRepresented(d)
  BY DEF Regular, ScastAlive, SendJoin, TokenTimeout, SegAgain, GatherOrRepresented, NoForm
<1>5. ASSUME NEW d \in Daemons, NEW m \in air PROVE ~Handle(d, m) /\ ~ReadForm2(d, m) /\ ~Swallow(d, m)
  BY DEF Handle, ReadForm2, Swallow, NoForm
<1>6. PICK d \in Daemons, t \in air : FillForm1(d, t)
  BY <1>1, <1>2, <1>3, <1>4, <1>5 DEF Next
<1>7. /\ st[d].state = "GATHER" /\ Added(st[d], d, t) = <<>>
      /\ \E entry : unwritten' = Append(unwritten, Counted(t, d, entry))
  BY <1>6 DEF FillForm1
<1> QED
  BY <1>6, <1>7

\* What is put at the end leaves the first.
LEMMA AppendLeavesFirst ==
  ASSUME NEW l, IsSequence(l), NEW e
  PROVE  /\ IsSequence(Append(l, e)) /\ Append(l, e) # <<>>
         /\ l = <<>> => Append(l, e)[1] = e
         /\ l # <<>> => Append(l, e)[1] = l[1]
<1>1. PICK S : l \in Seq(S)
  BY DEF IsSequence
<1>2. l \in Seq(S \cup {e})
  BY <1>1, SeqMonotonic
<1>3. Append(l, e) \in Seq(S \cup {e})
  BY <1>2
<1>4. Append(l, e) # <<>>
  <2>1. Len(Append(l, e)) = Len(l) + 1 /\ Len(l) \in Nat
    BY <1>1
  <2> QED
    BY <2>1
<1>5. l = <<>> => Append(l, e)[1] = e
  OBVIOUS
<1>6. l # <<>> => Append(l, e)[1] = l[1]
  <2>1. l # <<>> => 1 \in 1..Len(l)
    BY <1>1
  <2> QED
    BY <1>1, <2>1
<1> QED
  BY <1>3, <1>4, <1>5, <1>6 DEF IsSequence

LEMMA TokensNext == TokensInv /\ [Next]_vars => TokensInv'
<1> SUFFICES ASSUME TokensInv, [Next]_vars PROVE TokensInv'
  OBVIOUS
<1>1. SearchInv'
  BY SearchNext DEF TokensInv
<1>2. CASE unwritten' = unwritten
  <2>1. unwritten' = <<>> => FormInv'
    BY <1>2, FormNext DEF TokensInv
  <2> QED
    BY <1>1, <1>2, <2>1 DEF TokensInv, FirstByRing
<1>3. CASE unwritten' # unwritten
  <2>1. PICK d \in Daemons : \E t \in air : \E entry :
           /\ FillForm1(d, t) /\ st[d].state = "GATHER" /\ Added(st[d], d, t) = <<>>
           /\ unwritten' = Append(unwritten, Counted(t, d, entry))
    BY <1>3, CountedAtEnd
  <2> PICK t \in air : \E entry :
           /\ FillForm1(d, t) /\ st[d].state = "GATHER" /\ Added(st[d], d, t) = <<>>
           /\ unwritten' = Append(unwritten, Counted(t, d, entry))
    BY <2>1
  <2> PICK entry :
           /\ FillForm1(d, t) /\ st[d].state = "GATHER" /\ Added(st[d], d, t) = <<>>
           /\ unwritten' = Append(unwritten, Counted(t, d, entry))
    OBVIOUS
  <2>2. /\ IsSequence(unwritten') /\ unwritten' # <<>>
        /\ unwritten = <<>> => unwritten'[1] = Counted(t, d, entry)
        /\ unwritten # <<>> => unwritten'[1] = unwritten[1]
    BY AppendLeavesFirst DEF TokensInv
  <2>3. ASSUME unwritten = <<>> PROVE st[d].alive /\ t.reps[t.rep + 1].type # "RING"
    <3>1. FormInv /\ SearchInv
      BY <2>3 DEF TokensInv
    <3>2. DaemonInv(st[d], d) /\ MembersInv(st[d], d)
      BY <3>1 DEF FormInv, SearchInv
    <3>3. t.kind = "form1" /\ IsForm(t) /\ t.pending = 0
      BY DEF FillForm1, TakesAsMember, TakesAsRep, IsForm
    <3>4. Form1Inv(t)
      BY <3>1, <3>3 DEF FormInv, OnItsWay, TokenInv
    <3>5. d \notin Waiting(t)
      BY <3>1, <3>3 DEF FormInv
    <3> QED
      BY <3>2, <3>3, <3>4, <3>5, OffBegins
  <2>4. /\ Counted(t, d, entry).ring = st[d].alive
        /\ Counted(t, d, entry).rep = t.reps[t.rep + 1].type
    BY DEF Counted
  <2>5. FirstByRing'
    BY <2>2, <2>3, <2>4 DEF TokensInv, FirstByRing
  <2> QED
    BY <1>1, <2>2, <2>5 DEF TokensInv
<1> QED
  BY <1>2, <1>3

\* The inductive invariant of the form tokens.  Until a token is made to count an entry that
\* nobody has written: whoever has had the first round of a token (Create_form1, Fill_form1)
\* is in FORM until the second (Read_form2), and waits for that token alone; those who have
\* had it are each once on its list.  And who counts such an entry first gathers for a ring,
\* on a token that has it as the representative of a segment.
THEOREM FormInvariant == Spec => []TokensInv
<1>1. Init => TokensInv
  <2> SUFFICES ASSUME Init PROVE TokensInv
    OBVIOUS
  <2>1. FormInv /\ SearchInv /\ unwritten = <<>>
    BY FormInit DEF FormInv, Init
  <2>2. IsSequence(<<>>)
    BY DEF IsSequence
  <2> QED
    BY <2>1, <2>2 DEF TokensInv, FirstByRing
<1>2. TokensInv /\ [Next]_vars => TokensInv'
  BY TokensNext
<1> QED
  BY <1>1, <1>2, PTL DEF Spec

\* However many daemons form rings at the same time, whatever they believed of each other
\* and whatever is lost: as long as no entry that nobody has written is counted, a form token
\* that goes round for the second time lists nobody twice and nobody who is no daemon; and
\* the first to count one gathers for a ring, on a token that has it as the representative of
\* a segment (Fill_form1, Sort_members).
THEOREM EachListedOnce == Spec => []ListedOnce
<1>1. TokensInv => ListedOnce
  <2> SUFFICES ASSUME TokensInv PROVE ListedOnce
    OBVIOUS
  <2>1. ASSUME unwritten = <<>>, NEW t \in air, t.kind = "form2"
        PROVE  ToSet(t.list) \subseteq Daemons /\ IsInjective(t.list)
    <3>1. t.list \in Seq(Daemons) /\ IsInjective(t.list)
      BY <2>1 DEF TokensInv, FormInv, OnItsWay, IsForm, TokenInv, Form2Inv
    <3> QED
      BY <3>1 DEF ToSet
  <2> QED
    BY <2>1 DEF TokensInv, FirstByRing, ListedOnce
<1> QED
  BY <1>1, FormInvariant, PTL

=============================================================================
