-------------------------------- MODULE Gather --------------------------------
(***************************************************************************)
(* The search of the Spread daemons for each other (daemon/membership.c):  *)
(* the states OP, SEG, REPRESENTED, GATHER, FORM and EVS, the timers that  *)
(* lead from one to the next, and the alive, join, refer and foreign       *)
(* messages.  Who is put on a form token comes from here; what the token   *)
(* says of packets and what is done with them is module Recovery.          *)
(*                                                                         *)
(* The globals of daemon d are the record st[d], with the names            *)
(*   state State   alive Token_alive   memb Membership, as a set           *)
(*   next Future_membership, with the number of its form token             *)
(*   fMembers F_members   fReps F_reps   potential Potential_reps          *)
(*   segRep My_seg_rep, 0 for -1   foreign Foreign_found                   *)
(*   timers the functions of this file that E_queue is to call             *)
(* F_members, F_reps, Potential_reps and My_seg_rep are forgotten in the   *)
(* states in which they are not read before they are set again.            *)
(***************************************************************************)
EXTENDS Integers, FiniteSets, SequencesExt, FiniteSetsExt

CONSTANTS N,        \* the daemons are 1..N, in configuration order
          Seg,      \* the segment of each: seg_index
          MAX_REPS,
          Starts,   \* how it may begin: sets of rings; the others have just started
          MaxForms, \* bound: form tokens created
          MaxAir,   \* bound: packets and tokens on their way, the others being lost
          MaxTimeouts \* bound: how often a timer that ends a state runs out

ASSUME GatherAssumption ==
  /\ N \in Nat \ {0} /\ Seg \in [1..N -> Nat]
  /\ \A d, e \in 1..N : d < e => Seg[d] <= Seg[e]
  /\ MAX_REPS \in Nat \ {0}
  /\ \A rings \in Starts : \A r \in rings : r # {} /\ r \subseteq 1..N /\ \A q \in rings : q = r \/ q \cap r = {}
  /\ MaxForms \in Nat /\ MaxAir \in Nat /\ MaxTimeouts \in Nat

VARIABLES st,      \* the daemons
          air,     \* packets and tokens on their way
          forms,   \* how many form tokens were created
          formed,  \* the form tokens that have gone round twice
          timeouts, \* how often a timer that ends a state ran out
          unwritten \* history: the entries counted on a form token that nobody has written

vars == <<st, air, forms, formed, timeouts, unwritten>>

Daemons == 1..N
Segments == {Seg[d] : d \in Daemons}
Leader(S) == Min(S)
InSeg(S, g) == {d \in S : Seg[d] = g}
\* Membership, in configuration order.
InOrder(S) == CHOOSE s \in [1..Cardinality(S) -> S] : \A i, k \in DOMAIN s : i < k => s[i] < s[k]

Rep(d, type) == [id |-> d, type |-> type]
NoNext == [form |-> 0, memb |-> {}]

--------------------------------------------------------------------------------
(* The lists of members and representatives *)

InsertMember(m, d) == IF d \in ToSet(m) THEN m ELSE Append(m, d)

\* What is left of a list when only the entries at the places I are kept.
At(l, I) == [k \in 1..Cardinality(I) |-> l[InOrder(I)[k]]]

\* Sort_members
SortMembers(l) ==
  CHOOSE s \in [DOMAIN l -> ToSet(l)] :
    /\ \A i, k \in DOMAIN l : i < k => s[i] <= s[k]
    /\ \E p \in [DOMAIN l -> DOMAIN l] : IsInjective(p) /\ \A i \in DOMAIN l : s[i] = l[p[i]]

\* Insert_rep: a POTENTIAL one is for a segment of which nobody is known and gives way
\* to one that is; a daemon is listed once, as what it said last.
InsertRep(r, rep) ==
  LET same == {i \in DOMAIN r : Seg[r[i].id] = Seg[rep.id]}
      replaced == {i \in same : r[i].type = "POTENTIAL" \/ r[i].id = rep.id}
  IN  IF rep.type = "POTENTIAL" /\ same # {} THEN r
      ELSE IF rep.type # "POTENTIAL" /\ replaced # {} THEN [r EXCEPT ![Min(replaced)] = rep]
      ELSE IF Len(r) = MAX_REPS THEN r
      ELSE Append(r, rep)
InsertReps(r, new) == FoldLeft(InsertRep, r, new)

\* Smallest_rep: the first of the SEG_REPs of the lowest segment or, if there are none,
\* the lowest RING_REP.
SmallestRep(r) ==
  LET segs == {i \in DOMAIN r : r[i].type = "SEG"}
      low == {i \in segs : \A k \in segs : Seg[r[i].id] <= Seg[r[k].id]}
  IN  IF segs # {} THEN Min(low)
      ELSE CHOOSE i \in DOMAIN r : \A k \in DOMAIN r : r[i].id <= r[k].id

\* Sort_reps: the smallest is taken out and the last put in its place.
SortReps(r) ==
  LET Take(acc, k) ==
        LET i == SmallestRep(acc.rest)
        IN  [out |-> Append(acc.out, acc.rest[i]),
             rest |-> Front([acc.rest EXCEPT ![i] = Last(acc.rest)])]
  IN  FoldLeft(Take, [out |-> <<>>, rest |-> r], [k \in 1..Len(r) |-> k]).out

\* Those of the other segments, in the order of segments: from a membership the first
\* of each or, if it has none there, from the configuration.
PotentialsOf(d, memb) ==
  LET First(g) == IF InSeg(memb, g) # {} THEN Min(InSeg(memb, g)) ELSE Min(InSeg(Daemons, g))
      others == SetToSortSeq(Segments \ {Seg[d]}, <)
  IN  [k \in DOMAIN others |-> Rep(First(others[k]), "POTENTIAL")]
\* Those of other segments on a form token, "in case of failure".
PotentialsFrom(d, reps) ==
  LET others == SelectSeq(reps, LAMBDA rep : Seg[rep.id] # Seg[d])
  IN  InsertReps(<<>>, [k \in DOMAIN others |-> [others[k] EXCEPT !.type = "POTENTIAL"]])

--------------------------------------------------------------------------------
(* What is sent.  A packet or token may be lost. *)

\* Net_recv: a packet sent to S comes to each of them, at once or by way of the first
\* of a segment, but not to who sent it.  What Net_recv drops else (a bad length, another
\* configuration, a partition set by the monitor) is lost.
Hearers(d, S) == S \ {d}

Alive(d) == {[kind |-> "alive", from |-> d, to |-> e] : e \in Hearers(d, InSeg(Daemons, Seg[d]))}
Join(d, reps, to) == {[kind |-> "join", from |-> d, to |-> e, reps |-> reps] : e \in Hearers(d, to)}
Refer(d, to, rep) == {[kind |-> "refer", from |-> d, to |-> to, rep |-> rep]}

\* The packets on their way after m is taken and those of S are sent.
Sends(m, S) == air' \in {A \in {(air \ m) \cup T : T \in SUBSET S} : Cardinality(A) <= MaxAir}
NoForm == UNCHANGED <<forms, formed, unwritten>>

\* The next to have a form1 token: the next member of the last list put on it, the next
\* representative or, when all have had it, the first of the sorted list.
NextForm1(t) ==
  IF t.pending > 0 THEN [t EXCEPT !.to = t.list[t.n + 1]]
  ELSE IF t.rep < Len(t.reps) THEN [t EXCEPT !.to = t.reps[t.rep + 1].id]
  ELSE LET list == SortMembers(t.list)
       IN  [t EXCEPT !.kind = "form2", !.to = list[1], !.list = list, !.n = 0, !.pending = Len(list)]

--------------------------------------------------------------------------------
(* Changes of state *)

ShiftToSeg(s, d) ==
  [s EXCEPT !.state = "SEG", !.fMembers = <<d>>, !.fReps = <<>>, !.segRep = 0,
            !.timers = @ \cup {"Scast_alive", "Gather_or_represented"}]

ShiftToGather(s, d) ==
  [s EXCEPT !.state = "GATHER", !.fReps = <<Rep(d, IF s.alive THEN "RING" ELSE "SEG")>>,
            !.timers = (@ \ {"Scast_alive", "Memb_lookup_new_members"}) \cup {"Send_join", "Form_or_fail"}]

ShiftToRepresented(s) ==
  [s EXCEPT !.state = "REPRESENTED", !.fMembers = <<>>,
            !.timers = (@ \ {"Scast_alive", "Gather_or_represented"}) \cup {"Shift_to_seg"}]

\* Back to the ring, from which nobody was found.
ReturnToOp(s) ==
  [s EXCEPT !.state = "OP", !.fMembers = <<>>, !.fReps = <<>>, !.potential = <<>>,
            !.timers = (@ \ {"Send_join"}) \cup {"Memb_lookup_new_members"}]

MutantTokenLossTimers(timers) ==
  timers \ {"Memb_token_loss", "Send_join", "Memb_lookup_new_members"}
\* What Memb_token_loss dequeues.
TokenLossTimers(timers) ==
  timers \ {"Memb_token_loss", "Send_join", "Form_or_fail", "Memb_lookup_new_members"}

\* Memb_token_loss; the alarm says that there was no token to lose.
TokenLoss(s, d) ==
  LET potential ==
        CASE s.state = "OP" -> InsertReps(<<>>, PotentialsOf(d, s.memb))
          [] s.state = "GATHER" -> InsertReps(<<>>, Tail(s.fReps) \o PotentialsOf(d, s.memb))
          [] s.state = "EVS" -> InsertReps(<<>>, PotentialsOf(d, s.next.memb))
          [] OTHER -> s.potential
      lost == [s EXCEPT !.potential = potential, !.alive = FALSE, !.memb = {d}, !.next = NoNext]
  IN  IF s.state \in {"SEG", "REPRESENTED"} \/ (s.state = "GATHER" /\ ~s.alive)
      THEN [s EXCEPT !.state = "EXIT"]
      ELSE [ShiftToSeg(lost, d) EXCEPT !.timers = TokenLossTimers(@)]
\* It is told of another daemon by the packet that shows the loss.
TokenLossBy(s, d, from) ==
  LET lost == TokenLoss(s, d) IN [lost EXCEPT !.fMembers = InsertMember(@, from)]

\* Into FORM, where only the loss of the token leads out.
ToForm(s) ==
  [s EXCEPT !.state = "FORM", !.alive = FALSE, !.fMembers = <<>>, !.fReps = <<>>, !.segRep = 0,
            !.timers = (@ \ {"Send_join", "Form_or_fail", "Shift_to_seg"}) \cup {"Memb_token_loss"}]

\* The members d brings to the token: those of a ring all, those of a segment not if
\* they represent themselves.
Own(s, d) ==
  IF s.fReps[1].type = "RING" THEN InOrder(s.memb) ELSE s.fMembers
Valid(s, d, list) ==
  At(list, {k \in DOMAIN list : list[k] = d \/ \A i \in DOMAIN s.fReps : s.fReps[i].id # list[k]})

\* Create_form1.
CreateForm1(d, m, s) ==
  LET mine == Valid(s, d, Own(s, d))
      reps == SortReps(s.fReps)
      t == [kind |-> "form1", form |-> forms + 1, to |-> d, list |-> mine, n |-> 1,
            pending |-> Len(mine) - 1, reps |-> reps, rep |-> 1]
  IN  /\ forms < MaxForms /\ forms' = forms + 1
      /\ st' = [st EXCEPT ![d] = [ToForm(s) EXCEPT !.potential = PotentialsFrom(d, reps)]]
      /\ Sends(m, {NextForm1(t)})
      /\ UNCHANGED <<formed, unwritten>>

--------------------------------------------------------------------------------
(* Messages: Memb_handle_alive, _join, _refer, _foreign *)

InRing(s, e) == e \in IF s.state = "EVS" THEN s.next.memb ELSE s.memb
\* Whether it is proof that d's token is lost: a member of the ring looks for others.
ShowsLoss(s, m) == s.alive /\ InRing(s, m.from)

HandleAlive(s, d, m) ==
  IF ShowsLoss(s, m) THEN TokenLossBy(s, d, m.from)
  ELSE IF s.state = "SEG" \/ (s.state = "GATHER" /\ ~s.alive)
  THEN [s EXCEPT !.fMembers = InsertMember(@, m.from)]
  ELSE IF s.state = "REPRESENTED" THEN [s EXCEPT !.timers = @ \cup {"Shift_to_seg"}]
  ELSE s

\* The sender represents d's segment.
IsSegRep(d, m) == Seg[m.from] = Seg[d] /\ m.reps[1].type = "SEG"

\* A join that is not from d's own ring, in OP: the leader goes to gather.
GatherFor(s, d, m) ==
  ShiftToGather([s EXCEPT !.potential = <<m.reps[1]>>, !.fMembers = <<>>], d)

\* The state after a join.
HandleJoin(s, d, m) ==
  CASE s.state = "OP" ->
         IF m.from \notin s.memb THEN IF d = Leader(s.memb) THEN GatherFor(s, d, m) ELSE s
         ELSE IF Cardinality(Segments) > 1 THEN TokenLoss(s, d) ELSE s
    [] s.state \in {"SEG", "REPRESENTED"} /\ IsSegRep(d, m) ->
         [ShiftToRepresented(s) EXCEPT !.segRep = m.from]
    [] s.state = "GATHER" ->
         [s EXCEPT !.fReps = InsertRep(@, m.reps[1]), !.potential = InsertReps(@, m.reps)]
    [] s.state = "EVS" /\ InRing(s, m.from) -> TokenLossBy(s, d, m.from)
    [] OTHER -> s

\* What is sent for a join: to whom to turn instead, or that d is alive.
AnswerJoin(s, d, m) ==
  CASE s.state = "OP" /\ m.from \notin s.memb /\ d # Leader(s.memb)
         /\ (Seg[m.from] # Seg[d] \/ d = Leader(InSeg(s.memb, Seg[d]))) ->
         Refer(d, m.from, Rep(Leader(s.memb), "RING"))
    [] s.state \in {"SEG", "REPRESENTED"} /\ IsSegRep(d, m) -> Alive(d)
    [] s.state = "REPRESENTED" /\ ~IsSegRep(d, m) /\ s.segRep # 0 -> Refer(d, m.from, Rep(s.segRep, "SEG"))
    [] OTHER -> {}

HandleRefer(s, m) ==
  IF s.state = "GATHER" THEN [s EXCEPT !.potential = InsertRep(@, m.rep)] ELSE s

Handle(d, m) ==
  LET s == st[d]
  IN  /\ m.to = d /\ NoForm
      /\ \/ /\ m.kind = "alive" /\ Sends({m}, {})
            /\ st' = [st EXCEPT ![d] = HandleAlive(s, d, m)]
         \/ /\ m.kind = "join" /\ Sends({m}, AnswerJoin(s, d, m))
            /\ st' = [st EXCEPT ![d] = HandleJoin(s, d, m)]
         \/ /\ m.kind = "refer" /\ Sends({m}, {})
            /\ st' = [st EXCEPT ![d] = HandleRefer(s, m)]

\* Memb_lookup_new_members, in OP: a join to all that are not in the ring or, in a
\* configuration of one segment, to all of it.
LookupNewMembers(d, m) ==
  LET s == [st[d] EXCEPT !.potential = <<>>, !.timers = @ \ {"Memb_lookup_new_members"}]
      one == Cardinality(Segments) = 1
      others == IF one THEN Daemons ELSE Daemons \ s.memb
  IN  /\ st' = [st EXCEPT ![d] = IF others = {} THEN s ELSE ShiftToGather(s, d)]
      /\ Sends(m, Join(d, <<Rep(d, "RING")>>, others))
      /\ NoForm

\* A regular packet of another ring, or one that its segment leader has passed on.
HandleForeign(d, m) ==
  LET s == st[d]
      first == d # Leader(s.memb) /\ d = Leader(InSeg(s.memb, Seg[d])) /\ ~s.foreign
      passed == {[kind |-> "foreign", from |-> d, to |-> Leader(s.memb)]}
  IN  /\ s.state = "OP"
      /\ \/ d = Leader(s.memb) /\ LookupNewMembers(d, m)
         \/ /\ first /\ Sends(m, passed) /\ NoForm
            /\ st' = [st EXCEPT ![d] = [s EXCEPT !.foreign = TRUE]]
ReceiveForeign(d) ==
  \E m \in {{}} \cup {{p} : p \in {q \in air : q.kind = "foreign" /\ q.to = d}} :
    /\ m = {} => \E e \in Daemons : st[e].state = "OP" /\ d \notin st[e].memb
    /\ HandleForeign(d, m)

--------------------------------------------------------------------------------
(* Tokens: Memb_handle_form1 and _form2.  Each is sent twice in a row: if the first  *)
(* copy is not lost, the second finds its reader in FORM or EVS, where it is         *)
(* swallowed.                                                                        *)

\* A packet or token is lost, or a token swallowed by a daemon that does not take it.
Swallow(d, m) == m.to = d /\ air' = air \ {m} /\ UNCHANGED st /\ NoForm

MutantTakesAsMember(s, d, t) ==
  /\ (s.state = "OP" /\ d # Leader(s.memb)) \/ s.state \in {"REPRESENTED", "FORM"}
  /\ t.pending > 0 /\ t.list[t.n + 1] = d
\* In OP and REPRESENTED d is one of the members that others have listed.
TakesAsMember(s, d, t) ==
  /\ (s.state = "OP" /\ d # Leader(s.memb)) \/ s.state = "REPRESENTED"
  /\ t.pending > 0 /\ t.list[t.n + 1] = d
\* In GATHER it is a representative, and only when all listed so far have had the token.
TakesAsRep(s, d, t) ==
  s.state = "GATHER" /\ t.pending = 0 /\ t.rep < Len(t.reps) /\ t.reps[t.rep + 1].id = d

\* The members d adds.
Added(s, d, t) ==
  LET mine == Valid(s, d, s.fMembers)
      free == {k \in DOMAIN mine :
                 /\ mine[k] \notin ToSet(t.list)
                 /\ mine[k] = d \/ \A i \in DOMAIN t.reps : t.reps[i].id # mine[k]}
  IN  IF t.reps[t.rep + 1].type = "RING" THEN InOrder(s.memb) ELSE At(mine, free)

\* The process ends: Alarm(EXIT, ...).
Dead(s) == [s EXCEPT !.state = "DEAD", !.alive = FALSE, !.timers = {}]

\* A representative that has no member to add counts one all the same, and leaves -1
\* pending.  What is in the array there nobody has written: a daemon that the token's maker
\* had on a longer list before, or 0.
AsRep(t, added, entry) ==
  [t EXCEPT !.list = @ \o (IF added = <<>> THEN <<entry>> ELSE added), !.n = @ + 1,
            !.rep = @ + 1, !.pending = Len(added) - 1]
AsMember(t) == [t EXCEPT !.n = @ + 1, !.pending = @ - 1]
Counted(t, d, entry) ==
  [form |-> t.form, entry |-> entry, had |-> ToSet(t.list) \cup {d},
   ring |-> st[d].alive, rep |-> t.reps[t.rep + 1].type]

\* Memb_handle_form1, Fill_form1.  Who is last to have the token sorts it, and does not live
\* to send one with a 0 on it: "Smallest_member: Bug!".
FillForm1(d, t) ==
  LET s == st[d]
      added == Added(s, d, t)
      none == s.state = "GATHER" /\ added = <<>>
      taken == [ToForm(s) EXCEPT !.potential = PotentialsFrom(d, t.reps)]
  IN  /\ t.kind = "form1" /\ t.to = d
      /\ TakesAsMember(s, d, t) \/ TakesAsRep(s, d, t)
      /\ \E entry \in IF none THEN Daemons \cup {0} ELSE {0} :
           LET filled == IF s.state = "GATHER" THEN AsRep(t, added, entry) ELSE AsMember(t)
               ends == none /\ entry = 0 /\ filled.rep = Len(t.reps)
           IN  /\ st' = [st EXCEPT ![d] = IF ends THEN Dead(s) ELSE taken]
               /\ Sends({t}, IF ends THEN {} ELSE {NextForm1(filled)})
               /\ unwritten' = IF none THEN Append(unwritten, Counted(t, d, entry)) ELSE unwritten
      /\ UNCHANGED <<forms, formed>>

\* It comes to a daemon that has not had it before: it is on it by an unwritten entry.
Strange(d, t) == \E i \in DOMAIN unwritten : unwritten[i].form = t.form /\ d \notin unwritten[i].had

\* Memb_handle_form2, Read_form2; the last of the ring (Conf_last) makes the first regular
\* token.  Who finds nothing of its ring on it ends: "Read_form2: num_rings".
TakesForm2(s, d, t) == s.state = "FORM" /\ t.pending > 0 /\ t.list[t.n + 1] = d
ReadForm2(d, t) ==
  LET read == [t EXCEPT !.n = @ + 1, !.pending = @ - 1]
      last == d = Last(t.list)
  IN  /\ t.kind = "form2" /\ t.to = d /\ TakesForm2(st[d], d, t)
      /\ UNCHANGED <<forms, unwritten>>
      /\ \/ /\ st' = [st EXCEPT ![d] = [@ EXCEPT !.state = "EVS", !.alive = TRUE, !.potential = <<>>,
                                              !.next = [form |-> t.form, memb |-> ToSet(t.list)]]]
            /\ Sends({t}, IF last THEN {} ELSE {[read EXCEPT !.to = t.list[read.n + 1]]})
            /\ formed' = IF last THEN formed \cup {t.form} ELSE formed
         \/ /\ Strange(d, t) /\ st' = [st EXCEPT ![d] = Dead(@)]
            /\ Sends({t}, {}) /\ UNCHANGED formed

\* Memb_regular, at the end of the exchange that module Recovery describes.
Regular(d) ==
  LET s == st[d]
  IN  /\ s.state = "EVS" /\ s.next.form \in formed
      /\ st' = [st EXCEPT ![d] =
                  [s EXCEPT !.state = "OP", !.memb = s.next.memb, !.next = NoNext, !.foreign = FALSE,
                            !.timers = IF d = Leader(s.next.memb) THEN @ \cup {"Memb_lookup_new_members"} ELSE @]]
      /\ NoForm /\ UNCHANGED air

--------------------------------------------------------------------------------
(* Timers *)

\* The timer is taken off the queue before its function is called.
Fire(d, f) == f \in st[d].timers
Fired(d, f) == [st[d] EXCEPT !.timers = @ \ {f}]

\* A form token does not stay on its way as long as those who have had it wait for it,
\* Form_timeout or Token_timeout.
Stale(d) == {m \in air : /\ m.kind \in {"form1", "form2"} /\ d \in ToSet(m.list) /\ ~Strange(d, m)
                         /\ m.kind = "form2" \/ d \in ToSet(SubSeq(m.list, 1, m.n))}
TokenTimeout(d) ==
  /\ Fire(d, "Memb_token_loss") /\ NoForm
  /\ st' = [st EXCEPT ![d] = TokenLoss(Fired(d, "Memb_token_loss"), d)]
  /\ air' = air \ Stale(d)

\* Scast_alive and Send_join queue themselves again.
ScastAlive(d) == Fire(d, "Scast_alive") /\ Sends({}, Alive(d)) /\ UNCHANGED st /\ NoForm
SendJoin(d) ==
  LET s == st[d]
      potential == {s.potential[i].id : i \in DOMAIN s.potential}
      to == IF s.alive THEN potential ELSE potential \cup InSeg(Daemons, Seg[d])
  IN  Fire(d, "Send_join") /\ Sends({}, Join(d, s.fReps, to)) /\ UNCHANGED st /\ NoForm

\* Shift_to_seg, and Gather_or_represented with what it finds in F_members.
SegAgain(d) ==
  /\ Fire(d, "Shift_to_seg") /\ NoForm /\ UNCHANGED air
  /\ st' = [st EXCEPT ![d] = ShiftToSeg(Fired(d, "Shift_to_seg"), d)]
GatherOrRepresented(d) ==
  LET s == [Fired(d, "Gather_or_represented") EXCEPT !.segRep = 0]
  IN  /\ Fire(d, "Gather_or_represented") /\ NoForm /\ UNCHANGED air
      /\ st' = [st EXCEPT ![d] = IF Min(ToSet(s.fMembers)) = d THEN ShiftToGather(s, d) ELSE ShiftToRepresented(s)]

\* Form_or_fail: the smallest makes a form token, unless it has a ring and found nobody;
\* of the others those with a ring go back to it, those without begin again.
FormOrFail(d) ==
  LET s == Fired(d, "Form_or_fail")
      smallest == s.fReps[SmallestRep(s.fReps)].id = d
      again == ShiftToGather([s EXCEPT !.fMembers = <<d>>, !.potential = InsertReps(<<>>, Tail(s.fReps))], d)
  IN  /\ Fire(d, "Form_or_fail")
      /\ \/ smallest /\ ~(s.alive /\ Len(s.fReps) = 1) /\ CreateForm1(d, {}, s)
         \/ /\ ~smallest \/ (s.alive /\ Len(s.fReps) = 1)
            /\ st' = [st EXCEPT ![d] = IF s.alive THEN ReturnToOp(s) ELSE again]
            /\ NoForm /\ UNCHANGED air

Lookup(d) ==
  Fire(d, "Memb_lookup_new_members") /\ st[d].state = "OP" /\ LookupNewMembers(d, {})

--------------------------------------------------------------------------------
\* A ring's daemons, the leader about to look for others; and Memb_init, after which a
\* daemon is alone and has lost the token it never had.
OnRing(d, r) ==
  [state |-> "OP", alive |-> TRUE, memb |-> r, next |-> NoNext, fMembers |-> <<>>, fReps |-> <<>>,
   potential |-> <<>>, segRep |-> 0, foreign |-> FALSE,
   timers |-> {"Memb_token_loss"} \cup (IF d = Leader(r) THEN {"Memb_lookup_new_members"} ELSE {})]
Started(d) == TokenLoss([OnRing(d, {d}) EXCEPT !.timers = {}], d)

Init ==
  /\ \E rings \in Starts :
       st = [d \in Daemons |-> IF \E r \in rings : d \in r THEN OnRing(d, CHOOSE r \in rings : d \in r) ELSE Started(d)]
  /\ air = {} /\ forms = 0 /\ formed = {} /\ timeouts = 0 /\ unwritten = <<>>

Next == \E d \in Daemons :
  \/ /\ UNCHANGED timeouts
     /\ \/ \E m \in air : Handle(d, m) \/ FillForm1(d, m) \/ ReadForm2(d, m) \/ Swallow(d, m)
        \/ ReceiveForeign(d) \/ Regular(d) \/ ScastAlive(d) \/ SendJoin(d)
  \/ /\ timeouts < MaxTimeouts /\ timeouts' = timeouts + 1
     /\ \/ TokenTimeout(d) \/ SegAgain(d) \/ GatherOrRepresented(d) \/ FormOrFail(d) \/ Lookup(d)

Spec == Init /\ [][Next]_vars

--------------------------------------------------------------------------------
(* Properties *)

\* The timers that lead out of the state.
TimersOf(s) ==
  CASE s.state = "SEG" -> {"Scast_alive", "Gather_or_represented"}
    [] s.state = "REPRESENTED" -> {"Shift_to_seg"}
    [] s.state = "GATHER" -> {"Send_join", "Form_or_fail"} \cup (IF s.alive THEN {"Memb_token_loss"} ELSE {})
    [] s.state \in {"FORM", "EVS"} -> {"Memb_token_loss"}
    [] s.state = "OP" -> {"Memb_token_loss"} \cup (s.timers \cap {"Memb_lookup_new_members"})
    [] OTHER -> {}

\* In every state just those timers are queued, so that no daemon waits for ever and
\* none acts in a state that it has left.
TimersMatch == \A d \in Daemons : st[d].timers = TimersOf(st[d])

\* Only the leader of a ring gathers for it, and says so; only it looks for others.
LeadersGather == \A d \in Daemons : LET s == st[d] IN
  /\ s.state = "GATHER" /\ s.alive => d = Leader(s.memb)
  /\ s.state = "GATHER" => s.fReps[1] = Rep(d, IF s.alive THEN "RING" ELSE "SEG")
  /\ "Memb_lookup_new_members" \in s.timers => d = Leader(s.memb)

\* No daemon reaches the Alarm(EXIT, ...) of Memb_token_loss: "bug !!!".
NeverExits == \A d \in Daemons : st[d].state # "EXIT"

SearchSound == TimersMatch /\ LeadersGather /\ NeverExits

\* As long as no unwritten entry has been counted, a form token that comes back for the
\* second time lists no daemon twice and nobody who is none, whoever had put whom on it: what
\* module Recovery takes for granted (CreateForm1).  And the first such entry is counted by a
\* daemon that gathers for a ring and is on the token as what it was before it had one.
ListedOnce ==
  IF unwritten = <<>>
  THEN \A t \in air : t.kind = "form2" => ToSet(t.list) \subseteq Daemons /\ IsInjective(t.list)
  ELSE unwritten[1].ring /\ unwritten[1].rep # "RING"
=============================================================================
