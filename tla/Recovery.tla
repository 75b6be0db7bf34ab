------------------------------- MODULE Recovery -------------------------------
(***************************************************************************)
(* The change of membership of the Spread daemons: Memb_token_loss, the    *)
(* two rounds of the form token, the exchange of the old ring's packets    *)
(* (state EVS) and Discard_packets, which delivers them, the transitional  *)
(* and the new regular membership (daemon/membership.c and protocol.c).    *)
(*                                                                         *)
(* A behaviour starts with a ring whose token is lost: what module         *)
(* TokenRing leaves at that point, daemons behind each other at will, is   *)
(* the choice of Init.  The states SEG, REPRESENTED and GATHER are one, "LOST":  *)
(* whom the daemons find, and in which order they are put on the form token,     *)
(* is the choice of CreateForm1 and comes from module Gather.  The new rings     *)
(* carry no messages.                                                            *)
(*                                                                         *)
(* The globals of daemon d are the record st[d], with the names            *)
(*   mode State (and how the process ended)   id Membership_id             *)
(*   memb Membership   have Packets, exist 1 or 2   dummy Packets, exist 3 *)
(*   hi Highest_seq  myAru My_aru  aru Aru  disc Last_discarded            *)
(*   del Last_delivered  lastSeq Last_seq  setAru Set_aru                  *)
(*   lastAru Last_token->aru   commit Commit_set                           *)
(*   next the Future_ variables: id, memb, commit, trans, time             *)
(*   time Last_time_used   up what sessions were given: see NoView         *)
(***************************************************************************)
EXTENDS Integers, FiniteSets, SequencesExt, FiniteSetsExt

CONSTANTS N,            \* the daemons are 1..N, in configuration order
          OldRing,      \* those on the ring that has sent packets; the others are alone
          Pasts         \* what became of that ring's packets, a set of records: see below

\* What the modules that use this one assume of the constants.  Of a past, sent[i] is
\* packet i, a [from, safe], lost[d] are those d did not receive, base is how many all
\* had received, commit[d] is Commit_set as an earlier change of membership left it,
\* and late says that packets are on their way still when the token is lost; maxForms
\* is a bound, on the form tokens created.
RecoveryAssumption ==
  /\ N \in Nat \ {0} /\ OldRing \subseteq 1..N /\ OldRing # {}
  /\ \A p \in Pasts :
       /\ p.lost \in [OldRing -> SUBSET (DOMAIN p.sent)]
       /\ p.commit \in [OldRing -> SUBSET (1..N)] /\ \A d \in OldRing : d \in p.commit[d]
       /\ p.base \in 0..Len(p.sent) /\ p.late \in BOOLEAN /\ p.maxForms \in Nat
       /\ \A i \in DOMAIN p.sent :
            p.sent[i].from \in OldRing /\ p.sent[i].safe \in BOOLEAN /\ i \notin p.lost[p.sent[i].from]

VARIABLES past,         \* what became of the packets of the old ring, a member of Pasts
          st,           \* the daemons
          air,          \* air[d]: packets of the old ring on their way to d
          tokens,       \* tokens[d]: form and regular tokens on their way to d
          forms,        \* how many form tokens were created
          astray        \* history variable: what went other than the code counts on

vars == <<past, st, air, tokens, forms, astray>>

\* The four things that go astray, and how: "backoff" in TokenLoss, "stale" in
\* CreateForm1 and FillForm1, "zero" in HandleToken, "late" in ReceivePacket.  No
\* guard reads the variable: the properties do, and say what is lost when one has.
Astray(cause, happens) == astray' = IF happens THEN astray \cup {cause} ELSE astray

hist == past.sent

Daemons == 1..N
Greater(a, b) == IF a > b THEN a ELSE b
Lesser(a, b) == IF a < b THEN a ELSE b
Leader(S) == Min(S)
\* The member of ring S that follows d.
After(S, d) == IF \E e \in S : e > d THEN Min({e \in S : e > d}) ELSE Min(S)

OldId == [leader |-> Leader(OldRing), time |-> 1]
NoId == [leader |-> 0, time |-> 0]
NoNext == [id |-> NoId, memb |-> {}, commit |-> {}, trans |-> {}, time |-> 0]
\* What the sessions of a daemon were given by the end of its old ring: the packets,
\* those before the transitional membership, that membership, the next regular one.
NoView == [got |-> {}, before |-> {}, trans |-> {}, transId |-> NoId, reg |-> NoId]

Exist(s, i) == i \in s.have \cup s.dummy
Missing(s, a, b) == {i \in a..b : ~Exist(s, i)}
Alive(s) == s.mode \in {"OP", "EVS"}                  \* Token_alive
Running(s) == s.mode # "EXIT"
Active(s) == IF s.mode = "EVS" THEN s.next.memb ELSE s.memb       \* Memb_active_ptr
ActiveId(s) == IF s.mode = "EVS" THEN s.next.id ELSE s.id
Exits(s, broken) == IF broken THEN [s EXCEPT !.mode = "EXIT"] ELSE s

MutantAdvanceAru(s) ==
  [s EXCEPT !.myAru = Max({a \in s.myAru..Greater(s.myAru, s.hi) : (s.myAru + 1)..a \subseteq s.have})]
\* My_aru moves over the packets that are here without a gap.
AdvanceAru(s) ==
  [s EXCEPT !.myAru = Max({a \in s.myAru..Greater(s.myAru, s.hi) : Missing(s, s.myAru + 1, a) = {}})]

--------------------------------------------------------------------------------
(* Delivery *)

\* Deliver_agreed_packets: up to the first SAFE packet not delivered yet.
DeliverAgreed(s) ==
  LET upto == Max({a \in s.del..Greater(s.del, s.myAru) :
                     \A i \in (s.del + 1)..a : i \in s.have => ~hist[i].safe})
  IN  IF s.mode = "EVS" THEN s
      ELSE Exits([s EXCEPT !.del = upto, !.up.got = @ \cup (s.del + 1)..upto],
                 \E i \in (s.del + 1)..upto : i \notin s.have)

\* Discard_packets outside EVS.
DiscardStable(s) ==
  IF s.aru <= s.disc THEN s
  ELSE Exits([s EXCEPT !.disc = s.aru, !.del = Greater(@, s.aru), !.have = @ \ 1..s.aru,
                       !.up.got = @ \cup 1..s.aru],
             Missing(s, s.disc + 1, s.aru) # {})

MutantTaken(s) == {i \in s.have : i \in (s.disc + 1)..s.hi}
\* What Discard_packets delivers in EVS: after a hole only packets of committed members.
Taken(s) ==
  {i \in s.have \cap (s.disc + 1)..s.hi :
     (\E h \in s.dummy : h \in (s.disc + 1)..i) => hist[i].from \in s.commit}

\* Discard_packets in EVS, once the token says that all have everything: the packets
\* up to the first hole or SAFE one, the transitional membership, the others, the
\* regular membership.
InstallNext(s) ==
  LET rest == (s.disc + 1)..s.hi
      upto == Max({a \in s.disc..Greater(s.disc, s.hi) :
                     \A i \in (s.disc + 1)..a : i \in s.have /\ ~hist[i].safe})
      view == [got |-> s.up.got \cup Taken(s), before |-> s.up.got \cup (s.disc + 1)..upto,
               trans |-> s.next.trans,
               transId |-> [leader |-> Leader(s.next.trans), time |-> s.next.time],
               reg |-> s.next.id]
  IN  IF Missing(s, s.disc + 1, s.hi) # {} THEN Exits(s, TRUE)
      ELSE [s EXCEPT !.mode = "OP", !.id = s.next.id, !.memb = s.next.memb, !.next = NoNext,
                     !.have = @ \ rest, !.dummy = @ \ rest, !.hi = 0, !.myAru = 0, !.aru = 0,
                     !.setAru = -1, !.disc = 0, !.del = 0, !.lastAru = 0, !.lastSeq = 0,
                     !.up = IF @.reg = NoId THEN view ELSE @]

DiscardPackets(s) ==
  IF s.mode # "EVS" THEN DiscardStable(s)
  ELSE IF s.aru > s.disc /\ s.aru = s.lastSeq THEN InstallNext(s) ELSE s

--------------------------------------------------------------------------------
(* Losing the token *)

\* Backoff_membership: the holes are holes again, and My_aru goes back to
\* Last_discarded.  The loop that should take it forward again tests, for every i,
\* the packet the loop above ended at, that of Highest_seq.
BackoffMembership(s) ==
  LET cleared == [s EXCEPT !.dummy = @ \ (s.disc + 1)..s.hi, !.aru = s.disc]
  IN  [cleared EXCEPT !.myAru = IF s.disc < s.hi /\ Exist(cleared, s.hi) THEN s.hi ELSE s.disc]
\* Whether My_aru is then where the comment, "return Aru and My_aru", has it.
BackoffExact(s) ==
  LET b == BackoffMembership(s)
  IN  Missing(b, s.disc + 1, b.myAru) = {} /\ (b.myAru < s.hi => ~Exist(b, b.myAru + 1))

\* Memb_token_loss, as far as the packets and the sets of members go.
LoseToken(s, d) ==
  LET s1 == CASE s.mode = "OP" -> [s EXCEPT !.commit = {d}]
              [] s.mode = "EVS" -> BackoffMembership(s)
              [] OTHER -> s
  IN  [s1 EXCEPT !.mode = "LOST", !.memb = {d}, !.next = NoNext, !.lastAru = 0]

--------------------------------------------------------------------------------
(* The form token *)

\* What a token says of a ring: aru, highest_seq, the holes, and who moves with it.
RingInfo(s, d, holes) ==
  [aru |-> s.aru, hi |-> s.hi, holes |-> holes, trans |-> {d}, commit |-> {d} \cup s.commit, time |-> 0]

MutantMergedInfoHoles(s, d, old) ==
  [aru |-> Greater(old.aru, s.aru), hi |-> Greater(old.hi, s.hi),
   holes |-> old.holes \cup Missing(s, old.hi + 1, s.hi),
   trans |-> old.trans \cup {d}, commit |-> old.commit \cup {d} \cup s.commit, time |-> 0]
\* Fill_form1: what the token says of d's ring, and what d adds.
MergedInfo(s, d, old) ==
  [aru |-> Greater(old.aru, s.aru), hi |-> Greater(old.hi, s.hi),
   holes |-> {h \in old.holes : ~Exist(s, h)} \cup Missing(s, old.hi + 1, s.hi),
   trans |-> old.trans \cup {d}, commit |-> old.commit \cup {d} \cup s.commit, time |-> 0]

\* The token with d counted among its members, sent on: to the next of the list or,
\* when all have filled it, sorted and as form2 to the first.
SendForm1(t, seq, rings) ==
  LET last == t.n + 1 = Len(t.list)
  IN  [kind |-> IF last THEN "form2" ELSE "form1",
       list |-> IF last THEN SetToSortSeq(ToSet(t.list), <) ELSE t.list,
       n |-> IF last THEN 0 ELSE t.n + 1, seq |-> seq, rings |-> rings, id |-> NoId]
PutToken(toks, t) == [toks EXCEPT ![t.list[t.n + 1]] = @ \cup {t}]

\* A daemon that is taken from a ring in operation puts on the form token the
\* Commit_set of the change before that ring: Memb_token_loss alone resets it.
StaleCommit(s, d) == s.mode = "OP" /\ s.id = OldId /\ s.commit # {d}

\* Create_form1, with the members and representatives the gather phase found; the
\* leader of a live ring brings all of it.
CreateForm1(d, list) ==
  LET s == st[d]
      info == RingInfo(s, d, Missing(s, s.myAru + 1, s.hi))
      t == [list |-> list, n |-> 0]
  IN  /\ \/ s.mode = "LOST"
         \/ s.mode = "OP" /\ d = Leader(s.memb) /\ s.memb \subseteq ToSet(list) /\ s.memb # ToSet(list)
      /\ forms < past.maxForms /\ forms' = forms + 1
      /\ st' = [st EXCEPT ![d].mode = "FORM"]
      /\ tokens' = PutToken(tokens, SendForm1(t, s.hi + 3333, s.id :> info))
      /\ Astray("stale", StaleCommit(s, d))
      /\ UNCHANGED air

\* The rings of the token once d has filled it: its own as it was said of it, or anew.
Known(s, t) == s.id \in DOMAIN t.rings
FilledRings(s, d, t) ==
  (s.id :> IF Known(s, t) THEN MergedInfo(s, d, t.rings[s.id])
           ELSE RingInfo(s, d, Missing(s, s.disc + 1, s.hi))) @@ t.rings

\* Memb_handle_form1 and Fill_form1.
FillForm1(d, t) ==
  LET s == st[d]
      broken == Known(s, t) /\ d \in t.rings[s.id].trans
  IN  /\ t.kind = "form1" /\ s.mode \in {"OP", "LOST"} /\ t.list[t.n + 1] = d
      /\ st' = [st EXCEPT ![d] = Exits([s EXCEPT !.mode = "FORM"], broken)]
      /\ LET rest == [tokens EXCEPT ![d] = @ \ {t}]
         IN  tokens' = IF broken THEN rest
                       ELSE PutToken(rest, SendForm1(t, Greater(t.seq, s.hi + 3333), FilledRings(s, d, t)))
      /\ Astray("stale", StaleCommit(s, d))
      /\ UNCHANGED <<air, forms>>

\* The first regular token.
FirstToken(t, id) ==
  [kind |-> "token", id |-> id, seq |-> 0, aru |-> t.seq, lastId |-> 0, rtr |-> {}]

\* The times of a transitional and of a regular membership.  The clock reads what the
\* daemon used last: the case in which only Last_time_used keeps ids apart.
TransTime(s) == s.time + 1
MutantRingTime(s) == s.time + 1
RingTime(s) == s.time + 2

\* Read_form2 sends it on or, where all have read it, the first regular token.
PassForm2(toks, t, passed) ==
  IF passed.n < Len(t.list) THEN PutToken(toks, passed)
  ELSE [toks EXCEPT ![t.list[1]] = @ \cup {FirstToken(t, passed.id)}]

\* Read_form2.
ReadForm2(d, t) ==
  LET s == st[d]
      first == t.n = 0
      info == t.rings[s.id]
      time == IF first THEN RingTime(s) ELSE IF info.time = 0 THEN TransTime(s) ELSE s.time
      id == IF first THEN [leader |-> d, time |-> time] ELSE t.id
      transTime == IF info.time # 0 THEN info.time ELSE TransTime(s)
      s1 == DiscardStable([s EXCEPT !.time = time, !.lastSeq = t.seq, !.hi = info.hi, !.aru = info.aru,
              !.next = [id |-> id, memb |-> ToSet(t.list), commit |-> info.commit,
                        trans |-> info.trans, time |-> transTime]])
      s2 == Exits([s1 EXCEPT !.dummy = @ \cup info.holes, !.mode = "EVS", !.lastAru = 0],
                  s1.mode = "EXIT" \/ \E h \in info.holes : Exist(s1, h))
      passed == [t EXCEPT !.n = @ + 1, !.id = id, !.rings[s.id].time = transTime]
      rest == [tokens EXCEPT ![d] = @ \ {t}]
  IN  /\ t.kind = "form2" /\ s.mode = "FORM" /\ t.list[t.n + 1] = d
      /\ IF s.id \notin DOMAIN t.rings
           THEN st' = [st EXCEPT ![d] = Exits(s, TRUE)] /\ tokens' = rest
           ELSE /\ st' = [st EXCEPT ![d] = s2]
                /\ tokens' = IF s2.mode = "EXIT" THEN rest ELSE PassForm2(rest, t, passed)
      /\ UNCHANGED <<air, forms, astray>>

--------------------------------------------------------------------------------
(* The exchange of the old ring's packets *)

MutantTokenAru(s, t, d) ==
  IF t.aru \in {s.setAru, t.seq} \/ t.lastId = d THEN
    [aru |-> s.myAru, lastId |-> d, setAru |-> IF s.myAru < s.hi THEN s.myAru ELSE -1]
  ELSE [aru |-> t.aru, lastId |-> t.lastId, setAru |-> -1]
\* The calculation of Token->aru and Set_aru.
TokenAru(s, t, d) ==
  IF t.aru \in {s.setAru, t.seq} \/ t.lastId = d THEN
    [aru |-> s.myAru, lastId |-> d, setAru |-> IF s.myAru < s.hi THEN s.myAru ELSE -1]
  ELSE IF t.aru > s.myAru THEN [aru |-> s.myAru, lastId |-> d, setAru |-> s.myAru]
  ELSE [aru |-> t.aru, lastId |-> t.lastId, setAru |-> -1]

MutantCommitIfComplete(s) ==
  IF s.mode = "EVS" /\ s.myAru = s.hi THEN [s EXCEPT !.myAru = s.lastSeq] ELSE s
\* My_aru = Last_seq says that nothing is missing; Memb_commit.
CommitIfComplete(s) ==
  IF s.mode = "EVS" /\ s.myAru = s.hi
  THEN [s EXCEPT !.myAru = s.lastSeq, !.commit = s.next.commit] ELSE s

\* The first token of the exchange has seq 0.  A daemon that has none of the old
\* ring's packets puts aru 0 on it, and another takes that for everybody's agreement.
ZeroAru(s, t, d) == s.mode = "EVS" /\ t.aru = t.seq /\ t.lastId # d /\ t.aru # s.setAru

\* Prot_handle_token: the requests of d's old ring are answered and made anew, those
\* of other rings are passed on.  A token of another ring never arrives here: the
\* token has no ring id, only its arq field, and is taken not to outlive its ring.
HandleToken(d, t) ==
  LET s == st[d]
      mine == {r \in t.rtr : r.ring = s.id}
      answers == {r.seq : r \in {q \in mine : q.seq \in s.have}}
      s1 == AdvanceAru([s EXCEPT !.hi = Greater(@, t.seq)])
      requests == {[ring |-> s.id, seq |-> i] : i \in Missing(s1, s1.myAru + 1, s1.hi)}
      s2 == CommitIfComplete(s1)
      a == TokenAru(s2, t, d)
      s3 == DiscardPackets([s2 EXCEPT !.aru = Lesser(a.aru, s.lastAru), !.setAru = a.setAru,
                                      !.lastAru = a.aru])
      pass == [t EXCEPT !.aru = a.aru, !.lastId = a.lastId, !.rtr = (@ \ mine) \cup requests,
                        !.seq = IF s.mode = "EVS" THEN @ ELSE s1.hi]
      broken == \E r \in mine : r.seq < s.aru
  IN  /\ t.kind = "token" /\ Alive(s) /\ ActiveId(s) = t.id
      /\ st' = [st EXCEPT ![d] = Exits(s3, broken)]
      /\ tokens' = IF broken THEN [tokens EXCEPT ![d] = @ \ {t}]
                   ELSE LET rest == [tokens EXCEPT ![d] = @ \ {t}]
                        IN  [rest EXCEPT ![After(Active(s), d)] = @ \cup {pass}]
      /\ air' = [e \in Daemons |->
                   IF e # d /\ st[e].mode = "EVS" /\ st[e].id = s.id /\ st[e].next.id = t.id
                   THEN air[e] \cup answers ELSE air[e]]
      /\ Astray("zero", ZeroAru(s, t, d) /\ s2.myAru > t.aru)
      /\ UNCHANGED forms

\* Prot_handle_bcast, for a packet of the old ring.
ReceivePacket(d, i) ==
  LET s == st[d]
      s1 == [s EXCEPT !.have = @ \cup {i}, !.hi = Greater(@, i)]
  IN  /\ i \in air[d] /\ Running(s) /\ s.id = OldId /\ i > s.aru /\ ~Exist(s, i)
      /\ st' = [st EXCEPT ![d] = IF i = s.myAru + 1 THEN DeliverAgreed(AdvanceAru(s1)) ELSE s1]
      /\ Astray("late", s.mode \in {"LOST", "FORM"} \/ (s.mode = "EVS" /\ i > s.hi))
      /\ UNCHANGED <<air, tokens, forms>>

--------------------------------------------------------------------------------
(* Actions *)

\* The ring's daemons when its token is lost: each has the packets it sent, My_aru is
\* as far as it has them all, aru no farther than anybody's My_aru, and what it could
\* deliver is delivered.
OnRing(have, hi, aru, commit) ==
  LET s == [mode |-> "OP", id |-> OldId, memb |-> OldRing, have |-> have, dummy |-> {}, hi |-> hi,
            myAru |-> 0, aru |-> aru, setAru |-> -1, disc |-> 0, del |-> 0, lastSeq |-> 0,
            lastAru |-> 0, commit |-> commit, next |-> NoNext, time |-> 1, up |-> NoView]
  IN  DeliverAgreed(DiscardStable(AdvanceAru(s)))
Alone(d) ==
  [mode |-> "OP", id |-> [leader |-> d, time |-> -1], memb |-> {d}, have |-> {}, dummy |-> {}, hi |-> 0,
   myAru |-> 0, aru |-> 0, setAru |-> -1, disc |-> 0, del |-> 0, lastSeq |-> 0,
   lastAru |-> 0, commit |-> {d}, next |-> NoNext, time |-> -1, up |-> NoView]

Init ==
  /\ past \in Pasts
  /\ LET n == Len(hist)
         have(d) == (1..n) \ past.lost[d]
         gapless(d) == Max({a \in 0..n : 1..a \subseteq have(d)})
     IN  \E hi, aru \in [OldRing -> past.base..n] :
           /\ \A d \in OldRing : have(d) \subseteq 1..hi[d] /\ \A e \in OldRing : aru[d] <= gapless(e)
           /\ st = [d \in Daemons |-> IF d \in OldRing THEN OnRing(have(d), hi[d], aru[d], past.commit[d])
                                       ELSE Alone(d)]
  /\ air = [d \in Daemons |-> IF past.late THEN 1..Len(hist) ELSE {}]
  /\ tokens = [d \in Daemons |-> {}]
  /\ forms = 0 /\ astray = {}

\* Memb_token_loss, when a timer of state OP, FORM or EVS expires, the leader of a live
\* ring loses it in state GATHER, or Prot_handle_token has handled MAX_EVS_ROUNDS tokens
\* in EVS ("BUG WORKAROUND").  By then the tokens on their way are gone, and the
\* packets are unless packets are late.
TokenLoss(d) ==
  /\ st[d].mode \in {"OP", "FORM", "EVS"}
  /\ st' = [st EXCEPT ![d] = LoseToken(@, d)]
  /\ tokens' = [tokens EXCEPT ![d] = {}]
  /\ air' = IF past.late THEN air ELSE [air EXCEPT ![d] = {}]
  /\ Astray("backoff", st[d].mode = "EVS" /\ ~BackoffExact(st[d]))
  /\ UNCHANGED forms

\* Bounds: a token is lost only while another form token may be filled, and a new
\* ring's token goes round only until all its daemons are out of EVS.
Retry == forms < past.maxForms \/ \E e \in Daemons : \E t \in tokens[e] : t.kind = "form1"
Recovering(t) == \E e \in Daemons : st[e].mode = "EVS" /\ st[e].next.id = t.id

Lists(d) == {<<d>> \o q : q \in UNION {SetToSeqs(S) : S \in SUBSET (Daemons \ {d})}}
Next ==
  /\ UNCHANGED past
  /\ \E d \in Daemons :
       \/ (Retry /\ TokenLoss(d))
       \/ \E list \in Lists(d) : CreateForm1(d, list)
       \/ \E t \in tokens[d] :
            FillForm1(d, t) \/ ReadForm2(d, t) \/ (Recovering(t) /\ HandleToken(d, t))
       \/ \E i \in air[d] : ReceivePacket(d, i)

Spec == Init /\ [][Next]_vars

\* A token that is not lost is handled, and packets asked for again and again cannot
\* all be lost for ever: WF of HandleToken and of ReceivePacket, written out.
TokenDue == \E d \in Daemons : \E t \in tokens[d] :
  t.kind = "token" /\ Alive(st[d]) /\ ActiveId(st[d]) = t.id /\ Recovering(t)
TokenTaken == \E d \in Daemons : \E t \in tokens[d] : t.kind = "token" /\ t \notin tokens'[d]
PacketDue == \E d \in Daemons : Running(st[d]) /\ st[d].id = OldId
                /\ \E i \in air[d] : i > st[d].aru /\ ~Exist(st[d], i)
PacketTaken == \E d \in Daemons : st'[d].have \ st[d].have # {}
Fairness ==
  /\ []<>(~TokenDue) \/ []<><<TokenTaken>>_vars
  /\ []<>(~PacketDue) \/ []<><<PacketTaken>>_vars
FairSpec == Spec /\ Fairness

--------------------------------------------------------------------------------
(* Properties *)

\* The counters stay in step, My_aru being Last_seq once all is there.
TypeOK == \A d \in Daemons : LET s == st[d] IN Running(s) =>
  /\ s.disc <= s.del /\ s.del <= s.hi /\ s.have \subseteq (s.disc + 1)..s.hi
  /\ s.dummy # {} => s.mode = "EVS" /\ s.dummy \cap s.have = {} /\ s.dummy \subseteq 1..s.hi
  /\ s.mode = "EVS" => d \in s.next.trans /\ s.next.trans \subseteq s.next.memb \cap s.next.commit
  /\ s.next # NoNext <=> s.mode = "EVS"

NoneAstray(causes) == causes \cap astray = {}

\* Discard_packets in EVS: daemons that go from the ring to the same next one gave
\* their sessions the same packets, before the same transitional membership and
\* after it, and each was in it.
VirtualSynchrony == \A d, e \in OldRing :
  st[d].up.reg = st[e].up.reg /\ st[d].up.reg # NoId => st[d].up = st[e].up /\ e \in st[d].up.trans

\* Of one sender nothing is left out before something that is delivered, and before
\* the transitional membership nothing of anybody.
NoGaps == \A d \in OldRing : LET u == st[d].up IN
  /\ \A i \in u.got : \A j \in 1..i : hist[j].from = hist[i].from => j \in u.got
  /\ \A i \in (IF u.reg = NoId THEN u.got ELSE u.before) : 1..i \subseteq u.got

\* No two rings have one id, whoever formed them and however often; nor has a
\* transitional membership the id of a ring.
IdsUnique ==
  LET rings == {<<st[d].next.id, st[d].next.memb>> : d \in {e \in Daemons : st[e].mode = "EVS"}}
               \cup {<<st[d].id, st[d].memb>> : d \in {e \in Daemons : st[e].mode = "OP"}}
  IN  /\ \A r, q \in rings : r[1] = q[1] => r = q
      /\ \A d \in OldRing : \A r \in rings : st[d].up.reg # NoId => st[d].up.transId # r[1]

\* What extended virtual synchrony asks of a change of rings: the three together.  A
\* packet that is late, at some of those that go on together, ends the first; a stale
\* Commit_set, by which a packet may be delivered after a hole of its sender, the
\* second.  A back-off that errs ends neither.
ExtendedVirtualSynchrony ==
  /\ NoneAstray({"late"}) => VirtualSynchrony
  /\ NoneAstray({"stale"}) => NoGaps
  /\ IdsUnique

\* "mesg will not be delivered to application until the mesg has reached ALL
\* receipients' daemons": those of the ring for what is delivered before the
\* transitional membership, those of that membership for what comes after.
ReachedAll == \A d \in OldRing : \A i \in st[d].up.got : hist[i].safe =>
  \A e \in (IF st[d].up.reg = NoId \/ i \in st[d].up.before THEN OldRing ELSE st[d].up.trans) :
    Running(st[e]) => i \in st[e].have \cup st[e].up.got
\* So it is, unless My_aru ran over holes in Backoff_membership, or aru 0 was taken for
\* the agreement of all: then a daemon counts as having what it does not have.
SafeReached == NoneAstray({"backoff", "zero"}) => ReachedAll

\* No daemon reaches an Alarm(EXIT, ...) of the change of membership: a hole that is
\* not one, a packet missing at the end, a request for what everybody has.
NeverExits == \A d \in Daemons : st[d].mode # "EXIT"
\* The counters in step, and no alarm, unless the back-off erred or packets were late.
Sound == NoneAstray({"backoff", "late"}) => TypeOK /\ NeverExits

\* Every exchange comes to an end, with the regular membership, unless a member of the
\* future ring leaves it: again and again no daemon is in one.  Where the back-off
\* erred or packets were late it may end by MAX_EVS_ROUNDS alone, a step of TokenLoss.
Exchanging(d) ==
  /\ st[d].mode = "EVS"
  /\ \A e \in st[d].next.memb : Alive(st[e]) /\ ActiveId(st[e]) = st[d].next.id
ExchangeEnds == <>(~NoneAstray({"backoff", "late"})) \/ []<>(\A d \in Daemons : ~Exchanging(d))
=============================================================================
