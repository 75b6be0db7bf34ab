------------------------------ MODULE TokenRing ------------------------------
(***************************************************************************)
(* The ring ordering protocol of the Spread daemons (daemon/protocol.c and *)
(* FC_allowed) while a membership lasts.  A token goes round the daemons;  *)
(* its holder answers retransmission requests, gives its queued packets    *)
(* the next sequence numbers and broadcasts them, and lowers or raises the *)
(* token's aru.  Packets and tokens are lost, repeated and overtake each   *)
(* other.  The change of membership that a lost ring starts is in module   *)
(* Recovery; here the last of the leader's RetransMax + 1 tokens arrives.  *)
(*                                                                         *)
(* The globals of daemon d are the record st[d], with the names            *)
(*   seq Highest_seq   myAru My_aru   aru Aru   setAru Set_aru             *)
(*   disc Last_discarded   del Last_delivered   last Last_token            *)
(*   count Token_counter   nSent Last_num_retrans + Last_num_sent          *)
(*   slot Packets   part Up_queue (packets of an unfinished message)       *)
(*   accepted  how many messages of load[d] were queued                    *)
(*   down   the Down queue as the packets still to send                    *)
(*   up     the messages given to Sess_deliver_message                     *)
(*   dead   an Alarm(EXIT, ...) was reached                                *)
(***************************************************************************)
EXTENDS Integers, FiniteSets, SequencesExt, FiniteSetsExt

CONSTANTS MaxN,         \* at most so many daemons
          Loads,        \* possible loads: load[d] is what clients of d multicast,
                        \* messages [service, size]; 1..Len(load) are the daemons
          Slots,        \* MAX_PACKETS_IN_STRUCT
          SeqGap,       \* MAX_SEQ_GAP
          Window,       \* Window of flow_control.c
          Personal,     \* Personal_window
          PerSend,      \* small packets that fill one send
          ArqModulus,   \* 16, the values of the token's arq field
          RetransMax    \* bound on the retrans field: tokens hurried in one round

ASSUME RingAssumption ==
  /\ MaxN \in Nat \ {0}
  /\ \A l \in Loads :
       /\ Len(l) \in 1..MaxN /\ DOMAIN l = 1..Len(l)
       /\ \A d \in DOMAIN l :
            /\ Len(l[d]) \in Nat /\ DOMAIN l[d] = 1..Len(l[d])
            /\ \A n \in DOMAIN l[d] : l[d][n].size \in Nat \ {0}
  /\ Slots \in Nat \ {0} /\ SeqGap \in Nat /\ Window \in Nat /\ Personal \in Nat
  /\ PerSend \in Nat \ {0}
  /\ ArqModulus \in Nat /\ ArqModulus > 1 /\ RetransMax \in Nat

\* A round's packets fit in the slots: 1600 + 15 * 46 + 1 of 8192, unless the monitor
\* makes the windows ten times as large.
ASSUME SlotsSuffice == Slots >= SeqGap + Personal * PerSend + 1

VARIABLES load,         \* the load of this behaviour, a member of Loads
          st,           \* the daemons
          air,          \* air[d]: packets on their way to d
          tokens,       \* tokens[d]: tokens on their way to d
          sent          \* every packet created so far, in that order

vars == <<load, st, air, tokens, sent>>

Daemons == DOMAIN load         \* in configuration order
Leader == 1
After(d) == IF d = Len(load) THEN 1 ELSE d + 1
Greater(a, b) == IF a > b THEN a ELSE b
Lesser(a, b) == IF a < b THEN a ELSE b

NoPacket == [exist |-> 0]
Exist(s, i) == s.slot[i % Slots].exist
PacketAt(s, i) == s.slot[i % Slots].pkt
Service(p) == load[p.from][p.n].service
MutantSingle(p) == p.index = -1
\* A RELIABLE message of one packet: it may be delivered before its turn.
Single(p) == Service(p) = "reliable" /\ p.index = -1
\* The packets of a message are numbered 1, 2, ... and the last -size; seq comes later.
PacketsOf(d, n) ==
  [k \in 1..load[d][n].size |->
     [from |-> d, n |-> n, index |-> IF k = load[d][n].size THEN -k ELSE k, seq |-> 0]]

--------------------------------------------------------------------------------
(* Delivery *)

\* Deliver_packet: chain the packet behind those of its sender, single RELIABLE
\* packets on a queue of their own, and hand over what is complete.
DeliverPacket(s, i) ==
  LET p == PacketAt(s, i)
      q == IF Single(p) THEN 0 ELSE p.from
      k == IF p.index < 0 THEN -p.index ELSE p.index
  IN  [s EXCEPT !.dead = @ \/ s.part[q] + 1 # k,
                !.slot[i % Slots].exist = 2,
                !.part[q] = IF p.index < 0 THEN 0 ELSE @ + 1,
                !.up = IF p.index < 0 THEN Append(@, [from |-> p.from, n |-> p.n]) ELSE @]

\* What the loops of this module do with sequence number i of the record t: a single
\* RELIABLE packet is delivered before its turn, a packet in its turn, all that every
\* daemon has is delivered and freed, a packet off the Down queue gets its number.
Step(loop, t, i) ==
  CASE loop = "reliable" ->
         IF Exist(t, i) = 1 /\ Single(PacketAt(t, i)) THEN DeliverPacket(t, i) ELSE t
    [] loop = "agreed" ->
         IF Exist(t, i) = 0 THEN [t EXCEPT !.dead = TRUE]
         ELSE IF Exist(t, i) = 1 THEN DeliverPacket(t, i) ELSE t
    [] loop = "discard" ->
         [IF Exist(t, i) = 1 THEN DeliverPacket(t, i) ELSE t
            EXCEPT !.dead = @ \/ Exist(t, i) = 0, !.slot[i % Slots] = NoPacket]
    [] loop = "send" ->
         [t EXCEPT !.dead = @ \/ Exist(t, i) # 0,
                   !.slot[i % Slots] = [exist |-> 1, pkt |-> [t.down[i - t.seq] EXCEPT !.seq = i]]]

\* A loop over the sequence numbers a..b.
Over(loop, s, a, b) ==
  LET f[i \in (a - 1)..b] == IF i < a THEN s ELSE Step(loop, f[i - 1], i)
  IN  IF b < a THEN s ELSE f[b]

\* Deliver_reliable_packets, on the sequence numbers a..b.
DeliverReliable(s, a, b) == Over("reliable", s, Greater(a, s.del + 1), b)

\* Deliver_agreed_packets: up to the first SAFE packet not delivered yet.
DeliverAgreed(s) ==
  LET Waits(i) == Exist(s, i) = 1 /\ Service(PacketAt(s, i)) = "safe"
      upto == Max({a \in s.del..Greater(s.del, s.myAru) : \A i \in (s.del + 1)..a : ~Waits(i)})
  IN  [Over("agreed", s, s.del + 1, upto) EXCEPT !.del = upto]

\* Discard_packets: what every daemon has is delivered, SAFE or not, and freed.
DiscardPackets(s) ==
  IF s.aru <= s.disc THEN s
  ELSE [Over("discard", s, s.disc + 1, s.aru) EXCEPT !.disc = s.aru, !.del = Greater(@, s.aru)]

\* My_aru moves over the packets that are here without a gap.
AdvanceAru(s) ==
  [s EXCEPT !.myAru = Max({a \in s.myAru..Greater(s.myAru, s.seq) :
                             \A i \in (s.myAru + 1)..a : Exist(s, i) # 0})]

--------------------------------------------------------------------------------
(* The token's visit *)

\* FC_allowed.
Allowed(s, fc) ==
  IF s.seq > s.aru + SeqGap THEN 0
  ELSE Lesser(Lesser(Greater(Window + Personal - fc, 0), Window), Personal)

\* Send_new_packets takes packets off the Down queue while it has counted fewer
\* than allowed sends.  Net_queue_bcast counts a send when a packet does not fit
\* behind those held back, per of which fill a send, and Net_flush_bcast counts the
\* rest: one packet more leaves than allowed sends hold.
PacketsSent(s, allowed, per) ==
  IF allowed = 0 THEN 0 ELSE Lesser(Len(s.down), allowed * per + 1)

\* Sends that k packets need.
Sends(k, per) == (k + per - 1) \div per

NewPackets(s, k) == [j \in 1..k |-> [s.down[j] EXCEPT !.seq = s.seq + j]]

SendNewPackets(s, k) ==
  [Over("send", s, s.seq + 1, s.seq + k) EXCEPT !.seq = @ + k, !.down = SubSeq(@, k + 1, Len(@))]

\* The token d passes on, from the one it received and its record s.
TokenAru(s, t, d) ==
  IF t.aru \in {s.setAru, t.seq} \/ t.lastId = d THEN
    [aru |-> s.myAru, lastId |-> d, setAru |-> IF s.myAru < s.seq THEN s.myAru ELSE -1]
  ELSE IF t.aru > s.myAru THEN [aru |-> s.myAru, lastId |-> d, setAru |-> s.myAru]
  ELSE [aru |-> t.aru, lastId |-> t.lastId, setAru |-> -1]

MutantRequests(s, t, d) == [rtr |-> {i \in (s.myAru + 1)..(s.seq - 1) : Exist(s, i) = 0}, to |-> 0]
\* Requests for what d lacks, to be answered to d alone, or to everybody (0) when
\* d could not answer a request itself.
Requests(s, t, d) ==
  LET missing == {i \in (s.myAru + 1)..s.seq : Exist(s, i) = 0}
      passedOn == \E i \in t.rtr : Exist(s, i) = 0
  IN  [rtr |-> missing, to |-> IF missing = {} \/ passedOn THEN 0 ELSE d]

MutantNextToken(s, t, d, fc) ==
  LET a == TokenAru(s, t, d)
      r == Requests(s, t, d)
  IN  [arq |-> IF d = Leader THEN (t.arq + 1) % ArqModulus ELSE t.arq,
       retrans |-> IF d = Leader THEN 0 ELSE t.retrans, seq |-> s.seq, aru |-> a.aru,
       lastId |-> a.lastId, fc |-> t.fc, rtr |-> r.rtr, to |-> r.to]
NextToken(s, t, d, fc) ==
  LET a == TokenAru(s, t, d)
      r == Requests(s, t, d)
  IN  [arq |-> IF d = Leader THEN (t.arq + 1) % ArqModulus ELSE t.arq,
       retrans |-> IF d = Leader THEN 0 ELSE t.retrans, seq |-> s.seq, aru |-> a.aru,
       lastId |-> a.lastId, fc |-> fc, rtr |-> r.rtr, to |-> r.to]

MutantAfterToken(s, new, setAru, counted) ==
  LET s1 == [s EXCEPT !.aru = new.aru, !.last = new, !.setAru = setAru,
                      !.count = IF s.seq = new.aru THEN Lesser(@ + 1, 2) ELSE 0]
  IN  DeliverReliable(DeliverAgreed(DiscardPackets(s1)), s.seq - counted + 1, s.seq)
\* Aru is what two consecutive tokens agree on; then discard and deliver.
AfterToken(s, new, setAru, counted) ==
  LET aru == Lesser(new.aru, s.last.aru)
      s1 == [s EXCEPT !.aru = aru, !.last = new, !.setAru = setAru,
                      !.count = IF s.seq = aru THEN Lesser(@ + 1, 2) ELSE 0]
  IN  DeliverReliable(DeliverAgreed(DiscardPackets(s1)), s.seq - counted + 1, s.seq)

\* Is_token_hold, To_hold_token.
ToHoldToken(s) == s.last.retrans <= 1 /\ s.aru = s.seq /\ s.count > 1

\* The copies of the token of an earlier round still on their way are taken to be
\* lost: the arq field cannot tell those of ArqModulus rounds ago from new ones.
PutToken(d, t) == [tokens EXCEPT ![After(d)] = {u \in @ : u.arq = t.arq} \cup {t}]

Broadcast(d, pkts, a) == [e \in Daemons |-> IF e = d THEN a[e] ELSE a[e] \cup pkts]

\* Answer_retrans: what d has of the packets asked for, sent again one by one to the
\* daemon that asks, or packed like new ones to everybody.
Answers(s, t) == {PacketAt(s, i) : i \in {j \in t.rtr : Exist(s, j) # 0}}
Resent(d, t, answers) ==
  IF t.to = 0 THEN Broadcast(d, answers, air) ELSE [air EXCEPT ![t.to] = @ \cup answers]

\* The token t is accepted and handled by d, per of whose packets fill a send.
HandleToken(d, t, per) ==
  LET s0 == [st[d] EXCEPT !.seq = Greater(@, t.seq)]
      answers == Answers(s0, t)
      k == PacketsSent(s0, Allowed(s0, t.fc), per)
      counted == Sends(k, per)
      new == NewPackets(s0, k)
      n == Sends(Cardinality(answers), IF t.to = 0 THEN per ELSE 1) + counted
      s1 == AdvanceAru(SendNewPackets(
              [s0 EXCEPT !.dead = @ \/ \E i \in t.rtr : i < s0.aru], k))
      pass == NextToken(s1, t, d, t.fc - s1.nSent + n)
      s2 == AfterToken([s1 EXCEPT !.nSent = n], pass, TokenAru(s1, t, d).setAru, counted)
  IN  /\ st' = [st EXCEPT ![d] = s2]
      /\ sent' = sent \o new
      /\ air' = Broadcast(d, ToSet(new), Resent(d, t, answers))
      /\ tokens' = IF d = Leader /\ ToHoldToken(s1) THEN tokens ELSE PutToken(d, pass)

\* Prot_token_hurry: send the last token again, the leader with one more retrans.
TokenHurry(d, s) ==
  LET again == [s.last EXCEPT !.rtr = {}, !.to = 0,
                              !.retrans = IF d = Leader THEN @ + 1 ELSE @]
  IN  /\ st' = [st EXCEPT ![d] = [s EXCEPT !.last = again]]
      /\ tokens' = PutToken(d, again)

\* Which tokens Prot_handle_token does not swallow.
Fresh(d, t) ==
  IF d = Leader THEN t.arq = st[d].last.arq ELSE t.arq = (st[d].last.arq + 1) % ArqModulus
Repeated(d, t) ==
  d # Leader /\ t.arq = st[d].last.arq /\ t.retrans > st[d].last.retrans

--------------------------------------------------------------------------------
(* Actions *)

InitialToken == [arq |-> 0, retrans |-> 0, seq |-> 0, aru |-> 0, lastId |-> Leader, fc |-> 0, rtr |-> {}, to |-> 0]

\* The ring starts as Discard_packets leaves the daemons when a membership begins.
Init ==
  /\ load \in Loads
  /\ st = [d \in Daemons |->
             [seq |-> 0, myAru |-> 0, aru |-> 0, setAru |-> -1, disc |-> 0, del |-> 0,
              last |-> InitialToken, count |-> 0, nSent |-> 0,
              slot |-> [i \in 0..(Slots - 1) |-> NoPacket], part |-> [q \in 0..Len(load) |-> 0],
              accepted |-> 0, down |-> <<>>, up |-> <<>>, dead |-> FALSE]]
  /\ air = [d \in Daemons |-> {}]
  /\ tokens = [d \in Daemons |-> IF d = Leader THEN {InitialToken} ELSE {}]
  /\ sent = <<>>

\* Prot_new_message: a session's message is queued; the first wakes a held token
\* (the hurry packet of another daemon only makes the leader hurry sooner).
NewMessage(d) ==
  LET s == [st[d] EXCEPT !.accepted = @ + 1, !.down = @ \o PacketsOf(d, st[d].accepted + 1)]
  IN  /\ st[d].accepted < Len(load[d])
      /\ IF d = Leader /\ st[d].down = <<>> /\ ToHoldToken(s) /\ s.last.retrans < RetransMax
           THEN TokenHurry(d, s)
           ELSE st' = [st EXCEPT ![d] = s] /\ UNCHANGED tokens
      /\ UNCHANGED <<air, sent>>

\* The leader's hurry timer.
HurryTimer ==
  /\ st[Leader].last.retrans < RetransMax
  /\ TokenHurry(Leader, st[Leader])
  /\ UNCHANGED <<air, sent>>

\* Prot_handle_token.
ReceiveToken(d, t) ==
  /\ t \in tokens[d]
  /\ \/ Fresh(d, t) /\ \E per \in {1, PerSend} : HandleToken(d, t, per)
     \/ Repeated(d, t) /\ TokenHurry(d, [st[d] EXCEPT !.last.retrans = t.retrans])
                       /\ UNCHANGED <<air, sent>>

\* Prot_handle_bcast, for a packet of this membership.
ReceivePacket(d, p) ==
  LET s == st[d]
      s1 == [s EXCEPT !.slot[p.seq % Slots] = [exist |-> 1, pkt |-> p], !.seq = Greater(@, p.seq)]
  IN  /\ p \in air[d]
      /\ st' = [st EXCEPT ![d] =
                  IF p.seq <= s.aru \/ Exist(s, p.seq) # 0 THEN s
                  ELSE IF p.seq = s.myAru + 1 THEN DeliverAgreed(AdvanceAru(s1))
                  ELSE DeliverReliable(s1, p.seq, p.seq)]
      /\ UNCHANGED <<air, tokens, sent>>

\* The network loses a packet.  What was received stays in the air, to arrive again
\* at any time, so losing a copy that would be ignored is left out; a token is lost
\* by never arriving.
LosePacket(d, p) ==
  /\ p \in air[d] /\ p.seq > st[d].aru /\ Exist(st[d], p.seq) = 0
  /\ air' = [air EXCEPT ![d] = @ \ {p}]
  /\ UNCHANGED <<st, tokens, sent>>

Next ==
  /\ UNCHANGED load
  /\ \/ HurryTimer
     \/ \E d \in Daemons :
          \/ NewMessage(d)
          \/ \E t \in tokens[d] : ReceiveToken(d, t)
          \/ \E p \in air[d] : ReceivePacket(d, p) \/ LosePacket(d, p)

Spec == Init /\ [][Next]_vars

\* From some time on no token is lost (the hurry timer, slower than a round, then
\* fires for a held token only: a hurried copy carries no requests, so were every
\* token lost once, nothing would be asked for), sessions hand over their messages,
\* and packets sent again and again cannot all be lost for ever.  The last two lines
\* are WF of handling a token, or hurrying a held one, and SF of ReceivePacket,
\* written out: the first can always be taken and changes a daemon's last token,
\* as nothing else keeps doing; Missing says when a ReceivePacket changes something,
\* which is then a slot and no last token.
RingStep == \E d \in Daemons : st'[d].last # st[d].last
PacketStep == \E d \in Daemons : st'[d].slot # st[d].slot /\ st'[d].last = st[d].last
Missing == {d \in Daemons : \E p \in air[d] : p.seq > st[d].aru /\ Exist(st[d], p.seq) = 0}
FairSpec ==
  /\ Spec
  /\ <>[][HurryTimer => ToHoldToken(st[Leader])]_vars
  /\ WF_st(\E d \in Daemons : NewMessage(d))
  /\ []<><<RingStep>>_vars
  /\ <>[](Missing = {}) \/ []<><<PacketStep>>_vars

--------------------------------------------------------------------------------
(* Properties *)

\* The counters stay in step: what is discarded was delivered, what is delivered
\* was here without a gap, and no packet is held outside disc+1..seq.
TypeOK == \A d \in Daemons : LET s == st[d] IN
  /\ s.disc <= s.del /\ s.del <= s.myAru /\ s.myAru <= s.seq /\ s.disc <= s.aru
  /\ s.last.retrans \in 0..RetransMax /\ s.last.arq \in 0..(ArqModulus - 1)
  /\ \A i \in DOMAIN s.slot : s.slot[i].exist # 0 =>
       /\ s.slot[i].exist \in 1..2 /\ s.slot[i].pkt \in ToSet(sent)
       /\ s.slot[i].pkt.seq \in (s.disc + 1)..s.seq /\ s.slot[i].pkt.seq % Slots = i

\* No daemon reaches one of the Alarm(EXIT, ...) of protocol.c: a retransmission
\* asked for below Aru, a sequence number given to a slot in use, a packet of a
\* message out of place, a hole where everything should be.
NeverExits == \A d \in Daemons : ~st[d].dead
\* Prot_handle_token's Aru: what one daemon takes for held by all, delivers though
\* it is SAFE and frees, every daemon has.
StableEverywhere == \A d, e \in Daemons : st[d].aru <= st[e].myAru

\* The three: the counters in step, no alarm, and nothing freed that somebody lacks.
Sound == TypeOK /\ NeverExits /\ StableEverywhere

\* The token's flow_control is what the daemons sent in their last visits, also
\* after losses: none of Window is lost for good and none is used twice.
AllSent(s) ==
  LET sum[e \in 0..Len(load)] == IF e = 0 THEN 0 ELSE sum[e - 1] + s[e].nSent IN sum[Len(load)]
FlowControlExact ==
  \A d \in Daemons : \A t \in tokens[d] : Fresh(d, t) => t.fc = AllSent(st)

\* The ring implements one order of the messages that are not RELIABLE.
Ordered(m) == load[m.from][m.n].service # "reliable"
log ==
  LET ends == SelectSeq(sent, LAMBDA p : p.index < 0 /\ Ordered(p))
  IN  [i \in DOMAIN ends |-> [from |-> ends[i].from, n |-> ends[i].n]]
delivered == [d \in 1..MaxN |-> IF d \in Daemons THEN SelectSeq(st[d].up, Ordered) ELSE <<>>]
Order == INSTANCE TotalOrder WITH Daemons <- 1..MaxN
ImplementsTotalOrder == Order!Spec

\* Every message accepted from a client is in the end delivered by every daemon.
EverythingDelivered ==
  <>({d \in Daemons : \E e \in Daemons : \E n \in DOMAIN load[e] :
        [from |-> e, n |-> n] \notin ToSet(st[d].up)} = {})
=============================================================================
