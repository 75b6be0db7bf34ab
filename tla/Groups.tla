-------------------------------- MODULE Groups --------------------------------
(***************************************************************************)
(* Group membership over the ring (daemon/groups.c): each daemon keeps the *)
(* members of every group by daemon, and after two rings have merged the   *)
(* daemons exchange GROUPS messages, one representative speaking for every *)
(* set of daemons that already agree (the synced set), until all have the  *)
(* same table again.  A ring that breaks during the exchange cascades.     *)
(*                                                                         *)
(* The ring below is what modules TokenRing and Recovery establish of it:  *)
(* a log per ring, of which every daemon delivers a prefix; the daemons    *)
(* that move together (the transitional membership) deliver the same       *)
(* messages before the signal and the same ones after it.  Installing a    *)
(* ring is one call of Discard_packets: the rest of the old ring, the      *)
(* transitional membership and the regular one go up without a pause.      *)
(***************************************************************************)
EXTENDS Integers, FiniteSets, SequencesExt

CONSTANTS Daemons,                \* in the order of the configuration
          Clients, Home,          \* clients and the daemons they are connected to
          GroupNames,
          Start,                  \* rings of the start, every one already settled
          Kinds,                  \* what clients ask: join, leave, kill (disconnect), data
          MaxRings, MaxRequests   \* bounds

ASSUME GroupsAssumption ==
  /\ Daemons \subseteq Nat \ {0} /\ Home \in [Clients -> Daemons]
  /\ \A d \in Daemons : Cardinality({i \in DOMAIN Start : d \in Start[i]}) = 1
  /\ Kinds \subseteq {"join", "leave", "kill", "data"} /\ {MaxRings, MaxRequests} \subseteq Nat

VARIABLES
  rings,      \* the rings so far: members, log, and whether a member moved on
  at,         \* at[d]: [ring, pos] the ring d is in and how much of its log it delivered
  install,    \* install[d]: the ring d is recovering into, or None
  st,         \* st[d]: the state of groups.c in daemon d
  views,      \* group memberships told to clients: [group, id, members, vs]
  requests    \* requests so far
vars == <<rings, at, install, st, views, requests>>

Leader(R) == CHOOSE d \in R : \A e \in R : d <= e
MembId(ring, leader) == <<ring, leader>>
\* unknown_memb_id: the daemon is partitioned
Unknown == <<0, 0>>
None == [ring |-> 0]
RingOf(d) == CHOOSE i \in DOMAIN Start : d \in Start[i]

\* G_init, and the ring the daemon starts in.
NoGroups == [g \in {} |-> 0]
InitDaemon(d) ==
  [state |-> "GOP", groups |-> NoGroups, synced |-> Start[RingOf(d)],
   reg |-> MembId(RingOf(d), 0), ring |-> Start[RingOf(d)], trans |-> {}, transId |-> Unknown,
   bufs |-> <<>>, fresh |-> FALSE, own |-> FALSE, gathered |-> <<>>, count |-> 0,
   queue |-> <<>>, told |-> {}, twice |-> FALSE, dead |-> FALSE]

Init ==
  /\ rings = [i \in DOMAIN Start |-> [members |-> Start[i], log |-> <<>>, left |-> FALSE]]
  /\ at = [d \in Daemons |-> [ring |-> RingOf(d), pos |-> 0]]
  /\ install = [d \in Daemons |-> None] /\ st = [d \in Daemons |-> InitDaemon(d)]
  /\ views = {} /\ requests = 0

--------------------------------------------------------------------------------
(* The table of groups.  A group is [id: <<memb_id, index>>, changed, daemons: *)
(* a function from some daemons to [memb, names]].                             *)

With(f, x, y) == [z \in DOMAIN f \cup {x} |-> IF z = x THEN y ELSE f[z]]
Sub(f, X) == [x \in DOMAIN f \cap X |-> f[x]]
Names(grp) == UNION {grp.daemons[p].names : p \in DOMAIN grp.daemons}
Partitioned(grp, p) == grp.daemons[p].memb = Unknown

MutantUpdateMembIds(grp) ==
  [grp EXCEPT !.daemons = [p \in DOMAIN @ |-> [@[p] EXCEPT !.memb = grp.id[1]]]]
\* G_update_daemon_memb_ids
UpdateMembIds(grp) ==
  [grp EXCEPT !.daemons =
     [p \in DOMAIN @ |-> IF @[p].memb = Unknown THEN @[p] ELSE [@[p] EXCEPT !.memb = grp.id[1]]]]
MutantSettled(grp, id) == [grp EXCEPT !.changed = FALSE]
\* A changed group starts a new id with the membership.
Settled(grp, id) == [grp EXCEPT !.id = <<id, 1>>, !.changed = FALSE]

\* G_remove_daemon for a set of daemons, G_remove_group for the groups left empty.
RemoveDaemons(grp, P) == [grp EXCEPT !.daemons = Sub(@, DOMAIN @ \ P)]
RemoveGroups(groups) == Sub(groups, {g \in DOMAIN groups : DOMAIN groups[g].daemons # {}})
\* G_eliminate_partitioned_daemons of all groups: of each the daemons that are gone.
Eliminate(groups, gone) == RemoveGroups([g \in DOMAIN groups |-> RemoveDaemons(groups[g], gone[g])])

\* G_add_to_synced_set, which exits if the sets meet, and G_update_synced_set.
AddToSyncedSet(s, set) == [s EXCEPT !.synced = @ \cup set, !.dead = @ \/ s.synced \cap set # {}]
UpdateSyncedSet(s) == [s EXCEPT !.synced = @ \cap s.trans]
\* G_check_if_changed_by_cascade
ChangedByCascade(grp, T) == DOMAIN grp.daemons \ T # {}

\* G_build_memb_vs_buf: who is listed with whom; a partitioned daemon is alone, and
\* so is the member that joins.
VsSets(grp, joiner) ==
  LET together(p) == {q \in DOMAIN grp.daemons : q = p \/ (grp.daemons[q].memb = grp.daemons[p].memb
                                                           /\ ~Partitioned(grp, p))}
      named(P) == UNION {grp.daemons[q].names : q \in P} \ joiner
  IN  ({named(together(p)) : p \in DOMAIN grp.daemons} \cup {joiner}) \ {{}}

\* G_build_memb_buf, with the sets that follow in it.
MembMessage(g, grp, vs) == [group |-> g, id |-> grp.id, members |-> Names(grp), vs |-> vs]
\* G_send_heavyweight_join, G_send_lightweight_memb: to the local members.
Tell(s, d, g, grp, vs) ==
  IF d \notin DOMAIN grp.daemons THEN s
  ELSE [s EXCEPT !.told = @ \cup {MembMessage(g, grp, vs)}]
TellAll(s, d, groups, gs) ==
  FoldLeft(LAMBDA v, g : Tell(v, d, g, groups[g], VsSets(groups[g], {})), s, SetToSeq(gs))

--------------------------------------------------------------------------------
(* GROUPS messages *)

MutantBufs(s) ==
  LET one(g) == [g |-> g, synced |-> s.synced,
                 id |-> s.groups[g].id, changed |-> FALSE, names |->
                 [p \in DOMAIN s.groups[g].daemons |-> s.groups[g].daemons[p].names]]
  IN  IF DOMAIN s.groups = {} THEN <<[g |-> "", synced |-> s.synced]>>
      ELSE [i \in DOMAIN SetToSeq(DOMAIN s.groups) |-> one(SetToSeq(DOMAIN s.groups)[i])]
\* G_build_new_groups_bufs: here a buffer holds one group.  What is sent of a daemon's
\* membership id is the group's.
Bufs(s) ==
  LET one(g) == [g |-> g, synced |-> s.synced,
                 id |-> s.groups[g].id, changed |-> s.groups[g].changed, names |->
                 [p \in DOMAIN s.groups[g].daemons |-> s.groups[g].daemons[p].names]]
  IN  IF DOMAIN s.groups = {} THEN <<[g |-> "", synced |-> s.synced]>>
      ELSE [i \in DOMAIN SetToSeq(DOMAIN s.groups) |-> one(SetToSeq(DOMAIN s.groups)[i])]

\* G_build_groups_msg_hdr: the header has the size the synced set has now.
GroupsMessage(s, d, buf, last) ==
  [kind |-> "groups", from |-> d, memb |-> s.reg, buf |-> buf, last |-> last,
   size |-> Cardinality(s.synced)]
\* G_send_groups_messages: the last one AGREED, stamped with Reg_memb_id.
Send(s, d) ==
  [s EXCEPT !.queue = @ \o [i \in DOMAIN s.bufs |-> GroupsMessage(s, d, s.bufs[i], i = Len(s.bufs))]]

\* The head of the synced set speaks for it, with the old buffers if they still hold.
Speak(s, d) ==
  IF Leader(s.synced) # d THEN s
  ELSE Send([s EXCEPT !.bufs = IF s.fresh THEN @ ELSE Bufs(s), !.fresh = TRUE], d)

\* G_mess_to_groups: the daemons of a group in a message, and the group they are added
\* to, which starts with the id that was sent if it is new.
SentDaemons(buf) == [p \in DOMAIN buf.names |-> [memb |-> buf.id[1], names |-> buf.names[p]]]
Learn(s, buf) ==
  IF buf.g = "" THEN s
  ELSE LET old == IF buf.g \in DOMAIN s.groups THEN s.groups[buf.g]
                  ELSE [id |-> buf.id, changed |-> FALSE, daemons |-> NoGroups]
           sent == SentDaemons(buf)
           new == [old EXCEPT !.changed = @ \/ buf.changed
                                          \/ (sent # NoGroups /\ buf.id[1] # old.id[1]),
                              !.daemons = [p \in DOMAIN @ \cup DOMAIN sent |->
                                             IF p \in DOMAIN @ THEN @[p] ELSE sent[p]]]
       IN  [s EXCEPT !.groups = With(@, buf.g, new),
                     !.twice = @ \/ DOMAIN old.daemons \cap DOMAIN sent # {}]

\* What a representative sent, merged.
LearnAll(s, rep) == AddToSyncedSet(FoldLeft(Learn, s, rep.bufs), rep.bufs[1].synced)
Forgotten(s) == [s EXCEPT !.gathered = <<>>, !.own = FALSE, !.count = 0]

\* G_compute_and_notify
Compute(s, d) ==
  LET t == FoldLeft(LearnAll, s, s.gathered)
      gs == {g \in DOMAIN t.groups : t.groups[g].changed}
      settled == [g \in DOMAIN t.groups |->
                    IF g \in gs THEN Settled(t.groups[g], s.reg) ELSE t.groups[g]]
      told == TellAll([t EXCEPT !.groups = settled], d, settled, gs)
  IN  Forgotten([told EXCEPT !.bufs = <<>>, !.fresh = FALSE, !.groups =
         [g \in DOMAIN @ |-> IF g \in gs THEN UpdateMembIds(@[g]) ELSE @[g]]])

--------------------------------------------------------------------------------
(* Memberships of the ring *)

Dies(s) == [s EXCEPT !.dead = TRUE]

\* The GOP case of G_handle_trans_memb: daemons that are gone are partitioned.
Transition(s, d) ==
  LET gone(g) == DOMAIN s.groups[g].daemons \ s.trans
      mark(g) == UpdateMembIds([s.groups[g] EXCEPT !.id = <<s.transId, 1>>, !.changed = TRUE,
                   !.daemons = [p \in DOMAIN @ |->
                      IF p \in s.trans THEN @[p] ELSE [@[p] EXCEPT !.memb = Unknown]]])
  IN  [UpdateSyncedSet(s) EXCEPT !.state = "GTRANS",
                !.groups = [g \in DOMAIN @ |-> IF gone(g) # {} THEN mark(g) ELSE @[g]]]

\* G_handle_trans_memb
HandleTrans(s, d, T, id) ==
  LET t == [s EXCEPT !.trans = T, !.transId = id]
  IN  CASE s.state = "GOP" -> Transition(t, d)
        [] s.state = "GGATHER" ->
             [t EXCEPT !.state = "GGT", !.groups =
                [g \in DOMAIN @ |-> [@[g] EXCEPT !.changed = @ \/ ChangedByCascade(s.groups[g], T)]]]
        [] OTHER -> Dies(s)

\* The GTRANS case of G_handle_reg_memb: without newcomers there is nothing to exchange.
RegInTrans(s, d) ==
  LET gs == {g \in DOMAIN s.groups : s.groups[g].changed}
      gone(grp) == {p \in DOMAIN grp.daemons : grp.changed /\ Partitioned(grp, p)}
      kept == Eliminate(s.groups, [g \in DOMAIN s.groups |-> gone(s.groups[g])])
      settled == [g \in DOMAIN kept |->
                    IF g \in gs THEN UpdateMembIds(Settled(kept[g], s.reg)) ELSE kept[g]]
  IN  IF Cardinality(s.trans) = Cardinality(s.ring)
        THEN TellAll([s EXCEPT !.state = "GOP", !.groups = settled], d, settled, gs \cap DOMAIN settled)
        ELSE Speak([s EXCEPT !.state = "GGATHER", !.groups = kept, !.bufs = <<>>, !.fresh = FALSE], d)

MutantRegInCascade(s, d) ==
  LET full(rep) == rep.complete
      merged == FoldLeft(LearnAll, s, SelectSeq(s.gathered, full))
      lost == {g \in DOMAIN merged.groups : ChangedByCascade(merged.groups[g], s.trans)}
      kept == Eliminate(merged.groups, [g \in DOMAIN merged.groups |-> Daemons \ s.trans])
      stale == SelectSeq(s.gathered, full) # <<>> \/ lost # {} \/ merged.synced \ s.trans # {}
  IN  Speak(Forgotten([UpdateSyncedSet(merged) EXCEPT
        !.state = "GGATHER", !.fresh = @ /\ ~stale,
        !.groups = [g \in DOMAIN kept |-> [kept[g] EXCEPT !.changed = @ \/ g \in lost]]]), d)
\* The GGT case: when its own messages had all arrived, the daemon takes in every set
\* whose messages had; the rest is thrown away and the exchange starts again.
RegInCascade(s, d) ==
  LET full(rep) == s.own /\ rep.complete
      merged == FoldLeft(LearnAll, s, SelectSeq(s.gathered, full))
      lost == {g \in DOMAIN merged.groups : ChangedByCascade(merged.groups[g], s.trans)}
      kept == Eliminate(merged.groups, [g \in DOMAIN merged.groups |-> Daemons \ s.trans])
      stale == SelectSeq(s.gathered, full) # <<>> \/ lost # {} \/ merged.synced \ s.trans # {}
  IN  Speak(Forgotten([UpdateSyncedSet(merged) EXCEPT
        !.state = "GGATHER", !.fresh = @ /\ ~stale,
        !.groups = [g \in DOMAIN kept |-> [kept[g] EXCEPT !.changed = @ \/ g \in lost]]]), d)

\* G_handle_reg_memb
HandleReg(s, d, R, id) ==
  LET t == [s EXCEPT !.ring = R, !.reg = id]
  IN  CASE s.state = "GTRANS" -> RegInTrans(t, d)
        [] s.state = "GGT" -> RegInCascade(t, d)
        [] OTHER -> Dies(s)

--------------------------------------------------------------------------------
(* Messages of the ring *)

\* G_handle_groups: kept by representative until every daemon of the ring is spoken
\* for; in GGT the new table is told first and then the transition.
HandleGroups(s, d, m) ==
  LET mine == m.from = Leader(s.synced)
      entry(r) == r.from = m.from
      more(r) == [r EXCEPT !.bufs = <<m.buf>> \o @, !.complete = @ \/ m.last]
      kept == IF \E i \in DOMAIN s.gathered : entry(s.gathered[i])
              THEN [i \in DOMAIN s.gathered |-> IF entry(s.gathered[i]) THEN more(s.gathered[i])
                                                                        ELSE s.gathered[i]]
              ELSE <<[from |-> m.from, bufs |-> <<m.buf>>, complete |-> m.last]>> \o s.gathered
      t == [s EXCEPT !.gathered = IF mine THEN @ ELSE kept, !.own = @ \/ (mine /\ m.last),
                     !.count = IF m.last THEN @ + m.size ELSE @]
  IN  CASE s.state \notin {"GGATHER", "GGT"} -> Dies(s)
        [] m.memb # s.reg -> s
        [] t.count # Cardinality(s.ring) -> t
        [] s.state = "GGATHER" -> [Compute(t, d) EXCEPT !.state = "GOP"]
        [] OTHER -> Transition([Compute(t, d) EXCEPT !.state = "GOP"], d)

\* G_handle_join: the group joined and the entry of the daemon, which are new at need.
JoinedGroup(s, g) ==
  IF g \in DOMAIN s.groups THEN s.groups[g]
  ELSE [id |-> <<IF s.state = "GOP" THEN s.reg ELSE s.transId, 0>>,
        changed |-> FALSE, daemons |-> NoGroups]
JoinedDaemon(s, old, p) ==
  IF p \in DOMAIN old.daemons THEN old.daemons[p]
  ELSE [memb |-> IF s.state = "GOP" \/ p \in s.trans THEN old.id[1] ELSE Unknown, names |-> {}]
\* A joiner of a partitioned daemon makes the group a changed one.
HandleJoin(s, d, m) ==
  LET p == Home[m.client]
      old == JoinedGroup(s, m.group)
      entry == JoinedDaemon(s, old, p)
      grp == [old EXCEPT !.id[2] = @ + 1, !.changed = @ \/ entry.memb = Unknown,
                         !.daemons = With(@, p, [entry EXCEPT !.names = @ \cup {m.client}])]
  IN  IF m.client \in entry.names THEN s
      ELSE Tell([s EXCEPT !.groups = With(@, m.group, grp)], d, m.group, grp,
                IF grp.changed THEN VsSets(grp, {m.client}) ELSE {{m.client}})

\* G_handle_leave and, for every group of the client, G_handle_kill.
HandleLeave(s, d, m) ==
  LET p == Home[m.client]
      old == s.groups[m.group]
      without == [old EXCEPT !.id[2] = @ + 1, !.daemons[p].names = @ \ {m.client}]
      grp == RemoveDaemons(without, {q \in {p} : without.daemons[q].names = {}})
  IN  IF m.group \notin DOMAIN s.groups \/ p \notin DOMAIN old.daemons THEN s
      ELSE IF m.client \notin old.daemons[p].names THEN s
      ELSE IF DOMAIN grp.daemons = {} THEN [s EXCEPT !.groups = RemoveGroups(With(@, m.group, grp))]
      ELSE Tell([s EXCEPT !.groups = With(@, m.group, grp)], d, m.group, grp,
                IF grp.changed THEN VsSets(grp, {}) ELSE {{m.client}})
HandleKill(s, d, m) ==
  FoldLeft(LAMBDA v, g : HandleLeave(v, d, [m EXCEPT !.group = g]), s, SetToSeq(DOMAIN s.groups))

\* Sess_deliver_message.  A regular message goes to the members in the table, which
\* must be whole by then; one to a group without an entry is dropped before that is
\* looked at (G_analize_groups).
Handle(s, d, m) ==
  LET ready == s.state \in {"GOP", "GTRANS"}
      needed == m.kind = "data" => m.group \in DOMAIN s.groups
  IN  CASE s.dead -> s
        [] ~s.dead /\ m.kind = "groups" -> HandleGroups(s, d, m)
        [] ~s.dead /\ m.kind # "groups" /\ needed /\ ~ready -> Dies(s)
        [] ~s.dead /\ ready /\ m.kind = "join" -> HandleJoin(s, d, m)
        [] ~s.dead /\ ready /\ m.kind = "leave" -> HandleLeave(s, d, m)
        [] ~s.dead /\ ready /\ m.kind = "kill" -> HandleKill(s, d, m)
        [] OTHER -> s
HandleAll(s, d, messages) == FoldLeft(LAMBDA v, m : Handle(v, d, m), s, messages)

--------------------------------------------------------------------------------
(* The ring *)

Log(d) == rings[at[d].ring].log
Operational(d) == install[d] = None /\ ~rings[at[d].ring].left /\ ~st[d].dead

\* The daemon's state after a handler; what it told goes to views.
Becomes(d, s) ==
  /\ st' = [st EXCEPT ![d] = [s EXCEPT !.told = {}]]
  /\ views' = views \cup s.told

Append2Log(d, m) == rings' = [rings EXCEPT ![at[d].ring].log = Append(@, m)]

\* A client of d joins, leaves or disconnects, or sends: the normal down queue is sent
\* from only while the groups are known.  Bound: what d can tell to change nothing is
\* left out.
IsMember(s, c, g) ==
  g \in DOMAIN s.groups /\ Home[c] \in DOMAIN s.groups[g].daemons
                        /\ c \in s.groups[g].daemons[Home[c]].names
Request(c) ==
  LET d == Home[c]
  IN  /\ Operational(d) /\ st[d].state = "GOP" /\ requests < MaxRequests
      /\ \E g \in GroupNames, kind \in Kinds :
           /\ kind = "join" => ~IsMember(st[d], c, g)
           /\ kind \in {"leave", "kill"} => IsMember(st[d], c, g)
           /\ Append2Log(d, [kind |-> kind, from |-> d, client |-> c, group |-> g])
      /\ requests' = requests + 1
      /\ UNCHANGED <<at, install, st, views>>

\* The control queue is sent from while they are gathered; what an earlier ring left
\* in it goes first.
SendDue(d) == Operational(d) /\ st[d].state = "GGATHER" /\ st[d].queue # <<>>
SendGroups(d) ==
  /\ SendDue(d)
  /\ Append2Log(d, Head(st[d].queue))
  /\ st' = [st EXCEPT ![d].queue = Tail(@)]
  /\ UNCHANGED <<at, install, views, requests>>

\* The next message in the total order.
DeliverDue(d) == install[d] = None /\ ~st[d].dead /\ at[d].pos < Len(Log(d))
Deliver(d) ==
  /\ DeliverDue(d)
  /\ at' = [at EXCEPT ![d].pos = @ + 1]
  /\ Becomes(d, Handle(st[d], d, Log(d)[at[d].pos + 1]))
  /\ UNCHANGED <<rings, install, requests>>

\* Deliver_reliable_packets: a single-packet RELIABLE message goes up when its packet
\* arrives, before the ones that are missing.
DeliverReliable(d) ==
  /\ install[d] = None /\ ~st[d].dead
  /\ \E i \in at[d].pos + 2..Len(Log(d)) :
       Log(d)[i].kind = "data" /\ Becomes(d, Handle(st[d], d, Log(d)[i]))
  /\ UNCHANGED <<rings, at, install, requests>>

\* A new ring R is agreed on.  From an old ring come the members T of R that are in
\* it; they will deliver its log up to `cut', the signal, and then what follows, but
\* after `hole' only messages of T.  Bound: a ring is not followed by the same one.
Form(R) ==
  LET new == Len(rings) + 1
      olds == {at[d].ring : d \in R}
      from(o) == {d \in R : at[d].ring = o}
      limit(o) == Len(rings[o].log)
      stops(o) == {<<cut, hole>> \in (0..limit(o)) \X (1..limit(o) + 1) :
                     /\ cut < hole /\ \A d \in from(o) : at[d].pos <= cut
                     /\ hole <= limit(o) => rings[o].log[hole].from \notin from(o)}
  IN  /\ Len(rings) < MaxRings /\ R # {} /\ \A d \in R : ~st[d].dead
      /\ \A d \in R : install[d] # None \/ rings[at[d].ring].members # R
      /\ \E stop \in [olds -> UNION {stops(o) : o \in olds}] :
           /\ \A o \in olds : stop[o] \in stops(o)
           /\ install' = [d \in Daemons |-> IF d \notin R THEN install[d]
                ELSE [ring |-> new, with |-> from(at[d].ring), cut |-> stop[at[d].ring][1],
                      hole |-> stop[at[d].ring][2]]]
      /\ rings' = Append([i \in DOMAIN rings |-> [rings[i] EXCEPT !.left = @ \/ i \in olds
                                                   \/ \E d \in R : install[d].ring = i]],
                         [members |-> R, log |-> <<>>, left |-> FALSE])
      /\ UNCHANGED <<at, st, views, requests>>

\* Discard_packets of the daemon in EVS, with what it delivers.
InstallDue(d) == install[d] # None /\ ~st[d].dead
Install(d) ==
  LET i == install[d]
      log == Log(d)
      first == SubSeq(log, at[d].pos + 1, i.cut)
      between == SubSeq(log, i.cut + 1, i.hole - 1)
      after == SelectSeq(SubSeq(log, i.hole + 1, Len(log)), LAMBDA m : m.from \in i.with)
      signalled == HandleTrans(HandleAll(st[d], d, first), d, i.with, MembId(i.ring, Leader(i.with)))
  IN  /\ InstallDue(d)
      /\ Becomes(d, HandleReg(HandleAll(signalled, d, between \o after), d,
                              rings[i.ring].members, MembId(i.ring, 0)))
      /\ at' = [at EXCEPT ![d] = [ring |-> i.ring, pos |-> 0]]
      /\ install' = [install EXCEPT ![d] = None]
      /\ UNCHANGED <<rings, requests>>

Next ==
  \/ \E c \in Clients : Request(c)
  \/ \E d \in Daemons : SendGroups(d) \/ Deliver(d) \/ Install(d)
  \/ \E R \in SUBSET Daemons : Form(R)

Spec == Init /\ [][Next]_vars
ReliableSpec == Init /\ [][Next \/ \E d \in Daemons : DeliverReliable(d)]_vars

\* The token comes round, and a recovery that has been agreed on ends: each action by
\* the one variable that only it changes so.
Fairness == \A d \in Daemons :
  /\ WF_st(SendDue(d) /\ st' = [st EXCEPT ![d].queue = Tail(@)])
  /\ WF_at(DeliverDue(d) /\ at' = [at EXCEPT ![d].pos = @ + 1])
  /\ WF_install(InstallDue(d) /\ install' = [install EXCEPT ![d] = None])
FairSpec == Spec /\ Fairness

--------------------------------------------------------------------------------
(* Properties *)

Ids == (0..MaxRings) \X (0..Cardinality(Daemons))
TypeOK ==
  /\ at \in [Daemons -> [ring : 1..MaxRings, pos : Nat]]
  /\ \A d \in Daemons : LET s == st[d] IN
       /\ s.state \in {"GOP", "GGATHER"}
       /\ s.synced \subseteq Daemons /\ d \in s.synced /\ s.synced \subseteq s.ring
       /\ \A g \in DOMAIN s.groups :
            /\ s.groups[g].id \in Ids \X (1..MaxRequests + 1) /\ s.groups[g].changed \in BOOLEAN
            /\ \A p \in DOMAIN s.groups[g].daemons :
                 s.groups[g].daemons[p] \in [memb : Ids \ {Unknown}, names : SUBSET Clients \ {{}}]

\* groups.c never reaches a FATAL alarm: no membership, GROUPS message, join, leave,
\* kill or regular message arrives in a state that has no case for it, and no
\* representative brings a daemon twice ("intersection isn't empty").
NeverExits == \A d \in Daemons : ~st[d].dead

\* Both with the types, and the check G_mess_to_groups leaves out ("If I was paranoid,
\* I could always check here that the daemon isn't already in my GroupsList").
Sound == TypeOK /\ NeverExits /\ \A d \in Daemons : ~st[d].twice

\* SP_equal_group_ids.3: two memberships with the same group id list the same members,
\* whoever was told, across merges, partitions and cascades.
SameIdSameView == \A v, w \in views : v.group = w.group /\ v.id = w.id => v.members = w.members

\* Two daemons that have delivered as much of the same ring have the same tables, and
\* one that is in GOP is synchronized with its whole ring.
Tables(d) == [g \in DOMAIN st[d].groups |-> [id |-> st[d].groups[g].id, names |->
                [p \in DOMAIN st[d].groups[g].daemons |-> st[d].groups[g].daemons[p].names]]]
GroupsAgree ==
  \A d, e \in Daemons : st[d].state = "GOP" =>
    /\ st[d].synced = st[d].ring
    /\ at[d] = at[e] => st[e].state = "GOP" /\ Tables(d) = Tables(e)

\* What is agreed on across daemons: the views they tell of and the tables they keep.
ViewsAndTablesAgree == SameIdSameView /\ GroupsAgree

\* What a daemon has of its own clients is what they asked for, in the order in which
\* it delivered it: no exchange loses or invents a member.  The clients of a daemon
\* are known to it alone, so `asked' is the daemon's own table before and after.
OwnClients(s, d) ==
  [g \in {h \in DOMAIN s.groups : d \in DOMAIN s.groups[h].daemons} |-> s.groups[g].daemons[d].names]
OwnKept == [][\A d \in Daemons :
  OwnClients(st'[d], d) # OwnClients(st[d], d) =>
    \E i \in DOMAIN Log(d) : i > at[d].pos /\ Log(d)[i].from = d /\ Log(d)[i].kind # "groups"]_vars

\* When the rings stop changing, every exchange ends: whoever is in a ring that is not
\* broken is in GOP, however many rings broke during the exchange.
GatherEnds == <>[](\A d \in Daemons : st[d].state = "GOP" \/ rings[at[d].ring].left)

\* groups.c: in a membership "Each vs_set specifies a set of members ... with the
\* property that the members listed are either virtually syncrhonous with each other,
\* or crashed", so two that are told of the same membership agree who is with whom.
\* Refuted: a representative sends the group's id for every daemon it speaks for.
SameViewSameSets == \A v, w \in views : v.group = w.group /\ v.id = w.id => v.vs = w.vs
===============================================================================
