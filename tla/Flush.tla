------------------------------- MODULE Flush -------------------------------
(***************************************************************************)
(* The flush layer, src/spread-src-4.0.0/libspread/fl.c, for one group:    *)
(* what every member's library does with the memberships and messages of   *)
(* the layer below (SP), how a new view is agreed on with FLUSH_OK         *)
(* messages and installed, how FLUSH_RECV messages end the time in which   *)
(* a message could come before its view, and how a change that can no      *)
(* longer be agreed on is folded into a later one.                         *)
(*                                                                         *)
(* SP is external: it hands memberships and messages over in one order,    *)
(* FIFO messages as well with the daemons of this repository; a RELIABLE   *)
(* one of a user may come at any time before its turn.  A membership       *)
(* caused by a network failure is not modelled: the layer does not survive *)
(* one (README).                                                           *)
(***************************************************************************)
EXTENDS Integers, Sequences, FiniteSets, SequencesExt

CONSTANTS
  Procs,         \* the connections
  Founders,      \* the members of the group at first, in a steady view
  FLOK_AGE_LIMIT,
  Senders,       \* bound: who sends messages
  Changers,      \* bound: who joins, leaves and disconnects
  MaxChanges,    \* bound: memberships
  MaxData,       \* bound: messages of users
  MaxAhead       \* bound: how many messages one overtakes

ASSUME FlushAssumption ==
  /\ Founders \subseteq Procs /\ Senders \subseteq Procs /\ Changers \subseteq Procs
  /\ FLOK_AGE_LIMIT \in Nat
  /\ MaxChanges \in Nat /\ MaxData \in Nat /\ MaxAhead \in Nat

VARIABLES
  members,  \* the members of the group according to SP
  gid,      \* the id of the last membership of SP
  inbox,    \* inbox[p]: what SP has ordered and p's connection has not received
  data,     \* how many messages users have sent
  up,       \* the connections not disconnected
  group,    \* group[p]: the fl_group of p's connection, or NoGroup
  views,    \* history: views[p]: the views p has installed
  broken    \* history: what has gone wrong that may end a process: "memb_info", the
            \* assertion on what SP_scat_get_memb_info returns; "mess_queue", a
            \* stddll_clear that frees more than there is; "assert", any other assertion
            \* and stderr_output(STDERR_ABORT)

spVars == <<members, gid, data, up>>
vars == <<members, gid, inbox, data, up, group, views, broken>>

\* No fl_group.
NoGroup == [mstate |-> "none"]

-----------------------------------------------------------------------------
(* The layer below. *)

\* A JOIN, LEAVE or DISCONNECT of one connection.
Membership(cause, p) ==
  [type |-> cause, service |-> "agreed", from |-> p, gid |-> gid + 1,
   members |-> IF cause = "JOIN" THEN members \cup {p} ELSE members \ {p}]

\* FLUSH_OK or FLUSH_RECV for a group id.
Signal(type, p, id) == [type |-> type, service |-> "fifo", from |-> p, gid |-> id]

\* A message of a user, with the id of the view it is sent in if it is
\* vulnerable; view and membs are history.
User(p, service, vulnerable) ==
  LET view == group[p].fl_view
  IN  [type |-> IF vulnerable THEN "VULNERABLE" ELSE "USER", service |-> service, from |-> p,
       gid |-> IF vulnerable THEN view.gid ELSE 0, number |-> data,
       view |-> view.gid, membs |-> view.orig]

\* What is ordered after a leave can still come to the leaver before it.
Posted(box, m) ==
  [p \in Procs |->
     IF p \in up /\ (group[p] # NoGroup \/ p \in members)
     THEN Append(box[p], m) ELSE box[p]]

\* Is the k-th message on its way to p handed over now?
Handed(p, k) == k = 1 \/ (inbox[p][k].service = "reliable" /\ k <= MaxAhead + 1)

\* FL_int_receive: what the layer makes of a message of SP.  A type that no user may
\* send says that the id of a group follows what the user sent: that of a view for
\* FLUSH_OK, FLUSH_RECV and VULNERABLE, the last with the type the user gave.  Too
\* short a buffer of the user changes what he gets of it, not what is done with it.
Kinds == [JOIN |-> "memb", LEAVE |-> "memb", DISCONNECT |-> "memb",
          FLUSH_OK |-> "flok", FLUSH_RECV |-> "frecv", VULNERABLE |-> "data", USER |-> "data"]
Received(sp) ==
  [kind |-> Kinds[sp.type], vulnerable |-> sp.type = "VULNERABLE",
   dst_gid |-> IF sp.type = "USER" THEN 0 ELSE sp.gid] @@ sp

-----------------------------------------------------------------------------
(* The state of a group at a connection. *)

View(id, membs) == [gid |-> id, orig |-> membs, curr |-> membs, trans |-> FALSE]

\* create_fl_group: the joiner alone, and no FLUSH_REQ before it is a member.
NewGroup(p) ==
  [mstate |-> "JOINING", vstate |-> "AGREE", curr_change |-> 0,
   fl_view |-> [View(0, {p}) EXCEPT !.trans = TRUE], flush_recvs |-> 0,
   mess_queue |-> <<>>, mess_size |-> 0, memb_queue |-> <<>>, pmemb |-> <<>>]

SteadyGroup ==
  [NewGroup(CHOOSE p \in Founders : TRUE) EXCEPT
     !.mstate = "JOINED", !.vstate = "STEADY", !.fl_view = View(0, Founders)]

\* create_sp_memb_change: known by a FLUSH_OK that came before the membership.
UnknownChange ==
  [recvd |-> FALSE, age |-> 0, orig |-> {}, curr |-> {}, network |-> FALSE,
   flok_senders |-> {}]

Known(g, id) == IF id \in DOMAIN g.pmemb THEN g.pmemb[id] ELSE UnknownChange

Put(g, id, spc) ==
  [g EXCEPT !.pmemb = [x \in DOMAIN g.pmemb \cup {id} |->
                         IF x = id THEN spc ELSE g.pmemb[x]]]

\* stddll_push_back and stddll_clear of mess_queue.  A clear of a list that is not
\* empty leaves a size one more than before (stddll.c:220-230), and the next one
\* erases as many nodes as that says.
Pushed(g, m) == [g EXCEPT !.mess_queue = Append(@, m), !.mess_size = @ + 1]
Cleared(g) ==
  [g EXCEPT !.mess_queue = <<>>, !.mess_size = IF @ = 0 THEN 0 ELSE @ + 1]
FreesTooMuch(g) == g.mess_size > Len(g.mess_queue)

Init ==
  /\ members = Founders
  /\ gid = 0
  /\ inbox = [p \in Procs |-> <<>>]
  /\ data = 0
  /\ up = Procs
  /\ group = [p \in Procs |-> IF p \in Founders THEN SteadyGroup ELSE NoGroup]
  /\ views = [p \in Procs |->
                IF p \in Founders
                THEN <<[gid |-> 0, membs |-> Founders, network |-> FALSE,
                        vs |-> Founders, msgs |-> {}]>>
                ELSE <<>>]
  /\ broken = {}

-----------------------------------------------------------------------------
(* The handlers work on h: the group, what is sent to it and what the user *)
(* gets, in order, and what goes wrong.  Assertions are compiled out (-DNDEBUG, *)
(* libspread/Makefile.in:38), so the code goes on after one that is false.     *)

Handling(g) == [g |-> g, sent |-> <<>>, out |-> <<>>, bad |-> {}]

Asserted(h, ok) == IF ok THEN h ELSE [h EXCEPT !.bad = @ \cup {"assert"}]
Emptied(h) ==
  [h EXCEPT !.g = Cleared(@),
            !.bad = IF FreesTooMuch(h.g) THEN @ \cup {"mess_queue"} ELSE @]
Send(h, m) == [h EXCEPT !.sent = Append(@, m)]
Message(m) == [what |-> "message", m |-> m]
Deliver(h, m) == [h EXCEPT !.out = Append(@, Message(m))]

\* FL_int_flush in state AUTHORIZE.
FL_int_flush(p, h) ==
  IF h.g.mstate = "LEAVING" THEN h
  ELSE Send([h EXCEPT !.g.vstate = "AGREE"], Signal("FLUSH_OK", p, h.g.curr_change))

\* The change at the head of the queue becomes the one to agree on.  A user
\* that has flushed already has flushed for this one too.
MutantHandle_next_memb_change(p, h) ==
  LET h1 == [h EXCEPT !.g.curr_change = Head(h.g.memb_queue)]
      h2 == [h1 EXCEPT !.g.vstate = "AUTHORIZE"]
  IN IF h.g.vstate = "AGREE" THEN FL_int_flush(p, h2) ELSE h2
Handle_next_memb_change(p, h) ==
  LET h0 == Asserted(h, /\ h.g.memb_queue # <<>>
                      /\ IF h.g.vstate \in {"STEADY", "VERIFY"}
                         THEN h.g.curr_change = 0
                         ELSE h.g.mstate = "JOINING" \/ h.g.curr_change # 0)
      h1 == [h0 EXCEPT !.g.curr_change = Head(h.g.memb_queue), !.g.flush_recvs = 0]
      h2 == [h1 EXCEPT !.g.vstate = "AUTHORIZE"]
  IN IF h.g.vstate = "AGREE" THEN FL_int_flush(p, h2) ELSE h2

\* install_new_view, update_fl_view and what follows the last FLUSH_OK.
Install(p, h) ==
  LET g == h.g
      id == g.curr_change
      spc == g.pmemb[id]
      shrunk == spc.curr # spc.orig
      new == [g EXCEPT
                !.vstate = "VERIFY",
                !.mstate = IF @ = "JOINING" THEN "JOINED" ELSE @,
                !.fl_view = [View(id, spc.orig) EXCEPT !.curr = spc.curr,
                                                        !.trans = shrunk],
                !.memb_queue = Tail(@),
                !.pmemb = [x \in DOMAIN @ \ {id} |-> @[x]],
                !.curr_change = 0]
      view == [gid |-> id, membs |-> spc.orig, network |-> spc.network,
               vs |-> g.fl_view.curr, msgs |-> {}]
      h1 == [Asserted(h, g.memb_queue # <<>> /\ Head(g.memb_queue) = id)
               EXCEPT !.g = new, !.out = <<[what |-> "view", view |-> view]>>]
      h2 == IF new.memb_queue = <<>>
            THEN Send(h1, Signal("FLUSH_RECV", p, id))
            ELSE Handle_next_memb_change(p, h1)
  IN [Emptied(h2) EXCEPT !.out = @ \o [k \in DOMAIN g.mess_queue |-> Message(g.mess_queue[k])]]

\* handle_recv_flush_ok
Complete(spc) == spc.recvd /\ Cardinality(spc.flok_senders) >= Cardinality(spc.orig)

Handle_recv_flush_ok(p, g0, m) ==
  LET spc == [Known(g0, m.dst_gid) EXCEPT !.flok_senders = @ \cup {m.from}]
      g == Put(g0, m.dst_gid, spc)
      settled == g.vstate \in {"STEADY", "VERIFY"}
      h == Asserted(Handling(g), settled <=> g.curr_change = 0)
  IN IF g.vstate = "AGREE" /\ m.dst_gid = g.curr_change /\ Complete(spc)
     THEN Install(p, h)
     ELSE Asserted(h, ~Complete(spc))

\* handle_recv_flush_recv
Handle_recv_flush_recv(g, m) ==
  LET g1 == [g EXCEPT !.flush_recvs = @ + 1]
  IN IF g.vstate = "VERIFY" /\ m.dst_gid = g.fl_view.gid
     THEN Handling(IF g1.flush_recvs = Cardinality(g.fl_view.orig)
                   THEN [g1 EXCEPT !.vstate = "STEADY"] ELSE g1)
     ELSE IF g.vstate = "AGREE" /\ m.dst_gid = g.curr_change
     THEN Asserted(Handling(g1),
                 g1.flush_recvs < Cardinality(g.pmemb[g.curr_change].orig))
     ELSE Handling(g)

\* handle_recv_reg_mess: a vulnerable message of the view to come waits.
MutantHandle_recv_reg_mess(g, m) ==
  IF m.from \in g.fl_view.curr THEN Deliver(Handling(g), m) ELSE Handling(g)
Handle_recv_reg_mess(g, m) ==
  IF g.vstate = "AGREE" /\ m.vulnerable /\ m.dst_gid = g.curr_change
  THEN Asserted(Handling(Pushed(g, m)),
              m.from \in g.pmemb[g.curr_change].curr)
  ELSE IF m.from \in g.fl_view.curr THEN Deliver(Handling(g), m) ELSE Handling(g)

-----------------------------------------------------------------------------
(* A membership of SP: handle_recv_reg_memb_mess. *)

\* age_and_invalidate_pmembs: the walk ends at the first that is too old.
Aged(g) ==
  LET unknown == {x \in DOMAIN g.pmemb : ~g.pmemb[x].recvd}
      old == {x \in unknown : g.pmemb[x].age >= FLOK_AGE_LIMIT}
      Older(S) == [x \in DOMAIN g.pmemb |->
                     IF x \in S THEN [g.pmemb[x] EXCEPT !.age = @ + 1] ELSE g.pmemb[x]]
  IN IF old = {} THEN {Older(unknown)}
     ELSE {[x \in DOMAIN g.pmemb \ {o} |-> Older(S)[x]] :
             o \in old, S \in SUBSET (unknown \ old)}

\* collapse_memberships: a change is given up when a leaver in it has not
\* sent its FLUSH_OK; the next change kept stands for it as well.
Invalid(spc, leavers) == (leavers \cap spc.curr) \ spc.flok_senders # {}

Collapsed(g, leavers, id) ==
  LET queue == Append(g.memb_queue, id)
      Dead(k) == k < Len(queue) /\ Invalid(g.pmemb[queue[k]], leavers)
      After(x) == \E k \in 2..Len(queue) : queue[k] = x /\ Dead(k - 1)
      kept == SelectSeq(queue, LAMBDA x : \E k \in DOMAIN queue : queue[k] = x /\ ~Dead(k))
      gone == Range(queue) \ Range(kept)
  IN [g EXCEPT
        !.memb_queue = kept,
        !.pmemb = [x \in DOMAIN @ \ gone |->
                     IF x \in Range(kept)
                     THEN [@[x] EXCEPT !.curr = @ \ leavers, !.network = @ \/ After(x)]
                     ELSE @[x]]]

\* The memberships known after m, one result for every order of the walk.
Changes(g, m) ==
  LET spc == [Known(g, m.dst_gid) EXCEPT !.recvd = TRUE, !.orig = m.members,
                                     !.curr = m.members]
  IN {[g EXCEPT !.pmemb = pmemb] : pmemb \in Aged(Put(g, m.dst_gid, spc))}

Handle_recv_reg_memb_mess(p, g, m, fresh) ==
  LET leavers == IF m.type = "JOIN" THEN {} ELSE {m.from}
      shrunk == g.fl_view.curr \cap leavers # {}
      g1 == Collapsed([g EXCEPT !.fl_view.curr = @ \ leavers], leavers, m.dst_gid)
      h1 == Asserted([Handling(g1) EXCEPT !.bad = {"memb_info"}], fresh)
      h2 == IF Head(g1.memb_queue) = g1.curr_change THEN h1
            ELSE Handle_next_memb_change(p, Emptied(h1))
  IN IF shrunk /\ ~g.fl_view.trans
     THEN [h2 EXCEPT !.g.fl_view.trans = TRUE] ELSE h2

-----------------------------------------------------------------------------
(* FL_receive: one message of SP taken and handled (recv_and_handle). *)

\* What the user of p is given: views and messages; the signals are not kept.
Told(p, out) ==
  FoldLeft(LAMBDA seen, x :
             IF x.what = "view" THEN Append(seen, x.view)
             ELSE [seen EXCEPT ![Len(seen)].msgs = @ \cup {x.m}],
           views[p], out)

\* The k-th message is handled with result h.
Handled(p, k, h) ==
  /\ group' = [group EXCEPT ![p] = h.g]
  /\ inbox' = FoldLeft(Posted, [inbox EXCEPT ![p] = RemoveAt(@, k)], h.sent)
  /\ views' = [views EXCEPT ![p] = Told(p, h.out)]
  /\ broken' = broken \cup h.bad
  /\ UNCHANGED spVars

\* A message ahead of p's join: the daemon of p does not have p in the group.
PassBy(p, k) ==
  /\ group[p] = NoGroup /\ Received(inbox[p][k]).kind # "memb"
  /\ inbox' = [inbox EXCEPT ![p] = RemoveAt(@, k)]
  /\ UNCHANGED <<spVars, group, views, broken>>

ReceiveMembership(p, k) ==
  LET m == Received(inbox[p][k])
      g0 == IF group[p] = NoGroup THEN NewGroup(p) ELSE group[p]
  IN /\ m.kind = "memb" /\ p \in m.members
     /\ \E g \in Changes(g0, m) :
          Handled(p, k, Handle_recv_reg_memb_mess(p, g, m, ~Known(g0, m.dst_gid).recvd))

\* free_fl_group clears mess_queue.
Freed(p) ==
  IF group[p] # NoGroup /\ FreesTooMuch(group[p]) THEN broken \cup {"mess_queue"} ELSE broken

\* handle_recv_self_leave_memb_mess, with free_fl_group; what is put down in views tells a view
\* installed before p left from one installed after it joined again.
ReceiveSelfLeave(p, k) ==
  /\ Received(inbox[p][k]).kind = "memb" /\ p \notin inbox[p][k].members
  /\ group' = [group EXCEPT ![p] = NoGroup]
  /\ inbox' = [inbox EXCEPT ![p] = <<>>]
  /\ views' = [views EXCEPT ![p] =
                 Append(@, [gid |-> -1, membs |-> {}, network |-> FALSE,
                            vs |-> {}, msgs |-> {}])]
  /\ broken' = Freed(p)
  /\ UNCHANGED spVars

ReceiveFlushOk(p, k) ==
  /\ Received(inbox[p][k]).kind = "flok" /\ group[p] # NoGroup
  /\ Handled(p, k, Handle_recv_flush_ok(p, group[p], Received(inbox[p][k])))

ReceiveFlushRecv(p, k) ==
  /\ Received(inbox[p][k]).kind = "frecv" /\ group[p] # NoGroup
  /\ Handled(p, k, Handle_recv_flush_recv(group[p], Received(inbox[p][k])))

ReceiveData(p, k) ==
  /\ Received(inbox[p][k]).kind = "data" /\ group[p] # NoGroup
  /\ Handled(p, k, Handle_recv_reg_mess(group[p], Received(inbox[p][k])))

Receive(p) ==
  /\ p \in up
  /\ \E k \in DOMAIN inbox[p] :
       /\ Handed(p, k)
       /\ \/ PassBy(p, k) \/ ReceiveMembership(p, k) \/ ReceiveSelfLeave(p, k)
          \/ ReceiveFlushOk(p, k) \/ ReceiveFlushRecv(p, k) \/ ReceiveData(p, k)

-----------------------------------------------------------------------------
(* The other calls of the user. *)

Change(m) ==
  /\ gid < MaxChanges
  /\ gid' = m.gid
  /\ members' = m.members
  /\ UNCHANGED <<data, views>>

\* SP_join; the daemon takes no second join of a member.  Nothing that is
\* ordered before the join comes to p.
FL_join(p) ==
  /\ p \in up /\ group[p] = NoGroup /\ p \notin members
  /\ Change(Membership("JOIN", p))
  /\ inbox' = [Posted(inbox, Membership("JOIN", p)) EXCEPT
                 ![p] = <<Membership("JOIN", p)>>]
  /\ UNCHANGED <<up, group, broken>>

FL_leave(p) ==
  /\ p \in up /\ group[p].mstate = "JOINED"
  /\ group' = [group EXCEPT ![p].mstate = "LEAVING"]
  /\ Change(Membership("LEAVE", p))
  /\ inbox' = Posted(inbox, Membership("LEAVE", p))
  /\ UNCHANGED <<up, broken>>

\* FL_disconnect, with free_fl_group, or the connection breaks;
\* a process that ends in a stddll_clear leaves by this as well.
FL_disconnect(p) ==
  /\ p \in up /\ p \in members
  /\ Change(Membership("DISCONNECT", p))
  /\ up' = up \ {p}
  /\ group' = [group EXCEPT ![p] = NoGroup]
  /\ inbox' = [Posted(inbox, Membership("DISCONNECT", p)) EXCEPT ![p] = <<>>]
  /\ broken' = Freed(p)

FL_flush(p) ==
  /\ p \in up /\ group[p].mstate \in {"JOINING", "JOINED"}
  /\ group[p].vstate = "AUTHORIZE"
  /\ LET h == FL_int_flush(p, Handling(group[p]))
     IN /\ group' = [group EXCEPT ![p] = h.g]
        /\ inbox' = FoldLeft(Posted, inbox, h.sent)
  /\ UNCHANGED <<spVars, views, broken>>

\* is_vulnerable_mess
MutantVulnerable(g, service) == g.vstate = "VERIFY" /\ service # "agreed"
Vulnerable(g, service) == g.vstate \in {"AUTHORIZE", "VERIFY"} /\ service # "agreed"

FL_multicast(p, service) ==
  /\ p \in up /\ group[p].mstate = "JOINED" /\ group[p].vstate # "AGREE"
  /\ data < MaxData
  /\ data' = data + 1
  /\ inbox' = Posted(inbox, User(p, service, Vulnerable(group[p], service)))
  /\ UNCHANGED <<members, gid, up, group, views, broken>>

Next ==
  \/ \E p \in Procs : Receive(p) \/ FL_flush(p)
  \/ \E p \in Changers : FL_join(p) \/ FL_leave(p) \/ FL_disconnect(p)
  \/ \E p \in Senders, service \in {"reliable", "agreed"} : FL_multicast(p, service)

Spec == Init /\ [][Next]_vars

-----------------------------------------------------------------------------
(* Properties. *)

\* Of the assertions and aborts of fl.c's handlers only one is ever false, that a
\* membership's SP_scat_get_memb_info returns sizeof(group_id) (fl.c:1441; it
\* returns 1, sp.c:1977); the other thing that may end a process is the second
\* stddll_clear of a queue of messages that came before their view.  And a member
\* is given a message in the view its sender was in when it sent it
\* (is_vulnerable_mess, handle_recv_reg_mess); one that is leaving may still be
\* given a message of the view without it.
Sound ==
  /\ broken \subseteq {"memb_info", "mess_queue"}
  /\ \A p \in Procs : \A k \in DOMAIN views[p] : \A m \in views[p][k].msgs :
       m.view = views[p][k].gid \/ p \notin m.membs

\* Two members that go from one view into the next together, each among those
\* that came with the other, were in the same view before and were given the
\* same messages in it (install_new_view, collapse_memberships).
ViewSynchrony ==
  \A p, q \in Procs : \A k \in 2..Len(views[p]), n \in 2..Len(views[q]) :
    LET there == views[p][k]
        here == views[q][n]
    IN there.gid = here.gid /\ q \in there.vs /\ p \in here.vs =>
         /\ views[p][k - 1].gid = views[q][n - 1].gid
         /\ views[p][k - 1].msgs = views[q][n - 1].msgs
         /\ there.network = here.network

\* When nothing is on its way any more and no user is asked to flush, all
\* members are in one steady view, the last membership of SP: no member waits
\* for a FLUSH_OK or FLUSH_RECV that does not come (handle_recv_flush_ok,
\* handle_recv_flush_recv).
Quiet ==
  \A p \in up : inbox[p] = <<>> /\ (group[p] = NoGroup \/ group[p].vstate # "AUTHORIZE")

QuietIsSteady ==
  Quiet => \A p \in members :
             /\ group[p].mstate = "JOINED" /\ group[p].vstate = "STEADY"
             /\ group[p].fl_view.orig = members
=============================================================================
