------------------------------- MODULE Session -------------------------------
(***************************************************************************)
(* The sessions of one Spread daemon (daemon/session.c): connections are   *)
(* accepted, named, authenticated, read, written and killed, while the     *)
(* messages they submit wait in the protocol's down queue and come back in *)
(* the total order.  Of daemon/groups.c it has what a daemon keeps of its  *)
(* own clients (who joined, on which mailbox); module Groups has the rest. *)
(* The daemon is one thread: every action is one handler of its event      *)
(* loop (daemon/events.c), and the handlers of clients run only while the  *)
(* protocol has not raised the event threshold.                            *)
(*                                                                         *)
(* A mailbox is a file descriptor, and accept() returns the lowest free    *)
(* one.  What a client sends is the choice of the handler that reads it,   *)
(* how much its socket takes the choice of the handler that writes it: a   *)
(* message is Units pieces (its header, then its body).                    *)
(***************************************************************************)
EXTENDS Integers, FiniteSets, SequencesExt

CONSTANTS Names,                  \* private names, as integers in strcmp's order
          GroupNames,             \* groups clients join
          MAX_SESSIONS, MAX_SESSION_MESSAGES, MAX_LOCAL_GROUP_MEMBERS, WATER_MARK,
          Units,                  \* pieces a message is written in
          MaxTake,                \* most pieces a socket takes at a time
          RingSize,               \* packets sent and not yet delivered
          MaxConns,               \* bound on connections
          MaxRequests             \* bound on joins, leaves and data messages

ASSUME SessionAssumption ==
  /\ Names \subseteq Nat
  /\ {MAX_SESSIONS, MAX_SESSION_MESSAGES, MAX_LOCAL_GROUP_MEMBERS, WATER_MARK, Units,
      MaxTake, RingSize} \subseteq Nat \ {0}
  /\ {MaxConns, MaxRequests} \subseteq Nat
  /\ IsFiniteSet(GroupNames)

Slots == 1..MAX_SESSIONS          \* Sessions[0..MAX_SESSIONS-1]
Mboxes == 1..MAX_SESSIONS + 1     \* the last one is only ever turned away
Conns == 1..MaxConns

VARIABLES
  S,          \* Sessions: [conn, name, mbox, status, queue, at] for each slot
  list,       \* the sorted list of sessions, from Sessions_head to Sessions_tail
  hash,       \* Sessions_hash_head[m]: the sessions with mailbox m, newest first
  free,       \* Sessions_free
  scratch,    \* Sessions[MAX_SESSIONS].mbox while a connection is being named, or 0
  open,       \* the descriptors in use
  badgers,    \* mailboxes with a queued Sess_badger event
  high,       \* the protocol raised the threshold (Sess_block_users_level)
  down,       \* the down queue
  ring,       \* packets sent and not yet delivered, in their order
  members,    \* members[g]: private names of the local members of g
  mboxes,     \* mboxes[g]: grp->mboxes
  given,      \* given[c]: messages Sess_write accepted for connection c
  out,        \* out[c]: pieces written to the socket of connection c
  joined,     \* joined[c]: groups connection c is a member of
  strays,     \* connections given a message of a group they are not in
  dead,       \* an Alarm(EXIT, ...) was reached, or a session index of -1 used
  conns, requests, serial         \* connections, requests and deliveries so far

sessVars == <<S, list, hash, free>>
groupVars == <<members, mboxes, joined>>
outVars == <<given, out, strays>>
bounds == <<conns, requests, serial>>
vars == <<sessVars, scratch, open, badgers, high, down, ring, groupVars, outVars, dead, bounds>>

NoSession == [conn |-> 0, name |-> 0, mbox |-> 0, status |-> "free", queue |-> <<>>, at |-> 0]
NumSessions == Len(list)
Lesser(a, b) == IF a < b THEN a ELSE b

\* G_init and Sess_init.
Init ==
  /\ S = [s \in Slots |-> NoSession] /\ list = <<>> /\ hash = [m \in Mboxes |-> <<>>]
  /\ free = [i \in Slots |-> i]
  /\ scratch = 0 /\ open = {} /\ badgers = {} /\ high = FALSE
  /\ down = <<>> /\ ring = <<>>
  /\ members = [g \in GroupNames |-> {}] /\ mboxes = [g \in GroupNames |-> <<>>]
  /\ joined = [c \in Conns |-> {}] /\ given = [c \in Conns |-> <<>>]
  /\ out = [c \in Conns |-> <<>>] /\ strays = {} /\ dead = FALSE
  /\ conns = 0 /\ requests = 0 /\ serial = 0

--------------------------------------------------------------------------------
(* The list and the hash table *)

\* Sess_get_session_index: the newest session with this mailbox, or 0.
IndexOf(m) == IF hash[m] = <<>> THEN 0 ELSE Head(hash[m])

\* Where the scan of the list stops: at the first name that is not smaller.
Place(name) ==
  LET later == {i \in DOMAIN list : S[list[i]].name >= name}
  IN  IF later = {} THEN Len(list) + 1 ELSE CHOOSE i \in later : \A j \in later : i <= j
Found(name) == Place(name) <= Len(list) /\ S[list[Place(name)]].name = name
\* Sess_get_session
Named(name) == IF Found(name) THEN list[Place(name)] ELSE 0

\* The chain q without session s.
Unlink(q, s) == RemoveAt(q, CHOOSE i \in DOMAIN q : q[i] = s)
\* Sess_unhash_session and Sess_remove_session.
Forget(s) ==
  /\ hash' = [hash EXCEPT ![S[s].mbox] = Unlink(@, s)]
  /\ list' = Unlink(list, s)
  /\ free' = <<s>> \o free

\* What writes and kills change, threaded through one handler.
Cur == [S |-> S, open |-> open, badgers |-> badgers, down |-> down, given |-> given,
        out |-> out, strays |-> strays, dead |-> dead]
\* Prot_new_message blocks the clients when the queue has grown to WATER_MARK.
Become(w) ==
  /\ S' = w.S /\ open' = w.open /\ badgers' = w.badgers /\ down' = w.down
  /\ given' = w.given /\ out' = w.out /\ strays' = w.strays /\ dead' = w.dead
  /\ high' = (high \/ (Len(w.down) > Len(down) /\ Len(w.down) >= WATER_MARK))

--------------------------------------------------------------------------------
(* Kill, write and badger *)

Packet(kind, name, s, g) == [kind |-> kind, name |-> name, conn |-> S[s].conn, group |-> g]

MutantKill(w, s) ==
  [w EXCEPT !.S[s] = [@ EXCEPT !.status = "killed", !.queue = <<>>],
            !.open = @ \ {S[s].mbox}, !.badgers = @ \ {S[s].mbox}]
\* Sess_kill: a KILL message is queued, the mailbox closed; the entry stays in the
\* list, with its name and its mailbox, until that message is delivered.
Kill(w, s) ==
  [w EXCEPT !.S[s] = [@ EXCEPT !.status = "killed", !.queue = <<>>],
            !.open = @ \ {S[s].mbox}, !.badgers = @ \ {S[s].mbox},
            !.down = Append(@, Packet("kill", S[s].name, s, "")),
            !.dead = @ \/ w.S[s].status = "preauth"]

\* The pieces of a queue of messages whose first one is written up to piece `at'.
Pieces(queue, at) ==
  [i \in 1..(Units * Len(queue) - at) |->
     <<queue[1 + ((at + i - 1) \div Units)], 1 + ((at + i - 1) % Units)>>]

MutantDrainBadger(w, s, queue, k) ==
  LET c == S[s].conn
      end == w.S[s].at + Lesser(k, Units * Len(queue) - w.S[s].at)
      left == SubSeq(queue, 1 + (end \div Units), Len(queue))
  IN  [w EXCEPT !.S[s] = [@ EXCEPT !.queue = left, !.at = end % Units],
                !.out[c] = @ \o SubSeq(Pieces(queue, w.S[s].at), 1, end - w.S[s].at),
                !.badgers = IF left = <<>> \/ w.S[s].at # 0 THEN @ ELSE @ \cup {S[s].mbox}]
\* The socket takes k pieces at most; what is left waits for Sess_badger.
Drain(w, s, queue, k) ==
  LET c == S[s].conn
      taken == Lesser(k, Units * Len(queue) - w.S[s].at)
      end == w.S[s].at + taken
      left == SubSeq(queue, 1 + (end \div Units), Len(queue))
  IN  [w EXCEPT !.S[s] = [@ EXCEPT !.queue = left, !.at = end % Units],
                !.out[c] = @ \o SubSeq(Pieces(queue, w.S[s].at), 1, taken),
                !.badgers = IF left = <<>> THEN @ ELSE @ \cup {S[s].mbox}]

\* Sess_write: a session that has not read MAX_SESSION_MESSAGES is killed; what is
\* queued for it goes first, then the message, and what is not taken is linked.
Write(w, s, g, k) ==
  IF s = 0 THEN [w EXCEPT !.dead = TRUE]
  ELSE IF w.S[s].status # "op" THEN w
  ELSE IF Len(w.S[s].queue) >= MAX_SESSION_MESSAGES THEN Kill(w, s)
  ELSE LET c == S[s].conn
       IN  Drain([w EXCEPT !.given[c] = Append(@, serial),
                           !.strays = IF g = "" \/ g \in joined'[c] THEN @ ELSE @ \cup {c}],
                 s, Append(w.S[s].queue, serial), k)

\* The same message to several mailboxes, one after the other (G_send_lightweight_memb
\* and G_analize_groups with the loop of Sess_deliver_message).
WriteAll(w, boxes, g, take) ==
  LET Told[i \in 0..Len(boxes)] ==
        IF i = 0 THEN w
        ELSE LET s == IndexOf(boxes[i]) IN Write(Told[i - 1], s, g, IF s = 0 THEN 0 ELSE take[s])
  IN  Told[Len(boxes)]
\* And to the mailboxes of several groups (G_handle_kill).
WriteGroups(w, boxes, gs, take) ==
  LET Told[i \in 0..Len(gs)] ==
        IF i = 0 THEN w ELSE WriteAll(Told[i - 1], boxes[gs[i]], gs[i], take)
  IN  Told[Len(gs)]

\* Sess_badger
Badger(m, k) ==
  LET s == IndexOf(m)
  IN  /\ m \in badgers
      /\ IF s # 0 /\ S[s].status = "op" /\ S[s].queue # <<>>
           THEN Become(Drain([Cur EXCEPT !.badgers = @ \ {m}], s, S[s].queue, k))
           ELSE Become([Cur EXCEPT !.badgers = @ \ {m}])
      /\ UNCHANGED <<list, hash, free, scratch, ring, groupVars, bounds>>

--------------------------------------------------------------------------------
(* Connections *)

\* Sess_attach_accept, Sess_detach_accept: while a connection is being named, or the
\* threshold is raised, the sockets that listen are not watched.
Accepting == ~high /\ scratch = 0

\* Sess_accept: the new descriptor goes to the scratch session, and no other
\* connection is accepted until that one is named.
Accept ==
  /\ Accepting /\ conns < MaxConns /\ ~dead
  /\ LET m == CHOOSE m \in Mboxes \ open : \A n \in Mboxes \ open : m <= n
     IN  /\ conns' = conns + 1
         /\ IF NumSessions = MAX_SESSIONS
              THEN UNCHANGED <<scratch, open, dead>>            \* REJECT_QUOTA
              ELSE /\ scratch' = m /\ open' = open \cup {m}
                   /\ dead' = (IndexOf(m) # 0 /\ S[IndexOf(m)].status = "op")
  /\ UNCHANGED <<sessVars, badgers, high, down, ring, groupVars, outVars, requests, serial>>

\* Sess_accept_continue when the name does not come within a second, is illegal or
\* is in use, or the session of an old library is denied at once.
Refuse ==
  /\ scratch # 0 /\ ~dead /\ scratch' = 0 /\ open' = open \ {scratch}
  /\ UNCHANGED <<sessVars, badgers, high, down, ring, groupVars, outVars, dead, bounds>>

MutantInsert(name, status) ==
  LET s == Head(free)
  IN  /\ S' = [S EXCEPT ![s] = [NoSession EXCEPT !.conn = conns, !.name = name,
                                                 !.mbox = scratch, !.status = status]]
      /\ list' = Append(list, s)
      /\ hash' = [hash EXCEPT ![scratch] = <<s>> \o @]
      /\ free' = Tail(free)
\* Sess_insert_new_session and Sess_hash_session.
Insert(name, status) ==
  LET s == Head(free)
  IN  /\ S' = [S EXCEPT ![s] = [NoSession EXCEPT !.conn = conns, !.name = name,
                                                 !.mbox = scratch, !.status = status]]
      /\ list' = InsertAt(list, Place(name), s)
      /\ hash' = [hash EXCEPT ![scratch] = <<s>> \o @]
      /\ free' = Tail(free)

\* Sess_accept_continue with a name nobody has: the session of an old library is
\* authorized at once, that of a new one waits for the client's choice of a method.
AcceptContinue(name) ==
  /\ scratch # 0 /\ ~dead /\ scratch' = 0 /\ ~Found(name)
  /\ IF free = <<>>
       THEN dead' = TRUE /\ UNCHANGED sessVars
       ELSE dead' = dead /\ \E status \in {"op", "preauth"} : Insert(name, status)
  /\ UNCHANGED <<open, badgers, high, down, ring, groupVars, outVars, bounds>>

\* Sess_session_authorized
Authorize(s) == S' = [S EXCEPT ![s].status = "op"] /\ UNCHANGED <<list, hash, free, open>>
\* Sess_session_denied
Deny(s) == Forget(s) /\ S' = [S EXCEPT ![s] = NoSession] /\ open' = open \ {S[s].mbox}

\* Sess_recv_client_auth: denied at once when the names of the methods cannot be read
\* or are not allowed, otherwise as the methods find.
Authenticated(s) ==
  /\ ~high /\ ~dead /\ S[s].status = "preauth"
  /\ Authorize(s) \/ Deny(s)
  /\ UNCHANGED <<scratch, badgers, high, down, ring, groupVars, outVars, dead, bounds>>

--------------------------------------------------------------------------------
(* Messages from clients *)

Attached(m) == \E s \in Slots : S[s].status = "op" /\ S[s].mbox = m

\* Sess_validate_read_header: a client speaks for itself alone.
ValidHeader(s, name) == name = S[s].name

\* G_get_num_local
NumLocal(g) == Len(mboxes[g])

\* Sess_create_reject_message, Sess_deliver_reject: the message goes back at once.
Reject(s) == serial' = serial + 1 /\ \E k \in 0..MaxTake : Become(Write(Cur, s, "", k))

\* Sess_read of a whole message with a legal header: a join of a full group is rejected, all else joins
\* the down queue.
Read(m) ==
  /\ ~high /\ ~dead /\ Attached(m) /\ requests < MaxRequests
  /\ \E kind \in {"join", "leave", "data"}, name \in Names, g \in GroupNames :
       /\ ValidHeader(IndexOf(m), name)
       /\ IF kind = "join" /\ NumLocal(g) = MAX_LOCAL_GROUP_MEMBERS THEN Reject(IndexOf(m))
          ELSE /\ Become([Cur EXCEPT !.down = Append(@, Packet(kind, name, IndexOf(m), g))])
               /\ UNCHANGED serial
  /\ requests' = requests + 1
  /\ UNCHANGED <<list, hash, free, scratch, ring, groupVars, conns>>

\* Sess_read of a disconnect, of an illegal header, or of an error.
ReadEnd(m) ==
  /\ ~high /\ ~dead /\ Attached(m)
  /\ Become(Kill(Cur, IndexOf(m)))
  /\ UNCHANGED <<list, hash, free, scratch, ring, groupVars, bounds>>

\* The token is here (Send_new_packets): a packet leaves, and below WATER_MARK the
\* clients are read again.
Send ==
  /\ down # <<>> /\ ~dead /\ Len(ring) < RingSize
  /\ ring' = Append(ring, Head(down)) /\ down' = Tail(down)
  /\ high' = (high /\ Len(down) - 1 >= WATER_MARK)
  /\ UNCHANGED <<sessVars, scratch, open, badgers, groupVars, outVars, dead, bounds>>

\* A client of another daemon multicasts.
Remote(g) ==
  /\ requests < MaxRequests /\ ~dead /\ Len(ring) < RingSize
  /\ ring' = Append(ring, [kind |-> "data", name |-> -1, conn |-> 0, group |-> g])
  /\ requests' = requests + 1
  /\ UNCHANGED <<sessVars, scratch, open, badgers, high, down, groupVars, outVars, dead, conns, serial>>

--------------------------------------------------------------------------------
(* Messages in the total order *)

MutantWithout(boxes, m) == Front(boxes)
\* G_remove_mailbox: the last mailbox takes its place.
Without(boxes, m) ==
  LET at == CHOOSE i \in DOMAIN boxes : boxes[i] = m
  IN  Front([boxes EXCEPT ![at] = Last(boxes)])
\* How the local groups lose session s.
Lose(p, s, gs) ==
  /\ members' = [g \in GroupNames |-> members[g] \ IF g \in gs THEN {p.name} ELSE {}]
  /\ mboxes' = [g \in GroupNames |-> IF g \in gs THEN Without(mboxes[g], S[s].mbox) ELSE mboxes[g]]
  /\ joined' = [joined EXCEPT ![p.conn] = @ \ gs]
In(g, m) == \E i \in DOMAIN mboxes[g] : mboxes[g][i] = m

\* Sess_deliver_message of a regular message.
DeliverData(p, take) ==
  UNCHANGED <<groupVars, list, hash, free>> /\ Become(WriteAll(Cur, mboxes[p.group], p.group, take))

\* G_handle_join: the mailbox is the one the session with that name has.
DeliverJoin(p, take) ==
  LET s == Named(p.name)
  IN  /\ UNCHANGED <<list, hash, free>>
      /\ IF p.name \in members[p.group] THEN Become(Cur) /\ UNCHANGED groupVars
         ELSE IF s = 0 THEN Become([Cur EXCEPT !.dead = TRUE]) /\ UNCHANGED groupVars
         ELSE /\ members' = [members EXCEPT ![p.group] = @ \cup {p.name}]
              /\ mboxes' = [mboxes EXCEPT ![p.group] = Append(@, S[s].mbox)]
              /\ joined' = [joined EXCEPT ![p.conn] = @ \cup {p.group}]
              /\ Become(WriteAll(Cur, mboxes'[p.group], p.group, take))

\* G_handle_leave: the leaver is told, then the others.
DeliverLeave(p, take) ==
  LET s == Named(p.name)
  IN  /\ UNCHANGED <<list, hash, free>>
      /\ IF p.name \notin members[p.group] THEN Become(Cur) /\ UNCHANGED groupVars
         ELSE IF s = 0 \/ ~In(p.group, S[s].mbox)
           THEN Become([Cur EXCEPT !.dead = TRUE]) /\ UNCHANGED groupVars
         ELSE /\ Lose(p, s, {p.group})
              /\ Become(WriteAll(Write(Cur, s, "", take[s]), mboxes'[p.group], p.group, take))

\* Sess_handle_kill with G_handle_kill: the session leaves its groups, and its name
\* and its entry are free again.
DeliverKill(p, take) ==
  LET s == Named(p.name)
      gs == {g \in GroupNames : p.name \in members[g]}
  IN  IF s = 0 \/ S[s].status = "op" \/ \E g \in gs : ~In(g, S[s].mbox)
        THEN Become([Cur EXCEPT !.dead = TRUE]) /\ UNCHANGED <<list, hash, free, groupVars>>
        ELSE /\ Lose(p, s, gs) /\ Forget(s)
             /\ Become([WriteGroups(Cur, mboxes', SetToSeq(gs), take) EXCEPT !.S[s] = NoSession])

Deliver(take) ==
  /\ ring # <<>> /\ ~dead /\ ring' = Tail(ring) /\ serial' = serial + 1
  /\ LET p == Head(ring)
     IN  \/ p.kind = "data" /\ DeliverData(p, take)
         \/ p.kind = "join" /\ DeliverJoin(p, take)
         \/ p.kind = "leave" /\ DeliverLeave(p, take)
         \/ p.kind = "kill" /\ DeliverKill(p, take)
  /\ UNCHANGED <<scratch, conns, requests>>

Next ==
  \/ Accept \/ Refuse \/ Send
  \/ \E name \in Names : AcceptContinue(name)
  \/ \E s \in Slots : Authenticated(s)
  \/ \E m \in Mboxes : Read(m) \/ ReadEnd(m) \/ \E k \in 0..MaxTake : ~dead /\ Badger(m, k)
  \/ \E g \in GroupNames : Remote(g)
  \/ \E take \in [Slots -> 0..MaxTake] : Deliver(take)

Spec == Init /\ [][Next]_vars

\* The token comes back, packets arrive (only Deliver counts serial), the one-second
\* timer of Sess_accept fires, and a client that is written to reads in the end.
Fairness ==
  /\ WF_vars(Send)
  /\ WF_serial(ring # <<>> /\ ~dead /\ serial' = serial + 1)
  /\ WF_vars(Refuse \/ \E name \in Names : AcceptContinue(name))
  /\ \A m \in Mboxes : WF_vars(\E k \in 1..MaxTake : ~dead /\ Badger(m, k))
FairSpec == Spec /\ Fairness

--------------------------------------------------------------------------------
(* Properties *)

Statuses == {"free", "preauth", "op", "killed"}
Serials == 0..MaxConns + MaxRequests
TypeOK ==
  /\ S \in [Slots -> [conn : 0..MaxConns, name : Names \cup {0}, mbox : Mboxes \cup {0},
                      status : Statuses, queue : Seq(Serials), at : 0..Units - 1]]
  /\ list \in Seq(Slots) /\ free \in Seq(Slots) /\ hash \in [Mboxes -> Seq(Slots)]
  /\ scratch \in Mboxes \cup {0} /\ open \subseteq Mboxes /\ badgers \subseteq Mboxes
  /\ {high, dead} \subseteq BOOLEAN
  /\ members \in [GroupNames -> SUBSET Names] /\ mboxes \in [GroupNames -> Seq(Mboxes)]
  /\ joined \in [Conns -> SUBSET GroupNames] /\ strays \subseteq Conns

\* No handler reaches one of the daemon's EXIT alarms ("BUG ! No free sessions !",
\* "Accepted new FD %d that is currently in use", "killing unkilled session bug!",
\* "local session does not exist", "didn't find local mailbox") or uses the index -1
\* that Sess_get_session_index returns for a mailbox without a session.
NeverExits == ~dead
\* Both: the types, and no alarm.
Sound == TypeOK /\ NeverExits

\* The list is sorted by name without repetition, list and free slots are disjoint,
\* and whoever may use a mailbox is the session the hash table finds for it, even
\* when a killed session still has the same mailbox.
TablesAgree ==
  /\ \A i, j \in DOMAIN list : i < j => S[list[i]].name < S[list[j]].name
  /\ Len(list) + Len(free) = MAX_SESSIONS /\ ToSet(list) \cap ToSet(free) = {}
  /\ \A s \in Slots : S[s].status \in {"op", "preauth"} =>
       S[s].mbox \in open /\ IndexOf(S[s].mbox) = s

\* Every local member of a group has a session of its name and that session's mailbox
\* is in grp->mboxes, once.
MembersHaveSessions ==
  \A g \in GroupNames :
    /\ Len(mboxes[g]) = Cardinality(members[g])
    /\ \A name \in members[g] : Found(name) /\ In(g, S[Named(name)].mbox)

\* The tables of session.c and of groups.c fit together: both of these.
TablesAndMembersAgree == TablesAgree /\ MembersHaveSessions

\* What a client was written is a prefix of what Sess_write accepted for it, and what
\* is missing is queued: partial writes, Sess_badger and Sess_write on top of a queue
\* never lose, repeat or mix messages.
StreamIntact ==
  \A s \in Slots : LET c == S[s].conn IN S[s].status = "op" =>
    out[c] \o Pieces(S[s].queue, S[s].at) = Pieces(given[c], 0)

\* A killed session is freed by the delivery of exactly one KILL message, which is on
\* its way: the name is neither lost nor given away early.
OneKillInFlight ==
  \A name \in Names :
    Cardinality({i \in DOMAIN (ring \o down) :
                   LET p == (ring \o down)[i] IN p.kind = "kill" /\ p.name = name})
      = IF \E s \in Slots : S[s].status = "killed" /\ S[s].name = name THEN 1 ELSE 0

\* What a session was promised is kept to its end: both of these.
StreamsAndKillsExact == StreamIntact /\ OneKillInFlight

\* Once the clients stop asking, the daemon settles: every killed session is removed
\* and its name free again, every queue is written, the clients are read again.
Settles ==
  <>[](~high /\ scratch = 0 /\ \A s \in Slots : S[s].status # "killed" /\ S[s].queue = <<>>)

\* Readme.txt: "If you want to receive messages from a group you need to call
\* SP_join()".  Refuted: while the KILL of a session is on its way, the next client
\* can be given its descriptor, and grp->mboxes still has it.
OnlyMembersReceive == strays = {}

\* session.c 1375: "Make sure we don't let a join happen if the limit has been
\* reached."  Refuted: joins that were read before the first is delivered all pass,
\* and a count beyond the limit is never equal to it again.
LimitKept == \A g \in GroupNames : NumLocal(g) <= MAX_LOCAL_GROUP_MEMBERS
==============================================================================
