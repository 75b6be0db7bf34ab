------------------------------ MODULE GroupLog ------------------------------
(***************************************************************************)
(* What the Spread daemons give to the members of one group: every message *)
(* a member multicasts is put, in the order its session wrote them, into   *)
(* ONE sequence, and every member is handed that sequence from the place   *)
(* where it joined, without gaps.  FIFO messages get this total order too: *)
(* Deliver_agreed_packets hands every packet that is not SAFE to the       *)
(* clients in the ring's sequence order, whatever service was asked for.   *)
(*                                                                         *)
(* submitted[m]   multicast by m and not yet ordered (socket, daemon queue)*)
(* log            the messages in the agreed order                         *)
(* delivered[m]   how many messages of log member m has been handed        *)
(* membership[m]  "outside" the group, "member" of it, or "gone"           *)
(***************************************************************************)
EXTENDS Naturals, Sequences

CONSTANTS Members,      \* the clients that may ever join
          Founders,     \* those whose join was ordered before any message
          Messages      \* what a client may multicast

VARIABLES submitted, log, delivered, membership

vars == <<submitted, log, delivered, membership>>

TypeOK ==
  /\ submitted \in [Members -> Seq(Messages)]
  /\ log \in Seq(Messages)
  /\ delivered \in [Members -> Nat]
  /\ membership \in [Members -> {"outside", "member", "gone"}]

Init ==
  /\ submitted = [m \in Members |-> <<>>]
  /\ log = <<>>
  /\ delivered = [m \in Members |-> 0]
  /\ membership = [m \in Members |-> IF m \in Founders THEN "member" ELSE "outside"]

\* m's join reaches the group: it will see what is ordered from now on.
Join(m) ==
  /\ membership[m] = "outside"
  /\ membership' = [membership EXCEPT ![m] = "member"]
  /\ delivered' = [delivered EXCEPT ![m] = Len(log)]
  /\ UNCHANGED <<submitted, log>>

\* m multicasts msg: it is written to m's session.
Multicast(m, msg) ==
  /\ membership[m] = "member"
  /\ submitted' = [submitted EXCEPT ![m] = Append(@, msg)]
  /\ UNCHANGED <<log, delivered, membership>>

\* The daemons agree on the place of the oldest message m has submitted.
Order(m) ==
  /\ submitted[m] # <<>>
  /\ log' = Append(log, Head(submitted[m]))
  /\ submitted' = [submitted EXCEPT ![m] = Tail(@)]
  /\ UNCHANGED <<delivered, membership>>

\* m is handed the next message.
Deliver(m) ==
  /\ membership[m] = "member"
  /\ delivered[m] < Len(log)
  /\ delivered' = [delivered EXCEPT ![m] = @ + 1]
  /\ UNCHANGED <<submitted, log, membership>>

\* m's session ends; a tail of what it had submitted may never be ordered.
Disconnect(m) ==
  /\ membership[m] = "member"
  /\ membership' = [membership EXCEPT ![m] = "gone"]
  /\ \E k \in 0..Len(submitted[m]) :
       submitted' = [submitted EXCEPT ![m] = SubSeq(@, 1, k)]
  /\ UNCHANGED <<log, delivered>>

Next ==
  \E m \in Members :
    \/ Join(m) \/ Order(m) \/ Deliver(m) \/ Disconnect(m)
    \/ \E msg \in Messages : Multicast(m, msg)

Spec == Init /\ [][Next]_vars
=============================================================================
