----------------------------- MODULE TotalOrder -----------------------------
(***************************************************************************)
(* What a ring of daemons promises for the messages that are not RELIABLE: *)
(* one order, in which the messages of one daemon keep the order they were *)
(* queued in, and every daemon delivers a prefix of it that only grows.    *)
(* A message is a record with the daemon it is from and its number n       *)
(* among the messages of that daemon.                                      *)
(***************************************************************************)
EXTENDS Naturals, Sequences, SequencesExt

CONSTANT Daemons
VARIABLES log, delivered

vars == <<log, delivered>>

SenderOrder(s) == \A i, j \in DOMAIN s : i < j /\ s[i].from = s[j].from => s[i].n < s[j].n

Init == log = <<>> /\ delivered = [d \in Daemons |-> <<>>]

\* Messages are ordered behind those ordered before, in the order of their senders.
OrderMore == IsPrefix(log, log') /\ SenderOrder(log')
\* Daemons deliver the next messages of the order.
DeliverMore ==
  \A d \in Daemons :
    IsPrefix(delivered[d], delivered'[d]) /\ IsPrefix(delivered'[d], log')

Next ==
  /\ UNCHANGED log \/ OrderMore
  /\ UNCHANGED delivered \/ DeliverMore

Spec == Init /\ [][Next]_vars
=============================================================================
