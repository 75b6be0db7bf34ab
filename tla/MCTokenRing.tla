----------------------------- MODULE MCTokenRing -----------------------------
(* Instances of TokenRing for TLC: what the clients of the daemons multicast. *)
EXTENDS TokenRing

Msg(s, k) == [service |-> s, size |-> k]
\* Two senders on a ring of three; on a ring of two, one sender with more packets
\* than slots, a message of two packets and every service.
MCLoads ==
  {<<<<Msg("agreed", 1)>>, <<Msg("safe", 1)>>, <<>>>>,
   <<<<>>, <<Msg("agreed", 2), Msg("safe", 1), Msg("reliable", 1), Msg("agreed", 1)>>>>}
=============================================================================
