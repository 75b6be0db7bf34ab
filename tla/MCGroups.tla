------------------------------- MODULE MCGroups -------------------------------
(* One client on each of the three daemons, and the rings the runs start in. *)
EXTENDS Groups
MCHome == [c \in Clients |-> c]
MCPair == <<{1, 2}, {3}>>
MCAlone == <<{1}, {2}, {3}>>
MCWhole == <<{1, 2, 3}>>
===============================================================================
