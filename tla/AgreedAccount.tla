---------------------------- MODULE AgreedAccount ----------------------------
(***************************************************************************)
(* What the replicated account promises, without clients, lists, messages  *)
(* or threads: there is one account per point of one agreed history, and   *)
(* every replica walks through the points in order, showing at each the    *)
(* account that belongs to it.  A point is a message of the history and a  *)
(* number of transactions of that message.                                 *)
(***************************************************************************)
EXTENDS Naturals

CONSTANTS Replicas, Accounts, EmptyAccount

VARIABLES ledger,    \* the accounts known so far, each with its point
          at,        \* the point each replica is at
          shown      \* the account each replica has there

vars == <<ledger, at, shown>>

Entry(p, a) == [msg |-> p[1], idx |-> p[2], account |-> a]

Init ==
  /\ ledger = {Entry(<<0, 0>>, EmptyAccount)}
  /\ at = [r \in Replicas |-> <<0, 0>>]
  /\ shown = [r \in Replicas |-> EmptyAccount]

\* A point no replica has reached yet may get any account; a point some
\* replica has reached has one already.
Reach(r, p, a) ==
  /\ \A e \in ledger : e.msg = p[1] /\ e.idx = p[2] => e.account = a
  /\ ledger' = ledger \cup {Entry(p, a)}
  /\ at' = [at EXCEPT ![r] = p]
  /\ shown' = [shown EXCEPT ![r] = a]

\* One more transaction of the message; whatever account it gives, or the one
\* there was.
NextTransaction(r) ==
  /\ shown'[r] \in Accounts
  /\ Reach(r, <<at[r][1], at[r][2] + 1>>, shown'[r])

\* On to the next message: the account stays as it is.
NextMessage(r) == Reach(r, <<at[r][1] + 1, 0>>, shown[r])

Next == \E r \in Replicas : NextTransaction(r) \/ NextMessage(r)

Spec == Init /\ [][Next]_vars

\* Two replicas at one point show one account: what the specification above
\* is for.
Agreement == \A r, s \in Replicas : at[r] = at[s] => shown[r] = shown[s]
=============================================================================
