-------------------------- MODULE ClientProperties --------------------------
(***************************************************************************)
(* What the replicated account of module Client must and must not do.      *)
(***************************************************************************)
EXTENDS Client

FieldsOK ==
  /\ balance \in [Replicas -> Int]
  /\ order_counter \in [Replicas -> Nat]
  /\ outstanding_counter \in [Replicas -> Nat]
  /\ executed_list \in [Replicas -> Seq(Slot)]
  /\ outstanding_collection \in [Replicas -> Seq(Slot)]
  /\ pc \in [Replicas -> {"receive", "remove", "execute", "dead"}]
  /\ done \in [Replicas -> Nat]
  /\ tx_already_executed \in [Replicas -> BOOLEAN]
  /\ broadcasting \in [Replicas -> BOOLEAN]
  /\ sends \in [Replicas -> Nat]
  /\ history \in [Replicas -> Seq(Transaction)]
  /\ raced \subseteq Replicas

PositionOK(r) ==
  /\ delivered[r] <= Len(log)
  /\ pc[r] \in {"remove", "execute"} =>
       delivered[r] > 0 /\ done[r] < Len(log[delivered[r]])
  /\ pc[r] = "execute" => Current(r) # Hole
  /\ membership[r] = "outside" => pc[r] = "receive"

\* Every field and thread variable keeps its type, holes left by races
\* included, and the listener's position is a position of its message.
TypeOK ==
  /\ Group!TypeOK
  /\ FieldsOK
  /\ \A r \in Replicas : PositionOK(r)

\* Two founders that have worked through the same part of the log have the
\* same balance and order_counter and executed the same transactions, even
\* though transactions are executed again and again and cleanHistory empties
\* the lists at different times (processReceivedTransactions, 232-293).
FoundersAgree ==
  \A r, s \in Founders :
    delivered[r] = delivered[s] /\ done[r] = done[s] => Account(r) = Account(s)

\* Why they agree: the ledger has one account per point, each follows from
\* the one before by the transaction between them, and every founder is at a
\* point of it with its account.  It rests on tx_already_executed, which
\* depends on the executed_list of each client, being FALSE (line 241).
After(account, tx) ==
  IF tx.command.name \in {"getSyncedBalance", "other"} THEN account
  ELSE [balance |-> Apply(account.balance, tx.command),
        order_counter |-> account.order_counter + 1,
        history |-> Append(account.history, tx)]

SamePoint(e, f) == e.msg = f.msg /\ e.idx = f.idx

LedgerIsOfLog ==
  \A e \in ledger : e.msg \in 0..Len(log) /\ e.idx \in 0..MessageLen(e.msg)

OneAccountPerPoint ==
  \A e, f \in ledger : SamePoint(e, f) => e.account = f.account

StepBetween(e, f) ==
  /\ f.msg = e.msg /\ f.idx = e.idx + 1 =>
       f.account = After(e.account, log[f.msg][f.idx])
  /\ f.msg = e.msg + 1 /\ f.idx = 0 /\ e.idx = MessageLen(e.msg) =>
       f.account = e.account

LedgerSteps == \A e, f \in ledger : StepBetween(e, f)

NoGapBefore(f) ==
  /\ f.idx > 0 => \E e \in ledger : e.msg = f.msg /\ e.idx = f.idx - 1
  /\ f.msg > 0 /\ f.idx = 0 =>
       \E e \in ledger : e.msg = f.msg - 1 /\ e.idx = MessageLen(e.msg)

LedgerHasNoGaps == \A f \in ledger : NoGapBefore(f)

InLedger(r) ==
  /\ [msg |-> delivered[r], idx |-> done[r], account |-> Account(r)] \in ledger
  /\ membership[r] # "outside"
  /\ pc[r] = "receive" => done[r] = MessageLen(delivered[r])

FoundersInLedger == \A r \in Founders : InLedger(r)

LedgerInv ==
  /\ LedgerIsOfLog
  /\ OneAccountPerPoint
  /\ LedgerSteps
  /\ LedgerHasNoGaps
  /\ FoundersInLedger
  /\ \A r \in Replicas : ~tx_already_executed[r]

\* The number getHistory gives a transaction (comment at line 401: counted
\* back from order_counter) names the same transaction on every founder,
\* whatever each has cleaned and wherever each is in the log.
HistoryNumbersAgree ==
  \A r, s \in Founders :
    \A i \in DOMAIN executed_list[r], j \in DOMAIN executed_list[s] :
      (/\ order_counter[r] - Len(executed_list[r]) + i
            = order_counter[s] - Len(executed_list[s]) + j
       /\ executed_list[r][i] # Hole
       /\ executed_list[s][j] # Hole)
      => executed_list[r][i] = executed_list[s][j]

\* The places of the log whose transaction r's listener has taken off its
\* local list, and the place m, i coming before the place n, j.
Passed(r, m, i) ==
  \/ m < delivered[r]
  \/ m = delivered[r] /\ i <= done[r]
  \/ m = delivered[r] /\ i = done[r] + 1 /\ pc[r] = "execute"

At(m, i, uniqueId) == log[m][i] # Hole /\ log[m][i].uniqueId = uniqueId

\* A client never broadcasts, and so never has anyone execute, a transaction
\* it has itself been handed: once removeIf (line 247) has met it, it is off
\* outstanding_collection for good, unless a race tore the list.
OutstandingNotDelivered ==
  \A r \in Replicas \ raced : \A k \in DOMAIN outstanding_collection[r] :
    outstanding_collection[r][k] # Hole =>
      \A m \in DOMAIN log : \A i \in DOMAIN log[m] :
        Passed(r, m, i) => ~At(m, i, outstanding_collection[r][k].uniqueId)

\* The transactions of a client enter the log for the first time in the
\* order it created them, none left out, unless a race tore its list: so a
\* getSynchedBalance sees every earlier deposit of its client executed
\* (getSyncedBalanceCorrect, 366-376, with sendOutstanding, 202-222).
IssueOrder ==
  \A m \in DOMAIN log : \A i \in DOMAIN log[m] : log[m][i] # Hole =>
    LET r == log[m][i].uniqueId[1]
    IN  r \notin raced =>
          \A n \in 0..(log[m][i].uniqueId[2] - 1) :
            \E k \in 1..m : \E j \in DOMAIN log[k] :
              (k < m \/ j < i) /\ At(k, j, <<r, n>>)

\* Both: each transaction is sent from its creation to its return, in its order
\* (sendOutstanding, 202-222, against removeIf, 247).
SentInOrderUntilDelivered == OutstandingNotDelivered /\ IssueOrder

\* "Correct Synced Balance" (255): when a client prints it, every deposit and
\* interest that client created before the getSynchedBalance is in its balance,
\* unless a race tore its list (getSyncedBalanceCorrect, 366-376).
SyncedBalanceIsCorrect ==
  \A r \in Replicas \ raced :
    (/\ pc[r] = "execute"
     /\ Current(r).command.name = "getSyncedBalance"
     /\ Current(r).uniqueId[1] = r)
    => \A n \in 0..(Current(r).uniqueId[2] - 1) :
         \E m \in 1..delivered[r] : \E i \in DOMAIN log[m] :
           /\ Passed(r, m, i) /\ At(m, i, <<r, n>>)
           /\ \/ log[m][i].command.name \in {"getSyncedBalance", "other"}
              \/ Places(history[r], <<r, n>>) # {}

\* A client that joins late has executed exactly what a founder at the same
\* place of the log has executed since, again and again included: what it
\* lacks is the beginning, and nothing else (handleMemberShipChange, 305-312,
\* sends it no balance).
JoinerHasSuffix ==
  \A r \in Replicas, s \in Founders :
    delivered[r] = delivered[s] /\ done[r] = done[s] /\ InGroup(r) =>
      /\ IsSuffix(history[r], history[s])
      /\ order_counter[s] - order_counter[r] = Len(history[s]) - Len(history[r])

\* A client none of whose threads has failed.
Healthy(r) == InGroup(r) /\ broadcasting[r] /\ pc[r] # "dead" /\ r \notin raced

\* s has worked through a transaction with this id.
WorkedThrough(s, uniqueId) ==
  \E m \in DOMAIN log : \E i \in DOMAIN log[m] :
    /\ At(m, i, uniqueId)
    /\ m < delivered[s] \/ (m = delivered[s] /\ i <= done[s])

\* A transaction put on outstanding_collection is in the end broadcast and
\* worked through by every founder, unless a thread of its client or of
\* that founder fails first (broadcastOutstanding, 186-196).
OutstandingIsExecuted ==
  \A r \in Replicas : \A n \in 0..(MaxCommands[r] - 1), s \in Founders :
    Places(outstanding_collection[r], <<r, n>>) # {}
      ~> WorkedThrough(s, <<r, n>>) \/ ~Healthy(r) \/ ~Healthy(s)

\* What a client shows is one account per point of the agreed log: the
\* founders implement the abstract account.
Accounts == [balance : Int, order_counter : Nat, history : Seq(Transaction)]

FounderPoints == [r \in Founders |-> <<delivered[r], done[r]>>]
FounderAccounts == [r \in Founders |-> Account(r)]

Agreed == INSTANCE AgreedAccount WITH
  Replicas <- Founders, at <- FounderPoints, shown <- FounderAccounts

ImplementsAgreedAccount == Agreed!Spec

-----------------------------------------------------------------------------
(* What comments of Client.java claim and the code does not do. *)

\* "clients receiving transactions should check if they have already been
\* executed" (217), "If transaction has already been executed, skip it"
\* (249): no transaction is executed twice by one client.
ExecutedAtMostOnce ==
  \A r \in Replicas : \A i, j \in DOMAIN history[r] :
    history[r][i].uniqueId = history[r][j].uniqueId => i = j
=============================================================================
