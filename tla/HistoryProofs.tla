---------------------------- MODULE HistoryProofs ----------------------------
(***************************************************************************)
(* Proofs about what the clients have executed: the numbers of getHistory, *)
(* and what a client that joins late has and lacks.  They rest on the      *)
(* ledger of ClientProofs.                                                 *)
(***************************************************************************)
EXTENDS ClientProofs

USE DEF groupVars, accountVars, listenerVars, enqueueVars, schedulerVars

-----------------------------------------------------------------------------
(* The histories of the ledger are beginnings of one another. *)

Begins(h, k) == Len(h) <= Len(k) /\ \A n \in 1..Len(h) : h[n] = k[n]

Before(e, f) == e.msg < f.msg \/ (e.msg = f.msg /\ e.idx < f.idx)

NextTo(e, f) ==
  \/ f.msg = e.msg /\ f.idx = e.idx + 1
  \/ f.msg = e.msg + 1 /\ f.idx = 0 /\ e.idx = MessageLen(e.msg)

LedgerTyped == ledger \subseteq [msg : Nat, idx : Nat, account : Accounts]

NoGapAfter == \A e, f \in ledger : Before(e, f) => \E g \in ledger : NextTo(e, g)

HistoriesGrow ==
  \A e, f \in ledger : Before(e, f) => Begins(e.account.history, f.account.history)

\* A list of executed transactions is, but for its nulls, the end of all that
\* its client executed, and order_counter counts those.
ListIsEnd(r) ==
  /\ order_counter[r] = Len(history[r])
  /\ Len(executed_list[r]) <= Len(history[r])
  /\ \A i \in DOMAIN executed_list[r] : executed_list[r][i] # Hole =>
       executed_list[r][i] = history[r][Len(history[r]) - Len(executed_list[r]) + i]

GrowInv == LedgerTyped /\ NoGapAfter /\ HistoriesGrow

HistoryInv == GrowInv /\ \A r \in Replicas : ListIsEnd(r)

LEMMA AfterType ==
  ASSUME NEW a \in Accounts, NEW tx \in Transaction, tx.command.value # NotANumber
  PROVE  /\ After(a, tx) \in Accounts
         /\ Begins(a.history, After(a, tx).history)
<1>1. tx.command \in Command
  BY DEF Transaction
<1>2. /\ a.balance \in Int /\ a.order_counter \in Nat /\ a.history \in Seq(Transaction)
  BY DEF Accounts
<1>3. CASE tx.command.name \in {"getSyncedBalance", "other"}
  BY <1>2, <1>3 DEF After, Begins
<1>4. CASE tx.command.name \notin {"getSyncedBalance", "other"}
  <2>1. tx.command.name \in {"deposit", "addInterest"}
    BY <1>1, <1>4 DEF Command
  <2>2. Apply(a.balance, tx.command) \in Int
    BY <1>1, <1>2, <2>1, ApplyType
  <2>3. /\ Append(a.history, tx) \in Seq(Transaction)
        /\ Len(Append(a.history, tx)) = Len(a.history) + 1
        /\ \A n \in 1..Len(a.history) : Append(a.history, tx)[n] = a.history[n]
    BY <1>2, AppendProperties
  <2>4. After(a, tx) = [balance |-> Apply(a.balance, tx.command),
                        order_counter |-> a.order_counter + 1,
                        history |-> Append(a.history, tx)]
    BY <1>4 DEF After
  <2> QED
    BY <1>2, <2>2, <2>3, <2>4 DEF Accounts, Begins
<1> QED
  BY <1>3, <1>4

\* A new entry next to one of the ledger: the ledger had it already, or it is
\* now the last.
LEMMA GrowExtends ==
  ASSUME TypeOK, LedgerSound, GrowInv, UNCHANGED log,
         NEW m \in 0..Len(log), NEW i \in 0..MessageLen(m), NEW a \in Accounts,
         NEW prev \in ledger, Follows(prev, m, i, a),
         Begins(prev.account.history, a.history),
         ledger' = ledger \cup {[msg |-> m, idx |-> i, account |-> a]}
  PROVE  GrowInv'
<1> DEFINE new == [msg |-> m, idx |-> i, account |-> a]
<1>1. /\ m \in Nat /\ i \in Nat
      /\ \A k \in 0..Len(log) : MessageLen(k) \in Nat
  BY DEF TypeOK, Group!TypeOK, MessageLen
<1>2. new \in [msg : Nat, idx : Nat, account : Accounts]
  BY <1>1
<1>3. new.msg = m /\ new.idx = i /\ new.account = a /\ ledger' = ledger \cup {new}
  OBVIOUS
<1>4. CASE \E e \in ledger : SamePoint(e, new)
  <2>1. PICK same \in ledger : SamePoint(same, new)
    BY <1>4
  <2>2. same.msg = m /\ same.idx = i /\ same.account = a
    BY <1>1, <1>3, <2>1, FollowsAgrees DEF SamePoint
  <2>3. same = new
    BY <1>2, <2>2 DEF GrowInv, LedgerTyped
  <2>4. ledger' = ledger
    BY <1>3, <2>3
  <2> QED
    BY <2>4 DEF GrowInv, LedgerTyped, NoGapAfter, HistoriesGrow, NextTo, MessageLen
<1>5. CASE ~\E e \in ledger : SamePoint(e, new)
  <2>1. \A e \in ledger : /\ e.msg \in 0..Len(log) /\ e.idx \in 0..MessageLen(e.msg)
                          /\ e.msg \in Nat /\ e.idx \in Nat /\ MessageLen(e.msg) \in Nat
    BY <1>1 DEF LedgerSound, LedgerIsOfLog, GrowInv, LedgerTyped
  <2>2. NextTo(prev, new)
    BY <1>3 DEF Follows, NextTo
  <2>3. ASSUME NEW g \in ledger, NextTo(prev, g) PROVE SamePoint(g, new)
    BY <1>1, <1>3, <2>1, <2>2, <2>3 DEF NextTo, SamePoint
  <2>4. \A f \in ledger : ~Before(prev, f)
    BY <1>5, <2>3 DEF GrowInv, NoGapAfter
  <2>5. \A e \in ledger : Before(e, prev) \/ SamePoint(e, prev)
    BY <2>1, <2>4 DEF Before, SamePoint
  <2>6. \A e \in ledger : ~Before(new, e)
    <3> SUFFICES ASSUME NEW e \in ledger, Before(new, e) PROVE FALSE
      OBVIOUS
    <3>1. Before(prev, e)
      BY <1>1, <1>3, <2>1, <2>2 DEF Before, NextTo
    <3> QED
      BY <2>4, <3>1
  <2>7. ~Before(new, new)
    BY <1>1, <1>3 DEF Before
  <2>8. \A e \in ledger : Begins(e.account.history, a.history)
    <3>1. ASSUME NEW e \in ledger, Before(e, prev)
          PROVE  Begins(e.account.history, a.history)
      <4>1. Begins(e.account.history, prev.account.history)
        BY <3>1 DEF GrowInv, HistoriesGrow
      <4>2. /\ Len(e.account.history) \in Nat
            /\ Len(prev.account.history) \in Nat
            /\ Len(a.history) \in Nat
        BY DEF GrowInv, LedgerTyped, Accounts
      <4> QED
        BY <4>1, <4>2 DEF Begins
    <3>2. ASSUME NEW e \in ledger, SamePoint(e, prev)
          PROVE  Begins(e.account.history, a.history)
      BY <3>2 DEF LedgerSound, OneAccountPerPoint
    <3> QED
      BY <2>5, <3>1, <3>2
  <2>9. \A e \in ledger : \E g \in ledger' : NextTo(e, g)
    <3>1. \A e \in ledger : Before(e, prev) => \E g \in ledger' : NextTo(e, g)
      BY <1>3 DEF GrowInv, NoGapAfter
    <3>2. \A e \in ledger : SamePoint(e, prev) => NextTo(e, new)
      BY <2>2 DEF SamePoint, NextTo
    <3> QED
      BY <1>3, <2>5, <3>1, <3>2
  <2>10. \A e, g : NextTo(e, g)' = NextTo(e, g)
    BY DEF NextTo, MessageLen
  <2> HIDE DEF new
  <2>11. NoGapAfter'
    BY <1>3, <2>6, <2>7, <2>9, <2>10 DEF NoGapAfter
  <2>12. HistoriesGrow'
    BY <1>3, <2>6, <2>7, <2>8 DEF GrowInv, HistoriesGrow
  <2>13. LedgerTyped'
    BY <1>2, <1>3 DEF GrowInv, LedgerTyped
  <2> QED
    BY <2>11, <2>12, <2>13 DEF GrowInv
<1> QED
  BY <1>4, <1>5

\* What GrowExtends asks of the account a listener moves to.
Grows(r, a) == a \in Accounts /\ Begins(history[r], a.history)

LEMMA GrowMoves ==
  ASSUME TypeOK, LedgerInv, GrowInv, NEW r \in Replicas, NEW m, NEW i, NEW a,
         Moves(r, m, i, a), Grows(r, a)
  PROVE  GrowInv'
<1>1. CASE r \notin Founders
  <2>1. UNCHANGED <<ledger, log>>
    BY <1>1 DEF Moves, Record
  <2> QED
    BY <2>1 DEF GrowInv, LedgerTyped, NoGapAfter, HistoriesGrow, NextTo, MessageLen
<1>2. CASE r \in Founders
  <2> DEFINE prev == [msg |-> delivered[r], idx |-> done[r], account |-> Account(r)]
  <2>1. prev \in ledger /\ LedgerSound
    BY <1>2 DEF LedgerInv, LedgerSound, FoundersInLedger, InLedger
  <2>2. Follows(prev, m, i, a) /\ UNCHANGED log
    BY <1>2 DEF Moves
  <2>3. m \in 0..Len(log) /\ i \in 0..MessageLen(m)
    BY DEF Moves
  <2>4. ledger' = ledger \cup {[msg |-> m, idx |-> i, account |-> a]}
    BY <1>2 DEF Moves, Record
  <2>5. Begins(prev.account.history, a.history) /\ a \in Accounts
    BY DEF Grows, Account
  <2> HIDE DEF prev
  <2> QED
    BY <2>1, <2>2, <2>3, <2>4, <2>5, GrowExtends
<1> QED
  BY <1>1, <1>2

LEMMA AccountType ==
  ASSUME TypeOK, NEW r \in Replicas
  PROVE  /\ Account(r) \in Accounts /\ Account(r).history = history[r]
         /\ Begins(history[r], history[r])
<1>1. history[r] \in Seq(Transaction)
  BY DEF TypeOK, FieldsOK
<1>2. Account(r) \in Accounts /\ Account(r).history = history[r]
  BY DEF TypeOK, FieldsOK, Account, Accounts
<1> QED
  BY <1>1, <1>2 DEF Begins

\* Every step that moves a listener leads to an account that continues the
\* one before.
LEMMA StepsGrow ==
  ASSUME TypeOK, TypeOK', LedgerInv, NEW r \in Replicas,
         \/ ReceiveMessage(r) \/ SkipTransaction(r)
         \/ ExecuteTransaction(r) \/ ExecuteRacingClean(r)
  PROVE  \E m, i, a : Moves(r, m, i, a) /\ Grows(r, a)
<1>1. CASE ReceiveMessage(r)
  <2>1. Grows(r, Account(r))
    BY AccountType DEF Grows
  <2> QED
    BY <1>1, <2>1, ReceiveMoves
<1>2. CASE SkipTransaction(r)
  <2>1. Account(r)' = Account(r)
    BY <1>2 DEF SkipTransaction, Account
  <2>2. Grows(r, Account(r)')
    BY <2>1, AccountType DEF Grows
  <2> QED
    BY <1>2, <2>2, SkipMoves
<1>3. ASSUME NEW list, ExecuteOnto(r, list) PROVE \E m, i, a : Moves(r, m, i, a) /\ Grows(r, a)
  <2>1. pc[r] = "execute" /\ Current(r) # Hole /\ Current(r).command.value # NotANumber
    BY <1>3 DEF ExecuteOnto, TypeOK, PositionOK
  <2>2. Current(r) \in Transaction
    BY <2>1, CurrentType
  <2>3. history[r] \in Seq(Transaction)
    BY DEF TypeOK, FieldsOK
  <2>4. history'[r] = Append(history[r], Current(r))
    BY <1>3 DEF ExecuteOnto, TypeOK, FieldsOK
  <2>5. Begins(history[r], history'[r])
    BY <2>2, <2>3, <2>4, AppendProperties DEF Begins
  <2>6. Account(r)' \in Accounts /\ Account(r)'.history = history'[r]
    BY DEF TypeOK, FieldsOK, Account, Accounts
  <2>7. Grows(r, Account(r)')
    BY <2>5, <2>6 DEF Grows
  <2> QED
    BY <1>3, <2>7, ExecuteMoves
<1> QED
  BY <1>1, <1>2, <1>3 DEF ExecuteTransaction, ExecuteRacingClean

LEMMA GrowInit == Init => GrowInv
<1> SUFFICES ASSUME Init PROVE GrowInv
  OBVIOUS
<1>1. ledger = {[msg |-> 0, idx |-> 0, account |-> EmptyAccount]}
  BY DEF Init
<1>2. EmptyAccount \in Accounts
  BY DEF EmptyAccount, Accounts
<1>3. \A e, f \in ledger : ~Before(e, f)
  BY <1>1 DEF Before
<1> QED
  BY <1>1, <1>2, <1>3 DEF GrowInv, LedgerTyped, NoGapAfter, HistoriesGrow

LEMMA GrowUnmoved ==
  ASSUME GrowInv, UNCHANGED <<ledger, log>>
  PROVE  GrowInv'
  BY DEF GrowInv, LedgerTyped, NoGapAfter, HistoriesGrow, NextTo, MessageLen

LEMMA GrowOrder ==
  ASSUME TypeOK, LedgerInv, GrowInv, NEW r \in Replicas, Order(r)
  PROVE  GrowInv'
<1>1. \A m \in 0..Len(log) : MessageLen(m)' = MessageLen(m)
  BY LedgerSurvivesOrder DEF LedgerInv, LedgerSound
<1>2. ledger' = ledger
  BY DEF Order
<1>3. \A e \in ledger : e.msg \in 0..Len(log)
  BY DEF LedgerInv, LedgerIsOfLog
<1>4. \A e, g \in ledger : NextTo(e, g)' = NextTo(e, g)
  BY <1>1, <1>3 DEF NextTo
<1> QED
  BY <1>2, <1>4 DEF GrowInv, LedgerTyped, NoGapAfter, HistoriesGrow

LEMMA GrowStep == TypeOK /\ TypeOK' /\ LedgerInv /\ GrowInv /\ [Next]_vars => GrowInv'
<1> SUFFICES ASSUME TypeOK, TypeOK', LedgerInv, GrowInv, [Next]_vars PROVE GrowInv'
  OBVIOUS
<1>1. CASE UNCHANGED vars
  BY <1>1, GrowUnmoved DEF vars
<1>2. CASE Unmoved
  BY <1>2, GrowUnmoved DEF Unmoved
<1>3. ASSUME NEW r \in Replicas,
             \/ ReceiveMessage(r) \/ SkipTransaction(r)
             \/ ExecuteTransaction(r) \/ ExecuteRacingClean(r)
      PROVE  GrowInv'
  BY <1>3, StepsGrow, GrowMoves
<1>4. ASSUME NEW r \in Replicas, Listen(r) \/ Race(r) PROVE GrowInv'
  BY <1>2, <1>3, <1>4, StepsUnmoved DEF Listen, Race
<1>5. ASSUME NEW r \in Replicas, Join(r) PROVE GrowInv'
  BY <1>5, GrowUnmoved DEF Join, Group!Join
<1> QED
  BY <1>1, <1>2, <1>4, <1>5, StepsUnmoved, GrowOrder DEF Next

-----------------------------------------------------------------------------
(* The lists of executed transactions. *)

\* The place in a history of length k of the i-th of a list of length n that
\* is its end, and what an element more makes of it.
LEMMA EndPlaces ==
  ASSUME NEW n \in Nat, NEW k \in Nat, n <= k
  PROVE  /\ \A i \in 1..n : k - n + i \in 1..k
         /\ \A i \in 1..(n + 1) : i = n + 1 \/ i \in 1..n
         /\ \A i \in Int : (k + 1) - (n + 1) + i = k - n + i
         /\ k - n + (n + 1) = k + 1
  OBVIOUS

LEMMA EndInit == Init => \A r \in Replicas : ListIsEnd(r)
  BY DEF Init, ListIsEnd

\* A list that was emptied, or did not change, is still the end of a history
\* that did not change.
LEMMA EndKept ==
  ASSUME \A r \in Replicas : ListIsEnd(r), UNCHANGED <<order_counter, history>>,
         \A r \in Replicas : executed_list'[r] \in {executed_list[r], <<>>},
         TypeOK
  PROVE  \A r \in Replicas : ListIsEnd(r)'
<1>1. \A r \in Replicas : Len(history[r]) \in Nat
  BY DEF TypeOK, FieldsOK
<1> QED
  BY <1>1 DEF ListIsEnd

\* add (285) puts the transaction at the end of the list and of the history,
\* whether or not cleanHistory left the places before it null.
LEMMA EndExecute ==
  ASSUME TypeOK, \A s \in Replicas : ListIsEnd(s), NEW r \in Replicas,
         NEW list \in Seq(Slot), ExecuteOnto(r, list),
         Len(list) = Len(executed_list[r]),
         \A i \in DOMAIN list : list[i] \in {executed_list[r][i], Hole}
  PROVE  \A s \in Replicas : ListIsEnd(s)'
<1> DEFINE tx == Current(r)
<1>1. tx \in Transaction
  BY CurrentType DEF TypeOK, PositionOK, ExecuteOnto
<1>2. /\ order_counter' = [order_counter EXCEPT ![r] = order_counter[r] + 1]
      /\ executed_list' = [executed_list EXCEPT ![r] = Append(list, tx)]
      /\ history' = [history EXCEPT ![r] = Append(history[r], tx)]
  BY DEF ExecuteOnto
<1> HIDE DEF tx
<1>3. history[r] \in Seq(Transaction) /\ executed_list[r] \in Seq(Slot)
  BY DEF TypeOK, FieldsOK
<1>4. ASSUME NEW s \in Replicas, s # r PROVE ListIsEnd(s)'
  BY <1>2, <1>4 DEF ListIsEnd, TypeOK, FieldsOK
<1>5. ListIsEnd(r)'
  <2>1. /\ order_counter'[r] = order_counter[r] + 1
        /\ executed_list'[r] = Append(list, tx)
        /\ history'[r] = Append(history[r], tx)
    BY <1>2 DEF TypeOK, FieldsOK
  <2>2. /\ Len(history'[r]) = Len(history[r]) + 1
        /\ history'[r][Len(history[r]) + 1] = tx
        /\ \A n \in 1..Len(history[r]) : history'[r][n] = history[r][n]
    BY <1>1, <1>3, <2>1, AppendProperties
  <2>3. tx \in Slot
    BY <1>1 DEF Slot
  <2>4. /\ Len(executed_list'[r]) = Len(list) + 1
        /\ executed_list'[r][Len(list) + 1] = tx
        /\ \A n \in 1..Len(list) : executed_list'[r][n] = list[n]
        /\ DOMAIN executed_list'[r] = 1..(Len(list) + 1)
    BY <2>1, <2>3, AppendProperties
  <2>5. ASSUME NEW i \in 1..Len(list), list[i] # Hole
        PROVE  list[i] = history[r][Len(history[r]) - Len(list) + i]
    BY <1>3, <2>5 DEF ListIsEnd
  <2>6. Len(list) \in Nat /\ Len(history[r]) \in Nat /\ Len(list) <= Len(history[r])
    BY <1>3 DEF ListIsEnd
  <2>7. order_counter[r] = Len(history[r])
    BY DEF ListIsEnd
  <2> DEFINE n == Len(list)
             k == Len(history[r])
             h == history'[r]
             l == executed_list'[r]
             old == history[r]
  <2>8. /\ n \in Nat /\ k \in Nat /\ n <= k
        /\ h[k + 1] = tx /\ \A m \in 1..k : h[m] = old[m]
        /\ l[n + 1] = tx /\ \A m \in 1..n : l[m] = list[m]
        /\ \A i \in 1..n : list[i] # Hole => list[i] = old[k - n + i]
        /\ DOMAIN l = 1..(n + 1) /\ Len(l) = n + 1 /\ Len(h) = k + 1
        /\ order_counter'[r] = k + 1
    BY <2>1, <2>2, <2>4, <2>5, <2>6, <2>7
  <2> HIDE DEF n, k, h, l, old
  <2>9. ASSUME NEW i \in 1..(n + 1), l[i] # Hole
        PROVE  l[i] = h[(k + 1) - (n + 1) + i]
    <3>1. i \in Int /\ (k + 1) - (n + 1) + i = k - n + i
      BY <2>8, EndPlaces
    <3>2. CASE i = n + 1
      BY <2>8, <3>1, <3>2, EndPlaces
    <3>3. CASE i \in 1..n
      <4>1. k - n + i \in 1..k
        BY <2>8, <3>3, EndPlaces
      <4> QED
        BY <2>8, <2>9, <3>1, <3>3, <4>1
    <3> QED
      BY <2>8, <3>2, <3>3, EndPlaces
  <2>10. n + 1 <= k + 1
    BY <2>8
  <2> QED
    BY <2>8, <2>9, <2>10 DEF ListIsEnd, h, l
<1> QED
  BY <1>4, <1>5

LEMMA EndStep ==
  TypeOK /\ (\A r \in Replicas : ListIsEnd(r)) /\ [Next]_vars
    => \A r \in Replicas : ListIsEnd(r)'
<1> SUFFICES ASSUME TypeOK, \A r \in Replicas : ListIsEnd(r), [Next]_vars
             PROVE  \A r \in Replicas : ListIsEnd(r)'
  OBVIOUS
<1> DEFINE Kept == /\ UNCHANGED <<order_counter, history>>
                   /\ \A r \in Replicas : executed_list'[r] \in {executed_list[r], <<>>}
           Goal == \A r \in Replicas : ListIsEnd(r)'
<1>1. Kept => Goal
  BY EndKept
<1>2. CASE UNCHANGED vars
  BY <1>1, <1>2 DEF vars
<1>3. ASSUME NEW r \in Replicas, CleanHistory(r) \/ CleanRacingCheck(r) PROVE Goal
  BY <1>1, <1>3 DEF CleanHistory, CleanRacingCheck, TypeOK, FieldsOK
<1>4. ASSUME NEW r \in Replicas, ExecuteTransaction(r) PROVE Goal
  <2>1. executed_list[r] \in Seq(Slot)
    BY DEF TypeOK, FieldsOK
  <2> QED
    BY <1>4, <2>1, EndExecute DEF ExecuteTransaction
<1>5. ASSUME NEW r \in Replicas, ExecuteRacingClean(r) PROVE Goal
  <2> DEFINE list == [i \in DOMAIN executed_list[r] |-> Hole]
  <2>1. executed_list[r] \in Seq(Slot)
    BY DEF TypeOK, FieldsOK
  <2>2. list \in Seq(Slot) /\ Len(list) = Len(executed_list[r])
    BY <2>1, IsASeq DEF Slot
  <2>3. \A i \in DOMAIN list : list[i] \in {executed_list[r][i], Hole}
    OBVIOUS
  <2>4. ExecuteOnto(r, list)
    BY <1>5 DEF ExecuteRacingClean
  <2> HIDE DEF list
  <2> QED
    BY <2>2, <2>3, <2>4, EndExecute
<1>6. ASSUME NEW r \in Replicas,
             \/ \E c \in UserCommands : \/ ProcessCommand(r, c)
                                        \/ RemoveRacingAddThrows(r, c)
                                        \/ RemoveRacingAddTears(r, c)
             \/ SendOutstanding(r) \/ Disconnect(r) \/ Join(r) \/ Order(r)
             \/ ReceiveMessage(r) \/ SkipTransaction(r)
             \/ RemoveLocal(r) \/ RemoveThrows(r) \/ ParseThrows(r)
             \/ RemoveRacingSend(r)
      PROVE  Goal
  <2>1. UNCHANGED <<order_counter, history, executed_list>>
    BY <1>6 DEF ProcessCommand, RemoveRacingAddThrows, RemoveRacingAddTears,
       SendOutstanding, Disconnect, Join, Order, ReceiveMessage, SkipTransaction,
       RemoveLocal, RemoveThrows, ParseThrows, RemoveRacingSend
  <2> QED
    BY <1>1, <2>1
<1> QED
  BY <1>2, <1>3, <1>4, <1>5, <1>6 DEF Next, Listen, Race

\* The inductive invariant: histories of the ledger that begin one another,
\* and lists that are the ends of the histories.
THEOREM HistoryCorrect == Spec => []HistoryInv
<1>1. Init => HistoryInv
  BY GrowInit, EndInit DEF HistoryInv
<1>2. TypeOK /\ TypeOK' /\ LedgerInv /\ HistoryInv /\ [Next]_vars => HistoryInv'
  BY GrowStep, EndStep DEF HistoryInv
<1> QED
  BY <1>1, <1>2, TypeCorrect, LedgerCorrect, PTL DEF Spec

LEMMA HistoriesCompare ==
  ASSUME LedgerInv, HistoryInv, NEW r \in Founders, NEW s \in Founders
  PROVE  Begins(history[r], history[s]) \/ Begins(history[s], history[r])
<1> DEFINE e == [msg |-> delivered[r], idx |-> done[r], account |-> Account(r)]
           f == [msg |-> delivered[s], idx |-> done[s], account |-> Account(s)]
<1>1. e \in ledger /\ f \in ledger
  BY DEF LedgerInv, FoundersInLedger, InLedger
<1>2. e.account.history = history[r] /\ f.account.history = history[s]
  BY DEF Account
<1> HIDE DEF e, f
<1>3. /\ e.msg \in Nat /\ e.idx \in Nat /\ f.msg \in Nat /\ f.idx \in Nat
      /\ Len(f.account.history) \in Nat
  BY <1>1 DEF HistoryInv, GrowInv, LedgerTyped, Accounts
<1>4. Before(e, f) \/ Before(f, e) \/ SamePoint(e, f)
  BY <1>3 DEF Before, SamePoint
<1>5. SamePoint(e, f) => e.account = f.account
  BY <1>1 DEF LedgerInv, OneAccountPerPoint
<1>6. Begins(f.account.history, f.account.history)
  BY <1>3 DEF Begins
<1> QED
  BY <1>1, <1>2, <1>4, <1>5, <1>6 DEF HistoryInv, GrowInv, HistoriesGrow

\* One number of getHistory names one transaction on every founder.
LEMMA HistoryGivesNumbers == TypeOK /\ LedgerInv /\ HistoryInv => HistoryNumbersAgree
<1> SUFFICES ASSUME TypeOK, LedgerInv, HistoryInv,
                    NEW r \in Founders, NEW s \in Founders,
                    NEW i \in DOMAIN executed_list[r], NEW j \in DOMAIN executed_list[s],
                    order_counter[r] - Len(executed_list[r]) + i
                      = order_counter[s] - Len(executed_list[s]) + j,
                    executed_list[r][i] # Hole, executed_list[s][j] # Hole
             PROVE  executed_list[r][i] = executed_list[s][j]
  BY DEF HistoryNumbersAgree
<1> DEFINE n == order_counter[r] - Len(executed_list[r]) + i
<1>1. r \in Replicas /\ s \in Replicas
  BY ClientAssumption
<1>2. /\ executed_list[r] \in Seq(Slot) /\ executed_list[s] \in Seq(Slot)
      /\ history[r] \in Seq(Transaction) /\ history[s] \in Seq(Transaction)
  BY <1>1 DEF TypeOK, FieldsOK
<1>3. /\ order_counter[r] = Len(history[r]) /\ order_counter[s] = Len(history[s])
      /\ Len(executed_list[r]) <= Len(history[r])
      /\ Len(executed_list[s]) <= Len(history[s])
  BY <1>1 DEF HistoryInv, ListIsEnd
<1>4. executed_list[r][i] = history[r][n]
  BY <1>1, <1>3 DEF HistoryInv, ListIsEnd
<1>5. executed_list[s][j] = history[s][n]
  BY <1>1, <1>3 DEF HistoryInv, ListIsEnd
<1>6. n \in 1..Len(history[r]) /\ n \in 1..Len(history[s])
  <2>1. /\ i \in 1..Len(executed_list[r]) /\ j \in 1..Len(executed_list[s])
        /\ Len(executed_list[r]) \in Nat /\ Len(executed_list[s]) \in Nat
        /\ Len(history[r]) \in Nat /\ Len(history[s]) \in Nat
    BY <1>2
  <2>2. Len(history[r]) - Len(executed_list[r]) + i \in 1..Len(history[r])
    BY <1>3, <2>1, EndPlaces
  <2>3. Len(history[s]) - Len(executed_list[s]) + j \in 1..Len(history[s])
    BY <1>3, <2>1, EndPlaces
  <2> QED
    BY <1>3, <2>2, <2>3
<1>7. history[r][n] = history[s][n]
  BY <1>6, HistoriesCompare DEF Begins
<1> QED
  BY <1>4, <1>5, <1>7

\* The number getHistory prints before a transaction names that transaction
\* on every founder, in every run: whatever each has cleaned, wherever each
\* is in the log and whatever nulls the race of add and clear left.
THEOREM HistoryNumbers == Spec => []HistoryNumbersAgree
  BY TypeCorrect, LedgerCorrect, HistoryCorrect, HistoryGivesNumbers, PTL

-----------------------------------------------------------------------------
(* A client that joins late. *)

\* h is the end of k.
Ends(h, k) ==
  /\ Len(h) <= Len(k)
  /\ \A n \in 1..Len(h) : h[n] = k[Len(k) - Len(h) + n]

LEMMA EndsIsSuffix ==
  ASSUME NEW h \in Seq(Transaction), NEW k \in Seq(Transaction), Ends(h, k)
  PROVE  IsSuffix(h, k)
<1> DEFINE n == Len(h)
           m == Len(k)
           hr == Reverse(h)
           kr == Reverse(k)
<1>1. n \in Nat /\ m \in Nat /\ n <= m
  BY DEF Ends
<1>2. /\ hr = [i \in 1..n |-> h[(n - i) + 1]]
      /\ kr = [i \in 1..m |-> k[(m - i) + 1]]
  BY DEF Reverse
<1>3. \A i \in 1..n : h[(n - i) + 1] = k[(m - i) + 1]
  <2> SUFFICES ASSUME NEW i \in 1..n PROVE h[(n - i) + 1] = k[(m - i) + 1]
    OBVIOUS
  <2> DEFINE j == (n - i) + 1
  <2>1. j \in 1..n /\ m - n + j = (m - i) + 1
    <3> HIDE DEF n, m
    <3> QED BY <1>1
  <2>2. h[j] = k[m - n + j]
    BY <2>1 DEF Ends
  <2> QED
    BY <2>1, <2>2
<1>4. /\ \A i \in 1..n : h[(n - i) + 1] \in Transaction
      /\ \A i \in 1..m : k[(m - i) + 1] \in Transaction
  <2>1. \A i \in 1..n : (n - i) + 1 \in 1..n
    <3> HIDE DEF n
    <3> QED BY <1>1
  <2>2. \A i \in 1..m : (m - i) + 1 \in 1..m
    <3> HIDE DEF m
    <3> QED BY <1>1
  <2> QED
    BY <2>1, <2>2
<1>5. hr \in Seq(Transaction) /\ Len(hr) = n
  BY <1>1, <1>2, <1>4, IsASeq
<1>6. kr \in Seq(Transaction) /\ Len(kr) = m
  BY <1>1, <1>2, <1>4, IsASeq
<1>7. \A i \in 1..n : hr[i] = kr[i]
  BY <1>1, <1>2, <1>3
<1> HIDE DEF n, m, hr, kr
<1>8. /\ SubSeq(hr, 1, n) \in Seq(Transaction) /\ Len(SubSeq(hr, 1, n)) = n
      /\ \A i \in 1..n : SubSeq(hr, 1, n)[i] = hr[i]
  BY <1>1, <1>5
<1>9. /\ SubSeq(kr, 1, n) \in Seq(Transaction) /\ Len(SubSeq(kr, 1, n)) = n
      /\ \A i \in 1..n : SubSeq(kr, 1, n)[i] = kr[i]
  BY <1>1, <1>6
<1>10. SubSeq(hr, 1, n) = SubSeq(kr, 1, n)
  BY <1>7, <1>8, <1>9, SeqEqual
<1> QED
  BY <1>1, <1>5, <1>6, <1>10 DEF IsSuffix, IsPrefix, hr, kr

\* What a transaction does to a history.
NextHistory(h, tx) ==
  IF tx.command.name \in {"getSyncedBalance", "other"} THEN h ELSE Append(h, tx)

LEMMA EndsNext ==
  ASSUME NEW h \in Seq(Transaction), NEW k \in Seq(Transaction),
         NEW tx, Ends(h, k)
  PROVE  Ends(NextHistory(h, tx), NextHistory(k, tx))
<1>1. CASE tx.command.name \in {"getSyncedBalance", "other"}
  BY <1>1 DEF NextHistory
<1>2. CASE tx.command.name \notin {"getSyncedBalance", "other"}
  <2> DEFINE n == Len(h)
             m == Len(k)
             h1 == Append(h, tx)
             k1 == Append(k, tx)
  <2>1. /\ n \in Nat /\ m \in Nat /\ n <= m
        /\ \A i \in 1..n : h[i] = k[m - n + i]
    BY DEF Ends
  <2>2. /\ Len(h1) = n + 1 /\ h1[n + 1] = tx /\ \A i \in 1..n : h1[i] = h[i]
        /\ Len(k1) = m + 1 /\ k1[m + 1] = tx /\ \A i \in 1..m : k1[i] = k[i]
    OBVIOUS
  <2> HIDE DEF n, m, h1, k1
  <2>3. ASSUME NEW i \in 1..(n + 1) PROVE h1[i] = k1[(m + 1) - (n + 1) + i]
    <3>1. i \in Int /\ (m + 1) - (n + 1) + i = m - n + i
      BY <2>1, EndPlaces
    <3>2. CASE i = n + 1
      BY <2>1, <2>2, <3>1, <3>2, EndPlaces
    <3>3. CASE i \in 1..n
      <4>1. m - n + i \in 1..m
        BY <2>1, <3>3, EndPlaces
      <4> QED
        BY <2>1, <2>2, <3>1, <3>3, <4>1
    <3> QED
      BY <2>1, <3>2, <3>3, EndPlaces
  <2>4. n + 1 <= m + 1
    BY <2>1
  <2>5. Ends(h1, k1)
    BY <2>2, <2>3, <2>4 DEF Ends
  <2> QED
    BY <1>2, <2>5 DEF NextHistory, h1, k1
<1> QED
  BY <1>1, <1>2

\* One place of the way of a client follows another.
Leads(e, f) ==
  \/ /\ f.msg = e.msg /\ f.idx = e.idx + 1
     /\ f.history = NextHistory(e.history, log[f.msg][f.idx])
  \/ /\ f.msg = e.msg + 1 /\ f.idx = 0 /\ e.idx = MessageLen(e.msg)
     /\ f.history = e.history

\* The way a client went since it joined: with nothing executed at first,
\* then by the transactions of the log; where a founder was or will be, it
\* has executed the end of what the founder has.
Way(J) ==
  /\ J \subseteq [msg : 0..Len(log), idx : Nat, history : Seq(Transaction)]
  /\ \A f \in J : f.idx <= MessageLen(f.msg)
  /\ \A f \in J : f.history = <<>> \/ \E e \in J : Leads(e, f)
  /\ \A e \in J, f \in ledger : SamePoint(e, f) => Ends(e.history, f.account.history)

Place(r) == [msg |-> delivered[r], idx |-> done[r], history |-> history[r]]

OnItsWay(r) ==
  /\ membership[r] = "outside" => history[r] = <<>> /\ done[r] = 0
  /\ pc[r] = "receive" => done[r] = MessageLen(delivered[r]) \/ history[r] = <<>>
  /\ membership[r] # "outside" => \E J : Way(J) /\ Place(r) \in J

JoinerInv == \A r \in Replicas \ Founders : OnItsWay(r)

LEMMA WayUnmoved ==
  ASSUME NEW J, Way(J), UNCHANGED <<log, ledger>>
  PROVE  Way(J)'
  BY DEF Way, Leads, MessageLen

\* Messages behind those there are change no way.
LEMMA WayOrder ==
  ASSUME TypeOK, LedgerInv, NEW J, Way(J), NEW r \in Replicas, Order(r)
  PROVE  Way(J)'
<1>1. Head(submitted[r]) \in Seq(Slot)
  BY HeadTailProperties DEF TypeOK, Group!TypeOK, Order, Group!Order
<1>2. /\ Len(log') = Len(log) + 1
      /\ \A m \in 1..Len(log) : log'[m] = log[m]
  BY <1>1, AppendProperties DEF TypeOK, Group!TypeOK, Order, Group!Order
<1>3. ledger' = ledger
  BY DEF Order
<1>4. \A m \in 0..Len(log) : MessageLen(m)' = MessageLen(m)
  BY LedgerSurvivesOrder DEF LedgerInv, LedgerSound
<1>5. Len(log) \in Nat
  BY DEF TypeOK, Group!TypeOK
<1>6. \A f \in J : f.msg \in 0..Len(log) /\ f.idx \in Nat /\ f.idx <= MessageLen(f.msg)
  BY DEF Way
<1>7. \A f \in J : f.idx > 0 => f.msg \in 1..Len(log)
  BY <1>5, <1>6 DEF MessageLen
<1>8. ASSUME NEW e \in J, NEW f \in J, Leads(e, f) PROVE Leads(e, f)'
  <2>1. e.idx \in Nat
    BY <1>6
  <2> QED
    BY <1>2, <1>4, <1>6, <1>7, <1>8, <2>1 DEF Leads
<1>9. 0..Len(log) \subseteq 0..Len(log')
  BY <1>2, <1>5
<1>10. J \subseteq [msg : 0..Len(log'), idx : Nat, history : Seq(Transaction)]
  BY <1>9 DEF Way
<1> QED
  BY <1>3, <1>4, <1>6, <1>8, <1>10 DEF Way

LEMMA AfterHistory ==
  ASSUME NEW a, NEW tx
  PROVE  After(a, tx).history = NextHistory(a.history, tx)
  BY DEF After, NextHistory

LEMMA EmptyEnds ==
  ASSUME NEW k \in Seq(Transaction)
  PROVE  Ends(<<>>, k)
  BY DEF Ends

\* A founder that comes to a place of a way: it has what was there before,
\* and the same transaction since.
LEMMA WayLedger ==
  ASSUME TypeOK, LedgerInv, GrowInv, NEW J, Way(J), NEW q \in Founders,
         NEW m, NEW i, NEW a, Moves(q, m, i, a), a \in Accounts
  PROVE  Way(J)'
<1> DEFINE prev == [msg |-> delivered[q], idx |-> done[q], account |-> Account(q)]
           new == [msg |-> m, idx |-> i, account |-> a]
<1>1. prev \in ledger
  BY DEF LedgerInv, FoundersInLedger, InLedger
<1>2. /\ UNCHANGED log /\ ledger' = ledger \cup {new} /\ Follows(prev, m, i, a)
      /\ new.msg = m /\ new.idx = i /\ new.account = a
  BY DEF Moves, Record
<1> HIDE DEF prev, new
<1>3. prev.msg \in Nat /\ prev.idx \in Nat /\ prev.account \in Accounts
  BY <1>1 DEF GrowInv, LedgerTyped
<1>4. prev.account.history \in Seq(Transaction) /\ a.history \in Seq(Transaction)
  BY <1>3 DEF Accounts
<1>5. ASSUME NEW f \in J, SamePoint(f, new) PROVE Ends(f.history, a.history)
  <2>1. f.msg = m /\ f.idx = i
    BY <1>2, <1>5 DEF SamePoint
  <2>2. CASE f.history = <<>>
    BY <1>4, <2>2, EmptyEnds
  <2>3. CASE f.history # <<>>
    <3>1. PICK e \in J : Leads(e, f)
      BY <2>3 DEF Way
    <3>2. /\ e.msg \in Nat /\ e.idx \in Nat /\ e.history \in Seq(Transaction)
      BY DEF Way, TypeOK, Group!TypeOK
    <3>3. SamePoint(e, prev) => Ends(e.history, prev.account.history)
      BY <1>1 DEF Way
    <3>4. CASE prev.msg = m /\ i = prev.idx + 1 /\ a = After(prev.account, log[m][i])
      <4>1. /\ SamePoint(e, prev)
            /\ f.history = NextHistory(e.history, log[m][i])
        BY <1>3, <2>1, <3>1, <3>2, <3>4 DEF Leads, SamePoint
      <4>2. a.history = NextHistory(prev.account.history, log[m][i])
        BY <3>4, AfterHistory
      <4> QED
        BY <1>4, <3>2, <3>3, <4>1, <4>2, EndsNext
    <3>5. CASE m = prev.msg + 1 /\ i = 0 /\ prev.idx = MessageLen(prev.msg) /\ a = prev.account
      <4>1. SamePoint(e, prev) /\ f.history = e.history
        BY <1>3, <2>1, <3>1, <3>2, <3>5 DEF Leads, SamePoint
      <4> QED
        BY <3>3, <3>5, <4>1
    <3> QED
      BY <1>2, <3>4, <3>5 DEF Follows
  <2> QED
    BY <2>2, <2>3
<1> QED
  BY <1>2, <1>5 DEF Way, Leads, SamePoint, MessageLen

\* A client that goes on: where a founder was before it, that founder had
\* come from the same place by the same transaction.
LEMMA WayGoesOn ==
  ASSUME TypeOK, LedgerInv, GrowInv, NEW J, Way(J), NEW here \in J,
         NEW new \in [msg : 0..Len(log), idx : Nat, history : Seq(Transaction)],
         new.idx <= MessageLen(new.msg),
         Leads(here, new) \/ new.history = <<>>,
         UNCHANGED <<log, ledger>>
  PROVE  Way(J \cup {new})'
<1>1. ASSUME NEW f \in ledger, SamePoint(new, f) PROVE Ends(new.history, f.account.history)
  <2>1. f.account.history \in Seq(Transaction) /\ f.msg \in Nat /\ f.idx \in Nat
    BY DEF GrowInv, LedgerTyped, Accounts
  <2>2. CASE new.history = <<>>
    BY <2>1, <2>2, EmptyEnds
  <2>3. CASE Leads(here, new)
    <3>1. /\ here.msg \in Nat /\ here.idx \in Nat /\ here.history \in Seq(Transaction)
      BY DEF Way, TypeOK, Group!TypeOK
    <3>2. CASE /\ new.msg = here.msg /\ new.idx = here.idx + 1
               /\ new.history = NextHistory(here.history, log[new.msg][new.idx])
      <4>1. f.msg = here.msg /\ f.idx = here.idx + 1
        BY <1>1, <3>2 DEF SamePoint
      <4>2. PICK e \in ledger : e.msg = f.msg /\ e.idx = f.idx - 1
        BY <2>1, <3>1, <4>1 DEF LedgerInv, LedgerHasNoGaps, NoGapBefore
      <4>3. SamePoint(here, e) /\ f.msg = e.msg /\ f.idx = e.idx + 1
        BY <2>1, <3>1, <4>1, <4>2 DEF SamePoint
      <4>4. f.account.history = NextHistory(e.account.history, log[f.msg][f.idx])
        BY <4>3, AfterHistory DEF LedgerInv, LedgerSteps, StepBetween
      <4>5. Ends(here.history, e.account.history)
        BY <4>3 DEF Way
      <4>6. e.account.history \in Seq(Transaction)
        BY DEF GrowInv, LedgerTyped, Accounts
      <4>7. new.history = NextHistory(here.history, log[f.msg][f.idx])
        BY <3>2, <4>1
      <4> QED
        BY <3>1, <4>4, <4>5, <4>6, <4>7, EndsNext
    <3>3. CASE /\ new.msg = here.msg + 1 /\ new.idx = 0 /\ here.idx = MessageLen(here.msg)
               /\ new.history = here.history
      <4>1. f.msg = here.msg + 1 /\ f.idx = 0
        BY <1>1, <3>3 DEF SamePoint
      <4>2. PICK e \in ledger : e.msg = f.msg - 1 /\ e.idx = MessageLen(e.msg)
        BY <2>1, <3>1, <4>1 DEF LedgerInv, LedgerHasNoGaps, NoGapBefore
      <4>3. SamePoint(here, e) /\ f.msg = e.msg + 1
        BY <2>1, <3>1, <3>3, <4>1, <4>2 DEF SamePoint
      <4>4. f.account = e.account
        BY <4>1, <4>2, <4>3 DEF LedgerInv, LedgerSteps, StepBetween
      <4>5. Ends(here.history, e.account.history)
        BY <4>3 DEF Way
      <4> QED
        BY <3>3, <4>4, <4>5
    <3> QED
      BY <2>3, <3>2, <3>3 DEF Leads
  <2> QED
    BY <2>2, <2>3
<1>2. \A e, f : Leads(e, f)' = Leads(e, f)
  BY DEF Leads, MessageLen
<1>3. \A k : MessageLen(k)' = MessageLen(k)
  BY DEF MessageLen
<1>4. \A f \in J \cup {new} : f.history = <<>> \/ \E e \in J \cup {new} : Leads(e, f)
  BY DEF Way
<1> QED
  BY <1>1, <1>2, <1>3, <1>4 DEF Way

\* A step that neither moves a listener nor lets a client in.
LEMMA JoinerUnmoved ==
  ASSUME JoinerInv, Unmoved,
         \A s \in Replicas : membership[s] = "outside" => membership'[s] = "outside"
  PROVE  JoinerInv'
<1> SUFFICES ASSUME NEW r \in Replicas \ Founders PROVE OnItsWay(r)'
  BY DEF JoinerInv
<1>1. OnItsWay(r)
  BY DEF JoinerInv
<1>2. /\ UNCHANGED <<log, ledger, delivered, done, history>>
      /\ (membership'[r] = "outside") = (membership[r] = "outside")
      /\ pc'[r] = "receive" => pc[r] = "receive"
  BY DEF Unmoved
<1>3. \A J : Way(J) => Way(J)'
  BY <1>2, WayUnmoved
<1>4. Place(r)' = Place(r) /\ MessageLen(delivered[r])' = MessageLen(delivered[r])
  BY <1>2 DEF Place, MessageLen
<1> QED
  BY <1>1, <1>2, <1>3, <1>4 DEF OnItsWay

\* What a listener's step does to the others that joined late.
LEMMA JoinerOthers ==
  ASSUME TypeOK, LedgerInv, GrowInv, JoinerInv, NEW q \in Replicas,
         NEW m, NEW i, NEW a, Moves(q, m, i, a), a \in Accounts,
         NEW r \in Replicas \ Founders, r # q
  PROVE  OnItsWay(r)'
<1>1. OnItsWay(r)
  BY DEF JoinerInv
<1>2. \A J : Way(J) => Way(J)'
  <2>1. CASE q \in Founders
    BY <2>1, WayLedger
  <2>2. CASE q \notin Founders
    BY <2>2, WayUnmoved DEF Moves, Record
  <2> QED
    BY <2>1, <2>2
<1>3. /\ delivered'[r] = delivered[r] /\ done'[r] = done[r] /\ pc'[r] = pc[r]
      /\ Account(r)' = Account(r) /\ UNCHANGED <<log, membership>>
  BY DEF Moves
<1>4. history'[r] = history[r]
  BY <1>3 DEF Account
<1>5. Place(r)' = Place(r) /\ MessageLen(delivered[r])' = MessageLen(delivered[r])
  BY <1>3, <1>4 DEF Place, MessageLen
<1> QED
  BY <1>1, <1>2, <1>3, <1>4, <1>5 DEF OnItsWay

LEMMA JoinerSelf ==
  ASSUME TypeOK, TypeOK', LedgerInv, GrowInv, JoinerInv, NEW r \in Replicas \ Founders,
         NEW m, NEW i, NEW a, Moves(r, m, i, a), membership[r] # "outside",
         Leads(Place(r), Place(r)') \/ Place(r)'.history = <<>>
  PROVE  OnItsWay(r)'
<1>1. PICK J : Way(J) /\ Place(r) \in J
  BY DEF JoinerInv, OnItsWay
<1>2. /\ UNCHANGED <<log, ledger, membership>> /\ delivered'[r] = m /\ done'[r] = i
      /\ m \in 0..Len(log) /\ i \in 0..MessageLen(m)
      /\ pc'[r] = "receive" => i = MessageLen(m)
  BY DEF Moves, Record
<1>3. i \in Nat /\ i <= MessageLen(m)
  BY <1>2 DEF MessageLen, TypeOK, Group!TypeOK
<1>0. PICK new : new = Place(r)'
  OBVIOUS
<1>4. new.msg = m /\ new.idx = i
  BY <1>0, <1>2 DEF Place
<1>5. history'[r] \in Seq(Transaction)
  BY DEF TypeOK, FieldsOK
<1>6. new \in [msg : 0..Len(log), idx : Nat, history : Seq(Transaction)]
  BY <1>0, <1>2, <1>3, <1>5 DEF Place
<1>7. Leads(Place(r), new) \/ new.history = <<>>
  BY <1>0
<1>8. Way(J \cup {new})'
  BY <1>1, <1>2, <1>3, <1>4, <1>6, <1>7, WayGoesOn
<1>9. new \in J \cup {new}
  OBVIOUS
<1>10. MessageLen(delivered[r])' = MessageLen(m)
  BY <1>2 DEF MessageLen
<1> QED
  BY <1>0, <1>2, <1>8, <1>9, <1>10 DEF OnItsWay

\* What one step of a listener leads to.
LEMMA StepsLead ==
  ASSUME TypeOK, LedgerInv, JoinerInv, NEW r \in Replicas \ Founders,
         \/ ReceiveMessage(r) \/ SkipTransaction(r)
         \/ ExecuteTransaction(r) \/ ExecuteRacingClean(r)
  PROVE  /\ membership[r] # "outside"
         /\ Leads(Place(r), Place(r)') \/ Place(r)'.history = <<>>
<1>1. CASE ReceiveMessage(r)
  <2>1. /\ delivered'[r] = delivered[r] + 1 /\ done'[r] = 0 /\ history' = history
        /\ pc[r] = "receive" /\ membership[r] = "member"
    BY <1>1 DEF ReceiveMessage, Group!Deliver, TypeOK, FieldsOK, Group!TypeOK
  <2>2. done[r] = MessageLen(delivered[r]) \/ history[r] = <<>>
    BY <2>1 DEF JoinerInv, OnItsWay
  <2> QED
    BY <2>1, <2>2 DEF Leads, Place
<1>2. CASE SkipTransaction(r)
  <2>1. /\ delivered'[r] = delivered[r] /\ done'[r] = done[r] + 1 /\ history' = history
        /\ log' = log /\ membership[r] = "member"
    BY <1>2 DEF SkipTransaction, NextTransaction, TypeOK, FieldsOK, InGroup
  <2>2. Current(r).command.name \in {"getSyncedBalance", "other"}
    BY <1>2 DEF LedgerInv, SkipTransaction, Skips
  <2> QED
    BY <2>1, <2>2 DEF Leads, Place, NextHistory, Current
<1>3. ASSUME NEW list, ExecuteOnto(r, list)
      PROVE  membership[r] # "outside" /\ Leads(Place(r), Place(r)')
  <2>1. /\ delivered'[r] = delivered[r] /\ done'[r] = done[r] + 1
        /\ history'[r] = Append(history[r], Current(r))
        /\ log' = log /\ membership[r] = "member"
    BY <1>3 DEF ExecuteOnto, NextTransaction, TypeOK, FieldsOK, InGroup
  <2>2. Current(r).command.name \notin {"getSyncedBalance", "other"}
    BY <1>3 DEF ExecuteOnto, Skips
  <2> QED
    BY <2>1, <2>2 DEF Leads, Place, NextHistory, Current
<1> QED
  BY <1>1, <1>2, <1>3 DEF ExecuteTransaction, ExecuteRacingClean

LEMMA JoinerMoves ==
  ASSUME TypeOK, TypeOK', LedgerInv, GrowInv, JoinerInv, NEW q \in Replicas,
         \/ ReceiveMessage(q) \/ SkipTransaction(q)
         \/ ExecuteTransaction(q) \/ ExecuteRacingClean(q)
  PROVE  JoinerInv'
<1>1. PICK m, i, a : Moves(q, m, i, a) /\ a \in Accounts
  BY StepsGrow DEF Grows
<1>2. ASSUME NEW r \in Replicas \ Founders, r # q PROVE OnItsWay(r)'
  BY <1>1, <1>2, JoinerOthers
<1>3. ASSUME q \in Replicas \ Founders PROVE OnItsWay(q)'
  <2>1. /\ membership[q] # "outside"
        /\ Leads(Place(q), Place(q)') \/ Place(q)'.history = <<>>
    BY <1>3, StepsLead
  <2> QED
    BY <1>1, <1>3, <2>1, JoinerSelf
<1> QED
  BY <1>2, <1>3 DEF JoinerInv

LEMMA JoinerOrder ==
  ASSUME TypeOK, LedgerInv, JoinerInv, NEW q \in Replicas, Order(q)
  PROVE  JoinerInv'
<1> SUFFICES ASSUME NEW r \in Replicas \ Founders PROVE OnItsWay(r)'
  BY DEF JoinerInv
<1>1. OnItsWay(r)
  BY DEF JoinerInv
<1>2. \A J : Way(J) => Way(J)'
  BY WayOrder
<1>3. UNCHANGED <<delivered, done, history, membership, pc>>
  BY DEF Order, Group!Order
<1>4. delivered[r] \in 0..Len(log)
  BY DEF TypeOK, PositionOK, Group!TypeOK
<1>5. \A m \in 0..Len(log) : MessageLen(m)' = MessageLen(m)
  BY LedgerSurvivesOrder DEF LedgerInv, LedgerSound
<1>6. MessageLen(delivered[r])' = MessageLen(delivered[r])
  BY <1>3, <1>4, <1>5
<1>7. Place(r)' = Place(r)
  BY <1>3 DEF Place
<1> QED
  BY <1>1, <1>2, <1>3, <1>6, <1>7 DEF OnItsWay

\* A client comes in with nothing executed.
LEMMA JoinerJoin ==
  ASSUME TypeOK, TypeOK', LedgerInv, GrowInv, JoinerInv, NEW q \in Replicas, Join(q)
  PROVE  JoinerInv'
<1>1. /\ UNCHANGED <<log, ledger, done, history, pc>>
      /\ membership[q] = "outside" /\ delivered'[q] = Len(log)
      /\ membership'[q] = "member"
      /\ \A s \in Replicas \ {q} : delivered'[s] = delivered[s] /\ membership'[s] = membership[s]
  BY DEF Join, Group!Join, TypeOK, Group!TypeOK
<1>2. ASSUME NEW r \in Replicas \ Founders, r # q PROVE OnItsWay(r)'
  <2>1. OnItsWay(r)
    BY DEF JoinerInv
  <2>2. \A J : Way(J) => Way(J)'
    BY <1>1, WayUnmoved
  <2>3. Place(r)' = Place(r) /\ MessageLen(delivered[r])' = MessageLen(delivered[r])
    BY <1>1, <1>2 DEF Place, MessageLen
  <2> QED
    BY <1>1, <1>2, <2>1, <2>2, <2>3 DEF OnItsWay
<1>3. ASSUME q \in Replicas \ Founders PROVE OnItsWay(q)'
  <2>1. history[q] = <<>> /\ done[q] = 0
    BY <1>1, <1>3 DEF JoinerInv, OnItsWay
  <2>0. PICK new : new = Place(q)'
    OBVIOUS
  <2>2. new.history = <<>> /\ new.idx = 0 /\ new.msg = Len(log)
    BY <1>1, <2>0, <2>1 DEF Place
  <2>3. Len(log) \in Nat /\ <<>> \in Seq(Transaction)
    BY DEF TypeOK, Group!TypeOK
  <2>4. new \in [msg : 0..Len(log), idx : Nat, history : Seq(Transaction)]
    BY <1>1, <2>0, <2>1, <2>3 DEF Place
  <2>5. MessageLen(Len(log)) \in Nat
    BY DEF TypeOK, Group!TypeOK, MessageLen
  <2>6. \A f \in ledger : Ends(new.history, f.account.history)
    <3>1. \A f \in ledger : f.account.history \in Seq(Transaction)
      BY DEF GrowInv, LedgerTyped, Accounts
    <3> QED
      BY <2>2, <3>1, EmptyEnds
  <2>7. Way({new})
    BY <2>2, <2>4, <2>5, <2>6 DEF Way
  <2>8. Way({new})'
    BY <1>1, <2>7, WayUnmoved
  <2> QED
    BY <1>1, <2>0, <2>1, <2>8 DEF OnItsWay
<1> QED
  BY <1>2, <1>3 DEF JoinerInv

LEMMA JoinerInit == Init => JoinerInv
  BY DEF Init, Group!Init, JoinerInv, OnItsWay

LEMMA JoinerStep ==
  TypeOK /\ TypeOK' /\ LedgerInv /\ GrowInv /\ JoinerInv /\ [Next]_vars => JoinerInv'
<1> SUFFICES ASSUME TypeOK, TypeOK', LedgerInv, GrowInv, JoinerInv, [Next]_vars
             PROVE  JoinerInv'
  OBVIOUS
<1>1. CASE UNCHANGED vars
  <2>1. Unmoved
    BY <1>1 DEF vars, Unmoved, LedgerInv
  <2> QED
    BY <1>1, <2>1, JoinerUnmoved DEF vars
<1>2. ASSUME NEW r \in Replicas,
             \/ \E c \in UserCommands : \/ ProcessCommand(r, c)
                                        \/ RemoveRacingAddThrows(r, c)
                                        \/ RemoveRacingAddTears(r, c)
             \/ CleanHistory(r) \/ SendOutstanding(r) \/ Disconnect(r)
             \/ RemoveLocal(r) \/ RemoveThrows(r) \/ ParseThrows(r)
             \/ RemoveRacingSend(r) \/ CleanRacingCheck(r)
      PROVE  JoinerInv'
  <2>1. Unmoved
    BY <1>2, StepsUnmoved
  <2>2. membership' = membership \/ (Disconnect(r) /\ membership[r] = "member")
    BY <1>2 DEF ProcessCommand, RemoveRacingAddThrows, RemoveRacingAddTears, CleanHistory,
       SendOutstanding, Group!Multicast, RemoveLocal, RemoveThrows, ParseThrows,
       RemoveRacingSend, CleanRacingCheck, Disconnect, Group!Disconnect
  <2>3. \A s \in Replicas : membership[s] = "outside" => membership'[s] = "outside"
    BY <2>2 DEF Disconnect, Group!Disconnect, TypeOK, Group!TypeOK
  <2> QED
    BY <2>1, <2>3, JoinerUnmoved
<1>3. ASSUME NEW r \in Replicas, Listen(r) \/ Race(r) PROVE JoinerInv'
  BY <1>2, <1>3, JoinerMoves DEF Listen, Race
<1> QED
  BY <1>1, <1>2, <1>3, JoinerOrder, JoinerJoin DEF Next

\* The inductive invariant of late joining: a client that joins late has gone
\* a way, from nothing executed, by the transactions of the log.
THEOREM JoinerCorrect == Spec => []JoinerInv
<1>1. TypeOK /\ LedgerInv /\ HistoryInv /\ JoinerInv /\ TypeOK' /\ [Next]_vars => JoinerInv'
  BY JoinerStep DEF HistoryInv
<1> QED
  BY <1>1, TypeCorrect, LedgerCorrect, HistoryCorrect, JoinerInit, PTL DEF Spec

LEMMA JoinerGivesSuffix ==
  TypeOK /\ LedgerInv /\ HistoryInv /\ JoinerInv => JoinerHasSuffix
<1> SUFFICES ASSUME TypeOK, LedgerInv, HistoryInv, JoinerInv,
                    NEW r \in Replicas, NEW s \in Founders,
                    delivered[r] = delivered[s], done[r] = done[s], InGroup(r)
             PROVE  /\ IsSuffix(history[r], history[s])
                    /\ order_counter[s] - order_counter[r] = Len(history[s]) - Len(history[r])
  BY DEF JoinerHasSuffix
<1>1. s \in Replicas
  BY ClientAssumption
<1>2. history[r] \in Seq(Transaction) /\ history[s] \in Seq(Transaction)
  BY <1>1 DEF TypeOK, FieldsOK
<1>3. order_counter[r] = Len(history[r]) /\ order_counter[s] = Len(history[s])
  BY <1>1 DEF HistoryInv, ListIsEnd
<1> DEFINE e == Place(r)
           f == [msg |-> delivered[s], idx |-> done[s], account |-> Account(s)]
<1>4. f \in ledger
  BY DEF LedgerInv, FoundersInLedger, InLedger
<1>5. Ends(history[r], history[s])
  <2>1. CASE r \in Founders
    <3>1. Account(r) = Account(s)
      BY <2>1, LedgerGivesAgreement DEF FoundersAgree
    <3>2. history[r] = history[s]
      BY <1>1, <3>1, AccountType
    <3>3. Len(history[r]) \in Nat
      BY <1>2
    <3>4. \A n \in 1..Len(history[r]) : Len(history[r]) - Len(history[r]) + n = n
      BY <3>3
    <3> QED
      BY <3>2, <3>3, <3>4 DEF Ends
  <2>2. CASE r \notin Founders
    <3>1. PICK J : Way(J) /\ e \in J
      BY <2>2 DEF JoinerInv, OnItsWay, InGroup
    <3>2. SamePoint(e, f) /\ e.history = history[r] /\ f.account.history = history[s]
      BY DEF SamePoint, Place, Account
    <3> HIDE DEF e, f
    <3> QED
      BY <1>4, <3>1, <3>2 DEF Way
  <2> QED
    BY <2>1, <2>2
<1> QED
  BY <1>2, <1>3, <1>5, EndsIsSuffix

\* In every run, a client that joins late has executed exactly the end of
\* what a founder at the same place of the log has, and lacks the beginning.
THEOREM JoinerSuffix == Spec => []JoinerHasSuffix
  BY TypeCorrect, LedgerCorrect, HistoryCorrect, JoinerCorrect, JoinerGivesSuffix, PTL
=============================================================================
