-------------------------- MODULE OutstandingProofs --------------------------
(***************************************************************************)
(* Proofs about what the clients send: a transaction is broadcast from its *)
(* creation until its client is handed it, in the order of creation, and a *)
(* getSynchedBalance sees what its client created before it.               *)
(***************************************************************************)
EXTENDS ClientProofs

USE DEF groupVars, accountVars, listenerVars, enqueueVars, schedulerVars

-----------------------------------------------------------------------------
(* The inductive invariant. *)

Own(r, slot) == slot # Hole /\ slot.uniqueId[1] = r

\* A list or message of r has nothing but r's transactions and nulls.
OwnOnly(r, list) == \A i \in DOMAIN list : list[i] # Hole => Own(r, list[i])

NotInLog(r) == \A m \in DOMAIN log : \A i \in DOMAIN log[m] : ~Own(r, log[m][i])

\* What holds of every client, whatever its races have torn.
Sender(r) ==
  /\ OwnOnly(r, outstanding_collection[r])
  /\ \A j \in DOMAIN submitted[r] : OwnOnly(r, submitted[r][j])
  /\ membership[r] = "outside" =>
       /\ outstanding_counter[r] = 0 /\ outstanding_collection[r] = <<>>
       /\ submitted[r] = <<>> /\ done[r] = 0 /\ NotInLog(r)

\* The number of the first transaction r still broadcasts; those before it
\* have been handed to r.
First(r) == outstanding_counter[r] - Len(outstanding_collection[r])

ListIsRun(r) ==
  /\ Len(outstanding_collection[r]) <= outstanding_counter[r]
  /\ \A i \in DOMAIN outstanding_collection[r] :
       /\ outstanding_collection[r][i] # Hole
       /\ outstanding_collection[r][i].uniqueId = <<r, First(r) + i - 1>>

\* A message of r: transactions without a gap, from one r had not been handed
\* back when it sent them.
IsRun(r, list) ==
  \E a \in 0..First(r) :
    /\ a + Len(list) <= outstanding_counter[r]
    /\ \A i \in DOMAIN list : list[i] # Hole /\ list[i].uniqueId = <<r, a + i - 1>>

SubmittedRuns(r) == \A j \in DOMAIN submitted[r] : IsRun(r, submitted[r][j])

LogRuns(r) ==
  \A m \in DOMAIN log : \A i \in DOMAIN log[m] : Own(r, log[m][i]) => IsRun(r, log[m])

PassedBeforeFirst(r) ==
  \A m \in DOMAIN log : \A i \in DOMAIN log[m] :
    Passed(r, m, i) /\ Own(r, log[m][i]) => log[m][i].uniqueId[2] < First(r)

\* Passed, or in hand when the listener died.
Seen(r, m, i) ==
  \/ m < delivered[r]
  \/ m = delivered[r] /\ i <= done[r]
  \/ m = delivered[r] /\ i = done[r] + 1 /\ pc[r] \in {"execute", "dead"}

BeforeFirstSeen(r) ==
  \A n \in 0..(First(r) - 1) :
    \E m \in DOMAIN log : \E i \in DOMAIN log[m] : Seen(r, m, i) /\ At(m, i, <<r, n>>)

InOrder(r) ==
  \A m \in DOMAIN log : \A i \in DOMAIN log[m] : Own(r, log[m][i]) =>
    \A n \in 0..(log[m][i].uniqueId[2] - 1) :
      \E k \in 1..m : \E j \in DOMAIN log[k] : (k < m \/ j < i) /\ At(k, j, <<r, n>>)

\* Between two messages, nothing of r's is left of the last.
NothingLeft(r) ==
  pc[r] = "receive" =>
    \/ done[r] = MessageLen(delivered[r])
    \/ delivered[r] > 0 /\ \A i \in DOMAIN log[delivered[r]] : ~Own(r, log[delivered[r]][i])

\* What r has done of its own deposits and interests is in its history.
Done(r, m, i) == m < delivered[r] \/ (m = delivered[r] /\ i <= done[r])

HistoryCovers(r) ==
  \A m \in DOMAIN log : \A i \in DOMAIN log[m] :
    /\ Done(r, m, i) /\ Own(r, log[m][i])
    /\ log[m][i].command.name \notin {"getSyncedBalance", "other"}
    => Places(history[r], log[m][i].uniqueId) # {}

\* What holds of a client whose list no race has torn.
Tidy(r) ==
  /\ ListIsRun(r) /\ SubmittedRuns(r) /\ LogRuns(r)
  /\ PassedBeforeFirst(r) /\ BeforeFirstSeen(r)
  /\ InOrder(r) /\ NothingLeft(r) /\ HistoryCovers(r)

SentInv ==
  /\ \A r \in Replicas : Sender(r)
  /\ \A r \in Replicas \ raced : Tidy(r)

-----------------------------------------------------------------------------
(* What the invariant is for. *)

LEMMA TidyGivesNotDelivered ==
  ASSUME TypeOK, SentInv
  PROVE  OutstandingNotDelivered
<1> SUFFICES ASSUME NEW r \in Replicas \ raced,
                    NEW k \in DOMAIN outstanding_collection[r],
                    outstanding_collection[r][k] # Hole,
                    NEW m \in DOMAIN log, NEW i \in DOMAIN log[m], Passed(r, m, i),
                    At(m, i, outstanding_collection[r][k].uniqueId)
             PROVE  FALSE
  BY DEF OutstandingNotDelivered
<1>1. Tidy(r)
  BY DEF SentInv
<1>2. outstanding_collection[r][k].uniqueId = <<r, First(r) + k - 1>>
  BY <1>1 DEF Tidy, ListIsRun
<1>3. log[m][i] # Hole /\ log[m][i].uniqueId = <<r, First(r) + k - 1>>
  BY <1>2 DEF At
<1>4. Own(r, log[m][i])
  BY <1>3 DEF Own
<1>5. First(r) + k - 1 < First(r)
  BY <1>1, <1>3, <1>4 DEF Tidy, PassedBeforeFirst
<1>6. First(r) \in Int /\ k \in Nat /\ k > 0
  BY DEF First, TypeOK, FieldsOK
<1> QED
  BY <1>5, <1>6

LEMMA LogType ==
  ASSUME TypeOK, NEW m \in DOMAIN log
  PROVE  /\ m \in 1..Len(log) /\ m \in Nat /\ log[m] \in Seq(Slot)
         /\ DOMAIN log[m] = 1..Len(log[m]) /\ Len(log[m]) \in Nat
         /\ MessageLen(m) = Len(log[m])
         /\ \A i \in DOMAIN log[m] : log[m][i] # Hole =>
              /\ log[m][i] \in Transaction
              /\ log[m][i].uniqueId[1] \in Replicas /\ log[m][i].uniqueId[2] \in Nat
              /\ log[m][i].uniqueId = <<log[m][i].uniqueId[1], log[m][i].uniqueId[2]>>
<1>1. log \in Seq(Seq(Slot))
  BY DEF TypeOK, Group!TypeOK
<1>2. /\ m \in 1..Len(log) /\ m \in Nat /\ log[m] \in Seq(Slot)
      /\ DOMAIN log[m] = 1..Len(log[m]) /\ Len(log[m]) \in Nat
  BY <1>1
<1>3. \A i \in DOMAIN log[m] : log[m][i] \in Slot
  BY <1>2
<1>4. \A i \in DOMAIN log[m] : log[m][i] # Hole => log[m][i] \in Transaction
  BY <1>3 DEF Slot
<1>5. \A tx \in Transaction : /\ tx.uniqueId[1] \in Replicas /\ tx.uniqueId[2] \in Nat
                              /\ tx.uniqueId = <<tx.uniqueId[1], tx.uniqueId[2]>>
  BY DEF Transaction
<1>6. MessageLen(m) = Len(log[m])
  BY <1>2 DEF MessageLen
<1> QED
  BY <1>2, <1>4, <1>5, <1>6

LEMMA TidyGivesIssueOrder ==
  ASSUME TypeOK, SentInv
  PROVE  IssueOrder
<1> SUFFICES ASSUME NEW m \in DOMAIN log, NEW i \in DOMAIN log[m], log[m][i] # Hole,
                    log[m][i].uniqueId[1] \notin raced,
                    NEW n \in 0..(log[m][i].uniqueId[2] - 1)
             PROVE  \E k \in 1..m : \E j \in DOMAIN log[k] :
                      (k < m \/ j < i) /\ At(k, j, <<log[m][i].uniqueId[1], n>>)
  BY DEF IssueOrder
<1> DEFINE r == log[m][i].uniqueId[1]
<1>1. r \in Replicas /\ Own(r, log[m][i])
  BY LogType DEF Own
<1>2. InOrder(r)
  BY <1>1 DEF SentInv, Tidy
<1> QED
  BY <1>1, <1>2 DEF InOrder

LEMMA TidyGivesBalance ==
  ASSUME TypeOK, SentInv
  PROVE  SyncedBalanceIsCorrect
<1> SUFFICES ASSUME NEW r \in Replicas \ raced, pc[r] = "execute",
                    Current(r).command.name = "getSyncedBalance",
                    Current(r).uniqueId[1] = r,
                    NEW n \in 0..(Current(r).uniqueId[2] - 1)
             PROVE  \E m \in 1..delivered[r] : \E i \in DOMAIN log[m] :
                      /\ Passed(r, m, i) /\ At(m, i, <<r, n>>)
                      /\ \/ log[m][i].command.name \in {"getSyncedBalance", "other"}
                         \/ Places(history[r], <<r, n>>) # {}
  BY DEF SyncedBalanceIsCorrect
<1> DEFINE d == delivered[r]
           e == done[r] + 1
<1>1. Tidy(r) /\ r \in Replicas
  BY DEF SentInv
<1>2. /\ d \in DOMAIN log /\ e \in DOMAIN log[d] /\ Current(r) = log[d][e]
      /\ Current(r) # Hole /\ d \in Nat /\ done[r] \in Nat
  <2>1. d \in 1..Len(log) /\ log[d] \in Seq(Slot) /\ e \in 1..Len(log[d])
    BY <1>1, CurrentType
  <2>2. log \in Seq(Seq(Slot)) /\ d \in Nat /\ done[r] \in Nat
    BY <1>1 DEF TypeOK, FieldsOK, Group!TypeOK
  <2>3. Current(r) # Hole
    BY <1>1 DEF TypeOK, PositionOK
  <2> QED
    BY <2>1, <2>2, <2>3 DEF Current
<1>3. Passed(r, d, e) /\ Own(r, log[d][e])
  BY <1>2 DEF Passed, Own
<1>4. Current(r).uniqueId[2] < First(r) /\ Current(r).uniqueId[2] \in Nat
  BY <1>1, <1>2, <1>3, LogType DEF Tidy, PassedBeforeFirst
<1>5. First(r) \in Int
  BY <1>1 DEF First, TypeOK, FieldsOK
<1>6. n \in 0..(First(r) - 1) /\ n # Current(r).uniqueId[2]
  BY <1>4, <1>5
<1>7. PICK m \in DOMAIN log :
        \E i \in DOMAIN log[m] : Seen(r, m, i) /\ At(m, i, <<r, n>>)
  BY <1>1, <1>6 DEF Tidy, BeforeFirstSeen
<1>8. PICK i \in DOMAIN log[m] : Seen(r, m, i) /\ At(m, i, <<r, n>>)
  BY <1>7
<1>9. m \in 1..d /\ m \in Nat
  BY <1>2, <1>8, LogType DEF Seen
<1>10. Passed(r, m, i)
  BY <1>8 DEF Passed, Seen
<1>11. ~(m = d /\ i = e)
  BY <1>2, <1>6, <1>8 DEF At
<1>12. Done(r, m, i) /\ Own(r, log[m][i])
  BY <1>8, <1>10, <1>11 DEF Done, Passed, At, Own
<1>13. \/ log[m][i].command.name \in {"getSyncedBalance", "other"}
       \/ Places(history[r], <<r, n>>) # {}
  BY <1>1, <1>8, <1>12 DEF Tidy, HistoryCovers, At
<1> QED
  BY <1>8, <1>9, <1>10, <1>13

-----------------------------------------------------------------------------
(* Lists and messages of a client hold nothing but its own. *)

LEMMA OwnAppend ==
  ASSUME NEW r, NEW list \in Seq(Slot), OwnOnly(r, list), NEW x,
         x = Hole \/ Own(r, x)
  PROVE  OwnOnly(r, Append(list, x))
<1>1. /\ DOMAIN Append(list, x) = 1..(Len(list) + 1) /\ Len(list) \in Nat
      /\ \A i \in 1..Len(list) : Append(list, x)[i] = list[i]
      /\ Append(list, x)[Len(list) + 1] = x
      /\ DOMAIN list = 1..Len(list)
  OBVIOUS
<1> QED
  BY <1>1 DEF OwnOnly

LEMMA OwnConcat ==
  ASSUME NEW r, NEW a \in Seq(Slot), NEW b \in Seq(Slot), OwnOnly(r, a), OwnOnly(r, b)
  PROVE  OwnOnly(r, a \o b)
<1>1. /\ DOMAIN (a \o b) = 1..(Len(a) + Len(b)) /\ Len(a) \in Nat /\ Len(b) \in Nat
      /\ \A i \in 1..(Len(a) + Len(b)) :
           (a \o b)[i] = IF i <= Len(a) THEN a[i] ELSE b[i - Len(a)]
      /\ DOMAIN a = 1..Len(a) /\ DOMAIN b = 1..Len(b)
  BY ConcatProperties
<1>2. \A i \in 1..(Len(a) + Len(b)) : i <= Len(a) \/ i - Len(a) \in 1..Len(b)
  BY <1>1
<1> QED
  BY <1>1, <1>2 DEF OwnOnly

LEMMA OwnSubSeq ==
  ASSUME NEW r, NEW list \in Seq(Slot), OwnOnly(r, list),
         NEW m \in 1..(Len(list) + 1), NEW n \in 0..Len(list)
  PROVE  SubSeq(list, m, n) \in Seq(Slot) /\ OwnOnly(r, SubSeq(list, m, n))
<1>1. SubSeq(list, m, n) \in Seq(Slot)
  BY SubSeqProperties
<1>2. \A i \in DOMAIN SubSeq(list, m, n) :
        /\ SubSeq(list, m, n)[i] = list[m + i - 1]
        /\ m + i - 1 \in DOMAIN list
  <2>1. Len(list) \in Nat /\ DOMAIN list = 1..Len(list) /\ m \in Nat /\ n \in Nat
    OBVIOUS
  <2>2. CASE m > n
    BY <1>1, <2>1, <2>2
  <2>3. CASE m <= n
    <3>1. DOMAIN SubSeq(list, m, n) = 1..(n - m + 1)
      BY <2>1, <2>3
    <3>2. \A i \in 1..(n - m + 1) : SubSeq(list, m, n)[i] = list[m + i - 1]
      BY <2>1, <2>3
    <3>3. \A i \in 1..(n - m + 1) : m + i - 1 \in 1..Len(list)
      BY <2>1, <2>3
    <3> QED
      BY <2>1, <3>1, <3>2, <3>3
  <2> QED
    BY <2>1, <2>2, <2>3
<1> QED
  BY <1>1, <1>2 DEF OwnOnly

LEMMA OwnWithout ==
  ASSUME NEW r, NEW list \in Seq(Slot), OwnOnly(r, list), NEW uniqueId,
         NEW rest \in Without(list, uniqueId)
  PROVE  OwnOnly(r, rest)
<1>1. CASE Places(list, uniqueId) = {}
  BY <1>1 DEF Without
<1>2. CASE Places(list, uniqueId) # {}
  <2>1. PICK p \in Places(list, uniqueId) \X Places(list, uniqueId) :
          rest = SubSeq(list, 1, p[1] - 1) \o SubSeq(list, p[2] + 1, Len(list))
    BY <1>2 DEF Without
  <2>2. p[1] \in 1..Len(list) /\ p[2] \in 1..Len(list) /\ Len(list) \in Nat
    BY DEF Places
  <2>3. /\ 1 \in 1..(Len(list) + 1) /\ p[1] - 1 \in 0..Len(list)
        /\ p[2] + 1 \in 1..(Len(list) + 1) /\ Len(list) \in 0..Len(list)
    BY <2>2
  <2>4. /\ SubSeq(list, 1, p[1] - 1) \in Seq(Slot)
        /\ OwnOnly(r, SubSeq(list, 1, p[1] - 1))
    BY <2>3, OwnSubSeq
  <2>5. /\ SubSeq(list, p[2] + 1, Len(list)) \in Seq(Slot)
        /\ OwnOnly(r, SubSeq(list, p[2] + 1, Len(list)))
    BY <2>3, OwnSubSeq
  <2> QED
    BY <2>1, <2>4, <2>5, OwnConcat
<1> QED
  BY <1>1, <1>2

LEMMA NewIsOwn ==
  ASSUME NEW r, NEW c, ClientAssumption
  PROVE  NewTransaction(r, c) = Hole \/ Own(r, NewTransaction(r, c))
  BY DEF NewTransaction, Own

LEMMA OwnTorn ==
  ASSUME NEW r, NEW list \in Seq(Slot), OwnOnly(r, list), list # <<>>,
         NEW rest \in Seq(Slot), OwnOnly(r, rest), NEW tx \in Slot, tx = Hole \/ Own(r, tx),
         NEW torn \in TornBy(list, rest, tx)
  PROVE  OwnOnly(r, torn)
<1>1. CASE torn = rest
  BY <1>1
<1>2. CASE torn = Append(rest, Hole)
  BY <1>2, OwnAppend
<1>3. CASE torn = rest \o <<Hole, tx>>
  <2>1. <<Hole, tx>> \in Seq(Slot) /\ OwnOnly(r, <<Hole, tx>>)
    BY DEF OwnOnly, Slot
  <2> QED
    BY <1>3, <2>1, OwnConcat
<1>4. CASE torn = Append(rest, list[Len(list)])
  <2>1. Len(list) \in DOMAIN list
    OBVIOUS
  <2>2. list[Len(list)] = Hole \/ Own(r, list[Len(list)])
    BY <2>1 DEF OwnOnly
  <2> QED
    BY <1>4, <2>2, OwnAppend
<1> QED
  BY <1>1, <1>2, <1>3, <1>4 DEF TornBy

LEMMA OwnCopies ==
  ASSUME NEW r, NEW list \in Seq(Slot), OwnOnly(r, list), NEW i,
         NEW copy \in TornCopies(list, i)
  PROVE  OwnOnly(r, copy)
<1>1. CASE copy = <<Hole>>
  BY <1>1 DEF OwnOnly
<1>2. CASE copy \in [DOMAIN list -> {list[j] : j \in DOMAIN list} \cup {Hole}]
  BY <1>2 DEF OwnOnly
<1> QED
  BY <1>1, <1>2 DEF TornCopies

\* What a step leaves of a client it does not touch.
Untouched(s) ==
  /\ outstanding_counter'[s] = outstanding_counter[s]
  /\ outstanding_collection'[s] = outstanding_collection[s]
  /\ submitted'[s] = submitted[s] /\ delivered'[s] = delivered[s]
  /\ done'[s] = done[s] /\ history'[s] = history[s]
  /\ membership'[s] = membership[s] /\ pc'[s] = pc[s]

LEMMA SenderKept ==
  ASSUME NEW s, Sender(s), UNCHANGED log,
         outstanding_counter'[s] = outstanding_counter[s],
         outstanding_collection'[s] = outstanding_collection[s],
         submitted'[s] = submitted[s],
         membership'[s] = "outside" => membership[s] = "outside" /\ done'[s] = done[s]
  PROVE  Sender(s)'
  BY DEF Sender, OwnOnly, NotInLog, Own

\* A client in the group, with a list and messages of its own.
LEMMA SenderMember ==
  ASSUME NEW s, membership'[s] # "outside", OwnOnly(s, outstanding_collection'[s]),
         \A j \in DOMAIN submitted'[s] : OwnOnly(s, submitted'[s][j])
  PROVE  Sender(s)'
  BY DEF Sender, OwnOnly, Own

\* A message more, from OwnOnly content.
LEMMA OwnSubmitted ==
  ASSUME Group!TypeOK, NEW r \in Replicas, Sender(r), NEW list \in Seq(Slot),
         OwnOnly(r, list), Group!Multicast(r, list)
  PROVE  /\ \A j \in DOMAIN submitted'[r] : OwnOnly(r, submitted'[r][j])
         /\ membership[r] = "member" /\ membership' = membership
<1>1. submitted'[r] = Append(submitted[r], list) /\ submitted[r] \in Seq(Seq(Slot))
  BY DEF Group!Multicast, Group!TypeOK
<1>2. /\ DOMAIN submitted'[r] = 1..(Len(submitted[r]) + 1) /\ Len(submitted[r]) \in Nat
      /\ \A j \in 1..Len(submitted[r]) : submitted'[r][j] = submitted[r][j]
      /\ submitted'[r][Len(submitted[r]) + 1] = list
      /\ DOMAIN submitted[r] = 1..Len(submitted[r])
  BY <1>1
<1>3. \A j \in DOMAIN submitted'[r] : OwnOnly(r, submitted'[r][j])
  BY <1>2 DEF Sender
<1> QED
  BY <1>3 DEF Group!Multicast

LEMMA SenderSteps ==
  ASSUME TypeOK, NEW r \in Replicas, Sender(r),
         \/ \E c \in UserCommands : \/ ProcessCommand(r, c)
                                    \/ RemoveRacingAddThrows(r, c)
                                    \/ RemoveRacingAddTears(r, c)
         \/ SendOutstanding(r) \/ RemoveLocal(r) \/ RemoveRacingSend(r)
  PROVE  Sender(r)'
<1> DEFINE list == outstanding_collection[r]
<1>1. /\ list \in Seq(Slot) /\ OwnOnly(r, list)
      /\ \A j \in DOMAIN submitted[r] : OwnOnly(r, submitted[r][j])
  BY DEF TypeOK, FieldsOK, Sender
<1>2. pc[r] = "remove" => membership[r] # "outside"
  BY DEF TypeOK, PositionOK
<1>3. ASSUME NEW c \in UserCommands, ProcessCommand(r, c) \/ RemoveRacingAddThrows(r, c)
      PROVE  Sender(r)'
  <2>1. /\ outstanding_collection'[r] = Enqueued(list, NewTransaction(r, c))
        /\ submitted' = submitted /\ membership' = membership /\ membership[r] = "member"
    BY <1>3 DEF ProcessCommand, RemoveRacingAddThrows, CountTransaction, InGroup,
       TypeOK, FieldsOK
  <2>2. OwnOnly(r, Append(list, NewTransaction(r, c)))
    BY <1>1, NewIsOwn, OwnAppend, ClientAssumption
  <2> QED
    BY <1>1, <2>1, <2>2, SenderMember DEF Enqueued
<1>4. ASSUME NEW c \in UserCommands, RemoveRacingAddTears(r, c) PROVE Sender(r)'
  <2> DEFINE tx == NewTransaction(r, c)
  <2>1. PICK rest \in Without(list, Current(r).uniqueId) :
          \E torn \in TornBy(list, rest, tx) :
            outstanding_collection' = [outstanding_collection EXCEPT ![r] = torn]
    BY <1>4 DEF RemoveRacingAddTears
  <2>2. PICK torn \in TornBy(list, rest, tx) :
          outstanding_collection' = [outstanding_collection EXCEPT ![r] = torn]
    BY <2>1
  <2>3. rest \in Seq(Slot) /\ OwnOnly(r, rest)
    BY <1>1, WithoutType, OwnWithout
  <2>4. list # <<>>
    BY <1>1, <1>4 DEF RemoveRacingAddTears, HeldOnce
  <2>5. tx \in Slot /\ (tx = Hole \/ Own(r, tx))
    BY EnqueuedType, NewIsOwn, ClientAssumption DEF Slot
  <2> HIDE DEF list, tx
  <2>6. OwnOnly(r, torn)
    BY <1>1, <2>3, <2>4, <2>5, OwnTorn
  <2>7. outstanding_collection'[r] = torn
    BY <2>2 DEF TypeOK, FieldsOK
  <2>8. submitted' = submitted /\ membership' = membership /\ membership[r] # "outside"
    BY <1>2, <1>4 DEF RemoveRacingAddTears
  <2> QED
    BY <1>1, <2>6, <2>7, <2>8, SenderMember
<1>5. CASE SendOutstanding(r)
  <2>1. /\ Group!Multicast(r, list) /\ outstanding_collection' = outstanding_collection
    BY <1>5 DEF SendOutstanding, Content
  <2>2. /\ \A j \in DOMAIN submitted'[r] : OwnOnly(r, submitted'[r][j])
        /\ membership'[r] = "member"
    BY <1>1, <2>1, OwnSubmitted DEF TypeOK
  <2> QED
    BY <1>1, <2>1, <2>2, SenderMember
<1>6. ASSUME NEW rest \in Without(list, Current(r).uniqueId),
             outstanding_collection' = [outstanding_collection EXCEPT ![r] = rest]
      PROVE  OwnOnly(r, outstanding_collection'[r])
  <2>1. OwnOnly(r, rest)
    BY <1>1, OwnWithout
  <2> QED
    BY <1>6, <2>1 DEF TypeOK, FieldsOK
<1>7. CASE RemoveLocal(r)
  <2>1. OwnOnly(r, outstanding_collection'[r])
    BY <1>6, <1>7 DEF RemoveLocal, RemoveIf
  <2>2. submitted' = submitted /\ membership' = membership /\ membership[r] # "outside"
    BY <1>2, <1>7 DEF RemoveLocal
  <2> QED
    BY <1>1, <2>1, <2>2, SenderMember
<1>8. CASE RemoveRacingSend(r)
  <2>1. OwnOnly(r, outstanding_collection'[r])
    BY <1>6, <1>8 DEF RemoveRacingSend, RemoveIf
  <2>2. PICK i \in Places(list, Current(r).uniqueId) :
          \E copy \in TornCopies(list, i) : Group!Multicast(r, copy)
    BY <1>8 DEF RemoveRacingSend
  <2>3. PICK copy \in TornCopies(list, i) : Group!Multicast(r, copy)
    BY <2>2
  <2>4. OwnOnly(r, copy)
    BY <1>1, OwnCopies
  <2>5. copy \in Seq(Slot)
    BY <1>1, TornCopyType
  <2>6. /\ \A j \in DOMAIN submitted'[r] : OwnOnly(r, submitted'[r][j])
        /\ membership'[r] = "member"
    BY <2>3, <2>4, <2>5, OwnSubmitted DEF TypeOK
  <2> QED
    BY <2>1, <2>6, SenderMember
<1> QED
  BY <1>3, <1>4, <1>5, <1>7, <1>8

\* Everything but the daemons' ordering is a step of one client.
ClientStep(r) ==
  \/ \E c \in UserCommands : ProcessCommand(r, c)
  \/ CleanHistory(r) \/ SendOutstanding(r) \/ Listen(r) \/ Race(r)
  \/ Join(r) \/ Disconnect(r)

LEMMA OthersUntouched ==
  ASSUME TypeOK, NEW r \in Replicas, ClientStep(r)
  PROVE  /\ UNCHANGED log /\ raced \subseteq raced'
         /\ \A s \in Replicas \ {r} : Untouched(s)
<1> USE DEF Untouched, TypeOK, FieldsOK, Group!TypeOK
<1> DEFINE Goal == /\ UNCHANGED log /\ raced \subseteq raced'
                   /\ \A s \in Replicas \ {r} : Untouched(s)
<1>1. ASSUME NEW c \in UserCommands, ProcessCommand(r, c) PROVE Goal
  BY <1>1 DEF ProcessCommand, CountTransaction
<1>2. CASE CleanHistory(r)
  BY <1>2 DEF CleanHistory
<1>3. CASE SendOutstanding(r)
  BY <1>3 DEF SendOutstanding, Group!Multicast
<1>4. CASE ReceiveMessage(r)
  BY <1>4 DEF ReceiveMessage, Group!Deliver
<1>5. CASE RemoveLocal(r)
  BY <1>5 DEF RemoveLocal, RemoveIf
<1>6. CASE RemoveThrows(r) \/ ParseThrows(r)
  BY <1>6 DEF RemoveThrows, ParseThrows, ListenerDies
<1>7. CASE SkipTransaction(r)
  BY <1>7 DEF SkipTransaction, NextTransaction
<1>8. ASSUME NEW list, ExecuteOnto(r, list) PROVE Goal
  BY <1>8 DEF ExecuteOnto, NextTransaction
<1>9. ASSUME NEW c \in UserCommands, RemoveRacingAddThrows(r, c) PROVE Goal
  BY <1>9 DEF RemoveRacingAddThrows, CountTransaction, ListenerDies
<1>10. ASSUME NEW c \in UserCommands, RemoveRacingAddTears(r, c) PROVE Goal
  BY <1>10 DEF RemoveRacingAddTears, CountTransaction
<1>11. CASE RemoveRacingSend(r)
  BY <1>11 DEF RemoveRacingSend, RemoveIf, Group!Multicast
<1>12. CASE CleanRacingCheck(r)
  BY <1>12 DEF CleanRacingCheck, ListenerDies
<1>13. CASE Join(r)
  BY <1>13 DEF Join, Group!Join
<1>14. CASE Disconnect(r)
  BY <1>14 DEF Disconnect, Group!Disconnect
<1> QED
  BY <1>1, <1>2, <1>3, <1>4, <1>5, <1>6, <1>7, <1>8, <1>9, <1>10, <1>11, <1>12, <1>13, <1>14
     DEF ClientStep, Listen, Race, ExecuteTransaction, ExecuteRacingClean

LEMMA SenderOther ==
  ASSUME TypeOK, NEW r \in Replicas, Sender(r),
         \/ CleanHistory(r) \/ ReceiveMessage(r) \/ RemoveThrows(r) \/ ParseThrows(r)
         \/ SkipTransaction(r) \/ ExecuteTransaction(r) \/ ExecuteRacingClean(r)
         \/ CleanRacingCheck(r) \/ Join(r) \/ Disconnect(r)
  PROVE  Sender(r)'
<1>1. /\ OwnOnly(r, outstanding_collection[r])
      /\ \A j \in DOMAIN submitted[r] : OwnOnly(r, submitted[r][j])
  BY DEF Sender
<1>2. CASE CleanHistory(r)
  BY <1>2, SenderKept DEF CleanHistory, InGroup
<1>3. CASE ReceiveMessage(r)
  BY <1>3, SenderKept DEF ReceiveMessage, Group!Deliver
<1>4. CASE RemoveThrows(r) \/ ParseThrows(r)
  BY <1>4, SenderKept DEF RemoveThrows, ParseThrows, InGroup
<1>5. CASE SkipTransaction(r)
  BY <1>5, SenderKept DEF SkipTransaction, InGroup
<1>6. ASSUME NEW list, ExecuteOnto(r, list) PROVE Sender(r)'
  BY <1>6, SenderKept DEF ExecuteOnto, InGroup
<1>7. CASE CleanRacingCheck(r)
  BY <1>7, SenderKept DEF CleanRacingCheck, InGroup
<1>8. CASE Join(r)
  <2>1. membership'[r] # "outside" /\ UNCHANGED <<outstanding_collection, submitted>>
    BY <1>8 DEF Join, Group!Join, TypeOK, Group!TypeOK
  <2> QED
    BY <1>1, <2>1, SenderMember
<1>9. CASE Disconnect(r)
  <2>1. membership'[r] # "outside" /\ UNCHANGED outstanding_collection
    BY <1>9 DEF Disconnect, Group!Disconnect, TypeOK, Group!TypeOK
  <2>2. PICK k \in 0..Len(submitted[r]) :
          submitted' = [submitted EXCEPT ![r] = SubSeq(submitted[r], 1, k)]
    BY <1>9 DEF Disconnect, Group!Disconnect
  <2>3. submitted[r] \in Seq(Seq(Slot)) /\ submitted'[r] = SubSeq(submitted[r], 1, k)
    BY <2>2 DEF TypeOK, Group!TypeOK
  <2>4. /\ DOMAIN submitted'[r] = 1..k /\ Len(submitted[r]) \in Nat
        /\ \A j \in 1..k : submitted'[r][j] = submitted[r][j]
        /\ DOMAIN submitted[r] = 1..Len(submitted[r])
    BY <2>3
  <2>5. \A j \in DOMAIN submitted'[r] : OwnOnly(r, submitted'[r][j])
    BY <1>1, <2>4
  <2> QED
    BY <1>1, <2>1, <2>5, SenderMember
<1> QED
  BY <1>2, <1>3, <1>4, <1>5, <1>6, <1>7, <1>8, <1>9
     DEF ExecuteTransaction, ExecuteRacingClean

LEMMA SenderStep ==
  ASSUME TypeOK, NEW r \in Replicas, ClientStep(r), \A s \in Replicas : Sender(s)
  PROVE  \A s \in Replicas : Sender(s)'
<1>1. Sender(r)'
  BY SenderSteps, SenderOther DEF ClientStep, Listen, Race
<1>2. ASSUME NEW s \in Replicas, s # r PROVE Sender(s)'
  BY <1>2, OthersUntouched, SenderKept DEF Untouched
<1> QED
  BY <1>1, <1>2

\* What Order does to the log and to the queue of r.
LEMMA OrderLog ==
  ASSUME TypeOK, NEW r \in Replicas, Order(r)
  PROVE  /\ submitted[r] \in Seq(Seq(Slot)) /\ 1 \in DOMAIN submitted[r]
         /\ Len(log) \in Nat /\ DOMAIN log = 1..Len(log)
         /\ Len(log') = Len(log) + 1 /\ DOMAIN log' = 1..(Len(log) + 1)
         /\ \A m \in 1..Len(log) : log'[m] = log[m]
         /\ log'[Len(log) + 1] = submitted[r][1]
         /\ submitted[r][1] \in Seq(Slot)
         /\ \A j \in DOMAIN submitted'[r] :
              j + 1 \in DOMAIN submitted[r] /\ submitted'[r][j] = submitted[r][j + 1]
         /\ \A s \in Replicas \ {r} : submitted'[s] = submitted[s]
         /\ UNCHANGED <<delivered, membership, accountVars, listenerVars, enqueueVars,
                        schedulerVars, raced>>
<1>1. /\ submitted[r] \in Seq(Seq(Slot)) /\ submitted[r] # <<>>
      /\ log \in Seq(Seq(Slot)) /\ log' = Append(log, Head(submitted[r]))
      /\ submitted'[r] = Tail(submitted[r])
      /\ \A s \in Replicas \ {r} : submitted'[s] = submitted[s]
      /\ UNCHANGED <<delivered, membership, accountVars, listenerVars, enqueueVars,
                     schedulerVars, raced>>
  BY DEF Order, Group!Order, TypeOK, Group!TypeOK
<1>2. /\ 1 \in DOMAIN submitted[r] /\ Head(submitted[r]) = submitted[r][1]
      /\ submitted[r][1] \in Seq(Slot)
  BY <1>1
<1>3. \A j \in DOMAIN Tail(submitted[r]) :
        j + 1 \in DOMAIN submitted[r] /\ Tail(submitted[r])[j] = submitted[r][j + 1]
  BY <1>1
<1>4. /\ Len(log) \in Nat /\ DOMAIN log = 1..Len(log)
      /\ Len(log') = Len(log) + 1 /\ DOMAIN log' = 1..(Len(log) + 1)
      /\ \A m \in 1..Len(log) : log'[m] = log[m]
      /\ log'[Len(log) + 1] = submitted[r][1]
  BY <1>1, <1>2
<1> QED
  BY <1>1, <1>2, <1>3, <1>4

LEMMA SenderOrder ==
  ASSUME TypeOK, NEW r \in Replicas, Order(r), \A s \in Replicas : Sender(s)
  PROVE  \A s \in Replicas : Sender(s)'
<1> SUFFICES ASSUME NEW s \in Replicas PROVE Sender(s)'
  OBVIOUS
<1>1. /\ Sender(s) /\ Sender(r)
      /\ UNCHANGED <<outstanding_counter, outstanding_collection, membership, done>>
  BY OrderLog
<1>2. OwnOnly(r, submitted[r][1])
  BY <1>1, OrderLog DEF Sender
<1>3. \A j \in DOMAIN submitted'[s] : OwnOnly(s, submitted'[s][j])
  BY <1>1, OrderLog DEF Sender
<1>4. membership[s] = "outside" => s # r
  BY <1>1, OrderLog DEF Sender
<1>5. membership[s] = "outside" => submitted'[s] = <<>> /\ NotInLog(s)'
  <2> SUFFICES ASSUME membership[s] = "outside", NEW m \in DOMAIN log', NEW i \in DOMAIN log'[m]
               PROVE  ~Own(s, log'[m][i]) /\ submitted'[s] = <<>>
    <3>1. (membership[s] = "outside") => submitted'[s] = <<>>
      BY <1>1, <1>4, OrderLog DEF Sender
    <3> QED
      BY <3>1 DEF NotInLog, Own
  <2>1. CASE m \in 1..Len(log)
    BY <1>1, <1>4, <2>1, OrderLog DEF Sender, NotInLog
  <2>2. CASE m = Len(log) + 1
    BY <1>1, <1>2, <1>4, <2>2, OrderLog DEF Sender, OwnOnly, Own
  <2> QED
    BY <2>1, <2>2, OrderLog
<1> QED
  BY <1>1, <1>3, <1>5 DEF Sender, OwnOnly, Own

-----------------------------------------------------------------------------
(* A list that no race has torn. *)

LEMMA ClientTypes ==
  ASSUME TypeOK, NEW s \in Replicas
  PROVE  /\ outstanding_counter[s] \in Nat /\ outstanding_collection[s] \in Seq(Slot)
         /\ Len(outstanding_collection[s]) \in Nat
         /\ DOMAIN outstanding_collection[s] = 1..Len(outstanding_collection[s])
         /\ First(s) \in Int
         /\ outstanding_counter[s] = First(s) + Len(outstanding_collection[s])
         /\ submitted[s] \in Seq(Seq(Slot))
         /\ delivered[s] \in Nat /\ done[s] \in Nat /\ delivered[s] <= Len(log)
         /\ history[s] \in Seq(Transaction)
         /\ log \in Seq(Seq(Slot)) /\ Len(log) \in Nat /\ DOMAIN log = 1..Len(log)
<1>1. /\ outstanding_counter[s] \in Nat /\ outstanding_collection[s] \in Seq(Slot)
      /\ submitted[s] \in Seq(Seq(Slot)) /\ history[s] \in Seq(Transaction)
      /\ delivered[s] \in Nat /\ done[s] \in Nat /\ delivered[s] <= Len(log)
      /\ log \in Seq(Seq(Slot))
  BY DEF TypeOK, FieldsOK, PositionOK, Group!TypeOK
<1>2. /\ Len(outstanding_collection[s]) \in Nat
      /\ DOMAIN outstanding_collection[s] = 1..Len(outstanding_collection[s])
      /\ Len(log) \in Nat /\ DOMAIN log = 1..Len(log)
  BY <1>1
<1> QED
  BY <1>1, <1>2 DEF First

\* A run stays one while the client creates transactions and is handed them.
LEMMA RunKept ==
  ASSUME NEW s, NEW list, IsRun(s, list),
         First(s) \in Int, First(s)' \in Int, First(s) <= First(s)',
         outstanding_counter[s] \in Nat, outstanding_counter'[s] \in Nat,
         outstanding_counter[s] <= outstanding_counter'[s], Len(list) \in Nat
  PROVE  \E a \in 0..First(s)' :
           /\ a + Len(list) <= outstanding_counter'[s]
           /\ \A i \in DOMAIN list : list[i] # Hole /\ list[i].uniqueId = <<s, a + i - 1>>
<1>1. PICK a \in 0..First(s) :
        /\ a + Len(list) <= outstanding_counter[s]
        /\ \A i \in DOMAIN list : list[i] # Hole /\ list[i].uniqueId = <<s, a + i - 1>>
  BY DEF IsRun
<1>2. a \in 0..First(s)' /\ a + Len(list) <= outstanding_counter'[s]
  BY <1>1
<1> QED
  BY <1>1, <1>2

LEMMA SubmittedKept ==
  ASSUME TypeOK, TypeOK', NEW s \in Replicas, SubmittedRuns(s),
         First(s) <= First(s)', outstanding_counter[s] <= outstanding_counter'[s],
         \A j \in DOMAIN submitted'[s] :
           \E k \in DOMAIN submitted[s] : submitted'[s][j] = submitted[s][k]
  PROVE  SubmittedRuns(s)'
<1> SUFFICES ASSUME NEW j \in DOMAIN submitted'[s]
             PROVE  \E a \in 0..First(s)' :
                      /\ a + Len(submitted'[s][j]) <= outstanding_counter'[s]
                      /\ \A i \in DOMAIN submitted'[s][j] :
                           /\ submitted'[s][j][i] # Hole
                           /\ submitted'[s][j][i].uniqueId = <<s, a + i - 1>>
  BY DEF SubmittedRuns, IsRun
<1>1. PICK k \in DOMAIN submitted[s] : submitted'[s][j] = submitted[s][k]
  OBVIOUS
<1>2. Len(submitted[s][k]) \in Nat
  BY ClientTypes
<1>3. IsRun(s, submitted[s][k])
  BY DEF SubmittedRuns
<1>4. First(s) \in Int /\ outstanding_counter[s] \in Nat
  BY ClientTypes
<1>5. First(s)' \in Int /\ outstanding_counter'[s] \in Nat
  BY DEF First, TypeOK, FieldsOK
<1>6. PICK list : list = submitted[s][k]
  OBVIOUS
<1>7. IsRun(s, list) /\ Len(list) \in Nat
  BY <1>2, <1>3, <1>6
<1>8. \E a \in 0..First(s)' :
        /\ a + Len(list) <= outstanding_counter'[s]
        /\ \A i \in DOMAIN list : list[i] # Hole /\ list[i].uniqueId = <<s, a + i - 1>>
  BY <1>4, <1>5, <1>7, RunKept
<1> QED
  BY <1>1, <1>6, <1>8

LEMMA InOrderKept ==
  ASSUME NEW s, InOrder(s), UNCHANGED log
  PROVE  InOrder(s)'
  BY DEF InOrder, At, Own

LEMMA LogRunsKept ==
  ASSUME TypeOK, TypeOK', NEW s \in Replicas, LogRuns(s), UNCHANGED log,
         First(s) <= First(s)', outstanding_counter[s] <= outstanding_counter'[s]
  PROVE  LogRuns(s)'
<1> SUFFICES ASSUME NEW m \in DOMAIN log, NEW i \in DOMAIN log[m], Own(s, log[m][i])
             PROVE  \E a \in 0..First(s)' :
                      /\ a + Len(log[m]) <= outstanding_counter'[s]
                      /\ \A j \in DOMAIN log[m] :
                           /\ log[m][j] # Hole
                           /\ log[m][j].uniqueId = <<s, a + j - 1>>
  BY DEF LogRuns, IsRun, Own
<1>1. Len(log[m]) \in Nat /\ IsRun(s, log[m])
  BY LogType DEF LogRuns
<1>2. First(s) \in Int /\ outstanding_counter[s] \in Nat
  BY ClientTypes
<1>3. First(s)' \in Int /\ outstanding_counter'[s] \in Nat
  BY DEF First, TypeOK, FieldsOK
<1> QED
  BY <1>1, <1>2, <1>3, RunKept

\* A step that moves neither the listener nor the front of the list, though
\* the listener may end with a transaction in hand.
LEMMA TidyKept ==
  ASSUME TypeOK, TypeOK', NEW s \in Replicas, Tidy(s), UNCHANGED log,
         ListIsRun(s)', SubmittedRuns(s)', First(s)' = First(s),
         outstanding_counter[s] <= outstanding_counter'[s],
         delivered'[s] = delivered[s], done'[s] = done[s], history'[s] = history[s],
         \/ pc'[s] = pc[s]
         \/ pc'[s] = "dead" /\ pc[s] \in {"remove", "execute"}
  PROVE  Tidy(s)'
<1>1. LogRuns(s)'
  BY ClientTypes, LogRunsKept DEF Tidy
<1>2. PassedBeforeFirst(s)'
  BY DEF Tidy, PassedBeforeFirst, Passed, Own
<1>3. BeforeFirstSeen(s)'
  <2> SUFFICES ASSUME NEW n \in 0..(First(s) - 1)
               PROVE  \E m \in DOMAIN log : \E i \in DOMAIN log[m] :
                        Seen(s, m, i)' /\ At(m, i, <<s, n>>)'
    BY DEF BeforeFirstSeen
  <2>1. PICK m \in DOMAIN log : \E i \in DOMAIN log[m] : Seen(s, m, i) /\ At(m, i, <<s, n>>)
    BY DEF Tidy, BeforeFirstSeen
  <2>2. PICK i \in DOMAIN log[m] : Seen(s, m, i) /\ At(m, i, <<s, n>>)
    BY <2>1
  <2> QED
    BY <2>2 DEF Seen, At
<1>4. InOrder(s)'
  BY InOrderKept DEF Tidy
<1>5. NothingLeft(s)'
  BY DEF Tidy, NothingLeft, MessageLen, Own
<1>6. HistoryCovers(s)'
  BY DEF Tidy, HistoryCovers, Done, Own, Places
<1> QED
  BY <1>1, <1>2, <1>3, <1>4, <1>5, <1>6 DEF Tidy

\* add (150) at the end of the list, by the command thread.
LEMMA TidyEnqueue ==
  ASSUME TypeOK, TypeOK', NEW r \in Replicas, Tidy(r), NEW c \in UserCommands,
         ProcessCommand(r, c) \/ RemoveRacingAddThrows(r, c)
  PROVE  Tidy(r)'
<1> DEFINE list == outstanding_collection[r]
           tx == NewTransaction(r, c)
<1>1. /\ outstanding_collection'[r] = Append(list, tx)
      /\ outstanding_counter'[r] = outstanding_counter[r] + 1
      /\ UNCHANGED <<log, submitted, delivered, done, history>>
      /\ \/ pc'[r] = pc[r]
         \/ pc'[r] = "dead" /\ pc[r] \in {"remove", "execute"}
  BY DEF ProcessCommand, RemoveRacingAddThrows, CountTransaction, Enqueued, ListenerDies,
     TypeOK, FieldsOK
<1>2. /\ list \in Seq(Slot) /\ Len(list) \in Nat /\ outstanding_counter[r] \in Nat
      /\ DOMAIN list = 1..Len(list) /\ First(r) \in Int
      /\ outstanding_counter[r] = First(r) + Len(list)
  BY ClientTypes
<1>3. /\ Len(Append(list, tx)) = Len(list) + 1
      /\ DOMAIN Append(list, tx) = 1..(Len(list) + 1)
      /\ \A i \in 1..Len(list) : Append(list, tx)[i] = list[i]
      /\ Append(list, tx)[Len(list) + 1] = tx
  BY <1>2
<1>4. First(r)' = First(r)
  <2>1. First(r)' = outstanding_counter'[r] - Len(outstanding_collection'[r])
    BY DEF First
  <2>2. First(r)' = (outstanding_counter[r] + 1) - (Len(list) + 1)
    BY <1>1, <1>3, <2>1
  <2> QED
    BY <1>2, <2>2
<1>5. tx # Hole /\ tx.uniqueId = <<r, First(r) + (Len(list) + 1) - 1>>
  <2>1. tx \in Transaction
    BY EnqueuedType
  <2>2. tx.uniqueId = <<r, outstanding_counter[r]>>
    BY DEF NewTransaction
  <2>3. First(r) + (Len(list) + 1) - 1 = outstanding_counter[r]
    BY <1>2
  <2> QED
    BY <2>1, <2>2, <2>3, ClientAssumption
<1>6. ListIsRun(r)'
  <2>1. /\ Len(list) <= outstanding_counter[r]
        /\ \A i \in 1..Len(list) : list[i] # Hole /\ list[i].uniqueId = <<r, First(r) + i - 1>>
    BY <1>2 DEF Tidy, ListIsRun
  <2>2. Len(list) + 1 <= outstanding_counter[r] + 1
    BY <1>2, <2>1
  <2> HIDE DEF list, tx
  <2>3. ASSUME NEW i \in 1..(Len(list) + 1)
        PROVE  /\ Append(list, tx)[i] # Hole
               /\ Append(list, tx)[i].uniqueId = <<r, First(r) + i - 1>>
    <3>1. CASE i \in 1..Len(list)
      BY <1>3, <2>1, <3>1
    <3>2. CASE i = Len(list) + 1
      BY <1>3, <1>5, <3>2
    <3> QED
      BY <1>2, <3>1, <3>2
  <2> QED
    BY <1>1, <1>3, <1>4, <2>2, <2>3 DEF ListIsRun
<1>7. SubmittedRuns(r)'
  BY <1>1, <1>2, <1>4, SubmittedKept DEF Tidy
<1> QED
  BY <1>1, <1>2, <1>4, <1>6, <1>7, TidyKept

\* The message the scheduler multicasts is the list (202-222).
LEMMA TidySend ==
  ASSUME TypeOK, TypeOK', NEW r \in Replicas, Tidy(r), SendOutstanding(r)
  PROVE  Tidy(r)'
<1> DEFINE list == outstanding_collection[r]
<1>1. /\ submitted'[r] = Append(submitted[r], list)
      /\ UNCHANGED <<log, delivered, done, history, pc, outstanding_counter,
                     outstanding_collection>>
  BY DEF SendOutstanding, Group!Multicast, Content, TypeOK, Group!TypeOK
<1>2. /\ list \in Seq(Slot) /\ Len(list) \in Nat /\ outstanding_counter[r] \in Nat
      /\ DOMAIN list = 1..Len(list) /\ First(r) \in Int
      /\ outstanding_counter[r] = First(r) + Len(list)
      /\ submitted[r] \in Seq(Seq(Slot))
  BY ClientTypes
<1>3. ListIsRun(r)' /\ First(r)' = First(r)
  BY <1>1 DEF Tidy, ListIsRun, First
<1>4. IsRun(r, list)
  <2>1. First(r) \in 0..First(r) /\ First(r) + Len(list) <= outstanding_counter[r]
    BY <1>2 DEF Tidy, ListIsRun
  <2> QED
    BY <2>1 DEF Tidy, ListIsRun, IsRun
<1>5. /\ DOMAIN submitted'[r] = 1..(Len(submitted[r]) + 1) /\ Len(submitted[r]) \in Nat
      /\ \A j \in 1..Len(submitted[r]) : submitted'[r][j] = submitted[r][j]
      /\ submitted'[r][Len(submitted[r]) + 1] = list
      /\ DOMAIN submitted[r] = 1..Len(submitted[r])
  BY <1>1, <1>2
<1>6. \A j \in DOMAIN submitted'[r] : IsRun(r, submitted'[r][j])
  BY <1>4, <1>5 DEF Tidy, SubmittedRuns
<1>7. SubmittedRuns(r)'
  BY <1>1, <1>3, <1>6 DEF SubmittedRuns, IsRun
<1> QED
  BY <1>1, <1>2, <1>3, <1>7, TidyKept

\* Where the list, the messages and the listener stay: the commands and the
\* failures.
LEMMA TidyStill ==
  ASSUME TypeOK, TypeOK', NEW s \in Replicas, Tidy(s), UNCHANGED log,
         outstanding_counter'[s] = outstanding_counter[s],
         outstanding_collection'[s] = outstanding_collection[s],
         \A j \in DOMAIN submitted'[s] :
           \E k \in DOMAIN submitted[s] : submitted'[s][j] = submitted[s][k],
         delivered'[s] = delivered[s], done'[s] = done[s], history'[s] = history[s],
         \/ pc'[s] = pc[s]
         \/ pc'[s] = "dead" /\ pc[s] \in {"remove", "execute"}
  PROVE  Tidy(s)'
<1>1. First(s)' = First(s) /\ ListIsRun(s)'
  BY DEF Tidy, ListIsRun, First
<1>2. outstanding_counter[s] <= outstanding_counter'[s] /\ First(s) <= First(s)'
  BY <1>1, ClientTypes
<1>3. SubmittedRuns(s)'
  BY <1>1, <1>2, SubmittedKept DEF Tidy
<1> QED
  BY <1>1, <1>2, <1>3, TidyKept

LEMMA TidyQuiet ==
  ASSUME TypeOK, TypeOK', NEW r \in Replicas, Tidy(r),
         \/ CleanHistory(r) \/ CleanRacingCheck(r) \/ RemoveThrows(r) \/ ParseThrows(r)
         \/ Disconnect(r)
  PROVE  Tidy(r)'
<1>1. CASE CleanHistory(r)
  BY <1>1, TidyStill DEF CleanHistory
<1>2. CASE CleanRacingCheck(r) \/ RemoveThrows(r) \/ ParseThrows(r)
  <2>1. /\ UNCHANGED <<log, outstanding_counter, outstanding_collection, submitted,
                       delivered, done, history>>
        /\ pc'[r] = "dead" /\ pc[r] \in {"remove", "execute"}
    BY <1>2 DEF CleanRacingCheck, RemoveThrows, ParseThrows, ListenerDies, TypeOK, FieldsOK
  <2> QED
    BY <2>1, TidyStill
<1>3. CASE Disconnect(r)
  <2>1. PICK k \in 0..Len(submitted[r]) :
          submitted' = [submitted EXCEPT ![r] = SubSeq(submitted[r], 1, k)]
    BY <1>3 DEF Disconnect, Group!Disconnect
  <2>2. submitted[r] \in Seq(Seq(Slot)) /\ submitted'[r] = SubSeq(submitted[r], 1, k)
    BY <2>1 DEF TypeOK, Group!TypeOK
  <2>3. \A j \in DOMAIN submitted'[r] :
          j \in DOMAIN submitted[r] /\ submitted'[r][j] = submitted[r][j]
    BY <2>2
  <2>4. UNCHANGED <<log, outstanding_counter, outstanding_collection, delivered, done,
                    history, pc>>
    BY <1>3 DEF Disconnect, Group!Disconnect
  <2> QED
    BY <2>3, <2>4, TidyStill
<1> QED
  BY <1>1, <1>2, <1>3

\* The next message (225): what was left of the last is not the client's.
LEMMA TidyReceive ==
  ASSUME TypeOK, TypeOK', NEW r \in Replicas, Tidy(r), ReceiveMessage(r)
  PROVE  Tidy(r)'
<1> DEFINE d == delivered[r]
<1>1. /\ UNCHANGED <<log, submitted, history, outstanding_counter, outstanding_collection>>
      /\ pc[r] = "receive" /\ delivered'[r] = d + 1 /\ done'[r] = 0 /\ d < Len(log)
      /\ pc'[r] = IF log[d + 1] = <<>> THEN "receive" ELSE "remove"
  BY DEF ReceiveMessage, Group!Deliver, TypeOK, FieldsOK, Group!TypeOK
<1>2. d \in Nat /\ done[r] \in Nat
  BY ClientTypes
<1>3. First(r)' = First(r) /\ ListIsRun(r)' /\ First(r) \in Int
  BY <1>1, ClientTypes DEF Tidy, ListIsRun, First
<1>4. SubmittedRuns(r)' /\ LogRuns(r)'
  BY <1>1, <1>3, ClientTypes, SubmittedKept, LogRunsKept DEF Tidy
<1>5. ASSUME NEW m \in DOMAIN log, NEW i \in DOMAIN log[m], m < d + 1, Own(r, log[m][i])
      PROVE  Passed(r, m, i) /\ Done(r, m, i)
  <2>1. m \in Nat /\ i \in Nat /\ i <= Len(log[m]) /\ m > 0 /\ MessageLen(m) = Len(log[m])
    BY LogType
  <2>2. CASE m < d
    BY <2>2 DEF Passed, Done
  <2>3. CASE m = d
    <3>1. done[r] = Len(log[d])
      BY <1>1, <1>5, <2>1, <2>3 DEF Tidy, NothingLeft
    <3> QED
      BY <2>1, <2>3, <3>1 DEF Passed, Done
  <2> QED
    BY <1>2, <1>5, <2>1, <2>2, <2>3
<1>6. \A m \in DOMAIN log : \A i \in DOMAIN log[m] :
        /\ Passed(r, m, i)' => m < d + 1
        /\ Done(r, m, i)' => m < d + 1
        /\ Seen(r, m, i) => Seen(r, m, i)'
  <2> SUFFICES ASSUME NEW m \in DOMAIN log, NEW i \in DOMAIN log[m]
               PROVE  /\ Passed(r, m, i)' => m < d + 1
                      /\ Done(r, m, i)' => m < d + 1
                      /\ Seen(r, m, i) => Seen(r, m, i)'
    OBVIOUS
  <2>1. m \in Nat /\ i \in Nat /\ i > 0
    BY LogType
  <2>2. pc'[r] # "execute"
    BY <1>1
  <2> QED
    BY <1>1, <1>2, <2>1, <2>2 DEF Passed, Done, Seen
<1>7. PassedBeforeFirst(r)'
  BY <1>1, <1>3, <1>5, <1>6 DEF Tidy, PassedBeforeFirst, Own
<1>8. BeforeFirstSeen(r)'
  <2> SUFFICES ASSUME NEW n \in 0..(First(r) - 1)
               PROVE  \E m \in DOMAIN log : \E i \in DOMAIN log[m] :
                        Seen(r, m, i)' /\ At(m, i, <<r, n>>)
    BY <1>1, <1>3 DEF BeforeFirstSeen, At
  <2>1. PICK m \in DOMAIN log : \E i \in DOMAIN log[m] : Seen(r, m, i) /\ At(m, i, <<r, n>>)
    BY DEF Tidy, BeforeFirstSeen
  <2> QED
    BY <1>6, <2>1
<1>9. InOrder(r)'
  BY <1>1, InOrderKept DEF Tidy
<1>10. NothingLeft(r)'
  <2>1. pc'[r] = "receive" => log[d + 1] = <<>>
    BY <1>1
  <2> QED
    BY <1>1, <1>2, <2>1 DEF NothingLeft, MessageLen
<1>11. HistoryCovers(r)'
  BY <1>1, <1>5, <1>6 DEF Tidy, HistoryCovers, Own, Places
<1> QED
  BY <1>3, <1>4, <1>7, <1>8, <1>9, <1>10, <1>11 DEF Tidy

\* The list is r's transactions from the n-th on.
RunFrom(r, n, list) ==
  \A i \in DOMAIN list : list[i] # Hole /\ list[i].uniqueId = <<r, n + i - 1>>

\* removeIf on a run: the first transaction goes, or none.
LEMMA WithoutHead ==
  ASSUME NEW r, NEW n \in Nat, NEW list \in Seq(Slot), list # <<>>, RunFrom(r, n, list),
         NEW rest \in Without(list, <<r, n>>)
  PROVE  rest = Tail(list)
<1>1. Len(list) \in Nat /\ DOMAIN list = 1..Len(list) /\ Len(list) > 0
  OBVIOUS
<1>2. \A i \in DOMAIN list : list[i].uniqueId = <<r, n>> <=> i = 1
  BY <1>1 DEF RunFrom
<1>3. Places(list, <<r, n>>) = {1}
  BY <1>1, <1>2 DEF Places, RunFrom
<1>4. PICK p \in Places(list, <<r, n>>) \X Places(list, <<r, n>>) :
        rest = SubSeq(list, 1, p[1] - 1) \o SubSeq(list, p[2] + 1, Len(list))
  BY <1>3 DEF Without
<1>5. p[1] = 1 /\ p[2] = 1
  BY <1>3
<1>6. rest = SubSeq(list, 1, 0) \o SubSeq(list, 2, Len(list))
  BY <1>4, <1>5
<1>7. SubSeq(list, 1, 0) = <<>> /\ SubSeq(list, 2, Len(list)) \in Seq(Slot)
  BY <1>1, SubSeqProperties
<1>8. SubSeq(list, 2, Len(list)) = Tail(list)
  BY <1>1
<1> QED
  BY <1>6, <1>7, <1>8

LEMMA WithoutNone ==
  ASSUME NEW r, NEW n \in Nat, NEW list \in Seq(Slot), RunFrom(r, n, list),
         NEW uniqueId, \A j \in Nat : j >= n => uniqueId # <<r, j>>,
         NEW rest \in Without(list, uniqueId)
  PROVE  rest = list
<1>1. \A i \in DOMAIN list : n + i - 1 \in Nat /\ n + i - 1 >= n
  OBVIOUS
<1>2. Places(list, uniqueId) = {}
  BY <1>1 DEF Places, RunFrom
<1> QED
  BY <1>2 DEF Without

\* A transaction of the client that it has in hand is one it no longer
\* broadcasts, or the first it broadcasts.
LEMMA InHand ==
  ASSUME TypeOK, NEW r \in Replicas, Tidy(r), pc[r] = "remove", Own(r, Current(r))
  PROVE  \E n \in Nat : /\ Current(r).uniqueId = <<r, n>> /\ n <= First(r)
                        /\ n < outstanding_counter[r]
<1> DEFINE d == delivered[r]
           e == done[r] + 1
<1>1. /\ d \in DOMAIN log /\ log[d] \in Seq(Slot) /\ e \in DOMAIN log[d]
      /\ Current(r) = log[d][e] /\ done[r] \in Nat /\ First(r) \in Int
      /\ DOMAIN log[d] = 1..Len(log[d]) /\ Len(log[d]) \in Nat
  BY CurrentType, ClientTypes DEF Current
<1>2. IsRun(r, log[d])
  BY <1>1 DEF Tidy, LogRuns
<1>3. PICK a \in 0..First(r) :
        /\ a + Len(log[d]) <= outstanding_counter[r]
        /\ \A i \in DOMAIN log[d] : log[d][i] # Hole /\ log[d][i].uniqueId = <<r, a + i - 1>>
  BY <1>2 DEF IsRun
<1>4. Current(r).uniqueId = <<r, a + done[r]>> /\ a + done[r] \in Nat
  <2>1. Current(r).uniqueId = <<r, a + e - 1>>
    BY <1>1, <1>3
  <2>2. a \in Nat /\ done[r] \in Nat
    BY <1>1
  <2>3. a + e - 1 = a + done[r] /\ a + done[r] \in Nat
    BY <2>2
  <2> QED
    BY <2>1, <2>3
<1>5. a + done[r] < outstanding_counter[r]
  <2>1. done[r] + 1 <= Len(log[d]) /\ outstanding_counter[r] \in Nat /\ a \in Nat
    BY <1>1, <1>3, ClientTypes
  <2> QED
    BY <1>1, <1>3, <2>1
<1>6. a + done[r] <= First(r)
  <2>1. CASE done[r] = 0
    BY <1>1, <1>3, <2>1
  <2>2. CASE done[r] > 0
    <3>1. done[r] \in DOMAIN log[d] /\ Passed(r, d, done[r])
      BY <1>1, <2>2 DEF Passed
    <3>2. Own(r, log[d][done[r]]) /\ log[d][done[r]].uniqueId = <<r, a + done[r] - 1>>
      BY <1>3, <3>1 DEF Own
    <3>3. log[d][done[r]].uniqueId[2] = a + done[r] - 1
      BY <3>2
    <3>4. log[d][done[r]].uniqueId[2] < First(r)
      BY <1>1, <3>1, <3>2 DEF Tidy, PassedBeforeFirst
    <3> QED
      BY <1>1, <1>3, <3>3, <3>4
  <2> QED
    BY <1>1, <2>1, <2>2
<1> QED
  BY <1>4, <1>5, <1>6

\* What removeIf (247) does to the list of a client no race has torn.
LEMMA RemovalTakesFirst ==
  ASSUME TypeOK, TypeOK', NEW r \in Replicas, Tidy(r), RemoveLocal(r)
  PROVE  /\ outstanding_counter' = outstanding_counter
         /\ First(r) <= First(r)' /\ First(r)' <= First(r) + 1
         /\ First(r)' = First(r) + 1 => At(delivered[r], done[r] + 1, <<r, First(r)>>)
         /\ ListIsRun(r)'
         /\ Own(r, Current(r)) => Current(r).uniqueId[2] < First(r)'
<1> DEFINE list == outstanding_collection[r]
           id == Current(r).uniqueId
<1>1. /\ list \in Seq(Slot) /\ Len(list) \in Nat /\ outstanding_counter[r] \in Nat
      /\ DOMAIN list = 1..Len(list) /\ First(r) \in Int
      /\ outstanding_counter[r] = First(r) + Len(list)
  BY ClientTypes
<1>2. /\ Len(list) <= outstanding_counter[r]
      /\ \A i \in DOMAIN list : list[i] # Hole /\ list[i].uniqueId = <<r, First(r) + i - 1>>
      /\ First(r) \in Nat
  BY <1>1 DEF Tidy, ListIsRun
<1>3. outstanding_counter' = outstanding_counter /\ pc[r] = "remove" /\ ~NullRead(r)
  BY DEF RemoveLocal
<1>4. PICK rest \in Without(list, id) :
        outstanding_collection' = [outstanding_collection EXCEPT ![r] = rest]
  BY DEF RemoveLocal, RemoveIf
<1>5. outstanding_collection'[r] = rest /\ First(r)' = outstanding_counter[r] - Len(rest)
  BY <1>3, <1>4 DEF TypeOK, FieldsOK, First
<1>6. rest \in Seq(Slot)
  BY <1>1, WithoutType
<1>7. RunFrom(r, First(r), list)
  BY <1>2 DEF RunFrom
<1>8. Current(r) # Hole /\ Current(r) = log[delivered[r]][done[r] + 1]
  BY <1>3 DEF NullRead, Current
<1>9. CASE Own(r, Current(r)) /\ id = <<r, First(r)>>
  <2>1. First(r) < outstanding_counter[r]
    <3>1. PICK n \in Nat : id = <<r, n>> /\ n < outstanding_counter[r]
      BY <1>3, <1>9, InHand
    <3> QED
      BY <1>9, <3>1
  <2>2. list # <<>>
    BY <1>1, <2>1
  <2>3. /\ Len(rest) = Len(list) - 1
        /\ \A i \in DOMAIN rest : i + 1 \in DOMAIN list /\ rest[i] = list[i + 1]
    <3>1. rest = Tail(list)
      BY <1>1, <1>2, <1>7, <1>9, <2>2, WithoutHead
    <3> QED
      BY <1>1, <2>2, <3>1
  <2>4. First(r)' = First(r) + 1
    BY <1>1, <1>5, <2>3
  <2>5. ListIsRun(r)'
    <3>1. \A i \in DOMAIN rest : i \in Nat
      BY <1>6
    <3>2. ASSUME NEW i \in DOMAIN rest
          PROVE  rest[i] # Hole /\ rest[i].uniqueId = <<r, First(r)' + i - 1>>
      <4>1. rest[i] # Hole /\ rest[i].uniqueId = <<r, First(r) + (i + 1) - 1>>
        BY <1>2, <2>3
      <4>2. First(r) + (i + 1) - 1 = First(r)' + i - 1
        BY <1>1, <2>4, <3>1
      <4> QED
        BY <4>1, <4>2
    <3>3. Len(rest) <= outstanding_counter[r]
      BY <1>1, <1>2, <2>3
    <3> QED
      BY <1>3, <1>5, <3>2, <3>3 DEF ListIsRun
  <2>6. id[2] = First(r)
    BY <1>9
  <2> QED
    BY <1>1, <1>3, <1>8, <1>9, <2>4, <2>5, <2>6 DEF At
<1>10. CASE ~(Own(r, Current(r)) /\ id = <<r, First(r)>>)
  <2>1. Own(r, Current(r)) => id[2] < First(r)
    <3>1. SUFFICES ASSUME Own(r, Current(r)) PROVE id[2] < First(r)
      OBVIOUS
    <3>2. PICK n \in Nat : id = <<r, n>> /\ n <= First(r)
      BY <1>3, <3>1, InHand
    <3> QED
      BY <1>1, <1>10, <3>1, <3>2
  <2>2. ASSUME NEW j \in Nat, j >= First(r) PROVE id # <<r, j>>
    <3>1. id = <<r, j>> => Own(r, Current(r)) /\ id[2] = j
      BY <1>8 DEF Own
    <3> QED
      BY <1>1, <2>1, <2>2, <3>1
  <2>3. rest = list
    BY <1>1, <1>2, <1>7, <2>2, WithoutNone
  <2>4. First(r)' = First(r)
    BY <1>1, <1>5, <2>3
  <2>5. ListIsRun(r)'
    BY <1>2, <1>3, <1>5, <2>3, <2>4 DEF ListIsRun
  <2> QED
    BY <1>1, <1>3, <2>1, <2>4, <2>5
<1> QED
  BY <1>9, <1>10

LEMMA TidyRemove ==
  ASSUME TypeOK, TypeOK', NEW r \in Replicas, Tidy(r), RemoveLocal(r)
  PROVE  Tidy(r)'
<1> DEFINE d == delivered[r]
           e == done[r] + 1
<1>1. /\ UNCHANGED <<log, submitted, delivered, done, history, outstanding_counter>>
      /\ pc[r] = "remove" /\ pc'[r] = "execute"
  BY DEF RemoveLocal, TypeOK, FieldsOK
<1>2. /\ First(r) <= First(r)' /\ First(r)' <= First(r) + 1
      /\ First(r)' = First(r) + 1 => At(d, e, <<r, First(r)>>)
      /\ ListIsRun(r)'
      /\ Own(r, log[d][e]) => log[d][e].uniqueId[2] < First(r)'
  <2>1. Current(r) = log[d][e]
    BY DEF Current
  <2>2. /\ First(r) <= First(r)' /\ First(r)' <= First(r) + 1
        /\ First(r)' = First(r) + 1 => At(d, e, <<r, First(r)>>)
        /\ ListIsRun(r)'
        /\ Own(r, Current(r)) => Current(r).uniqueId[2] < First(r)'
    BY RemovalTakesFirst
  <2> QED
    BY <2>1, <2>2
<1>3. First(r) \in Int /\ First(r)' \in Int /\ d \in Nat /\ done[r] \in Nat
  <2>1. First(r)' \in Int
    BY DEF First, TypeOK, FieldsOK
  <2> QED
    BY <2>1, ClientTypes
<1>4. d \in DOMAIN log /\ e \in DOMAIN log[d]
  BY <1>1, CurrentType, ClientTypes
<1>5. SubmittedRuns(r)' /\ LogRuns(r)'
  <2>1. outstanding_counter[r] <= outstanding_counter'[r]
    BY <1>1, ClientTypes
  <2>2. SubmittedRuns(r)'
    BY <1>1, <1>2, <2>1, SubmittedKept DEF Tidy
  <2>3. LogRuns(r)'
    BY <1>1, <1>2, <2>1, LogRunsKept DEF Tidy
  <2> QED
    BY <2>2, <2>3
<1>6. PassedBeforeFirst(r)'
  <2> SUFFICES ASSUME NEW m \in DOMAIN log, NEW i \in DOMAIN log[m],
                      Passed(r, m, i)', Own(r, log[m][i])
               PROVE  log[m][i].uniqueId[2] < First(r)'
    BY <1>1 DEF PassedBeforeFirst, Own
  <2>1. Passed(r, m, i) \/ (m = d /\ i = e)
    BY <1>1 DEF Passed
  <2>2. CASE Passed(r, m, i)
    <3>1. log[m][i].uniqueId[2] < First(r) /\ log[m][i].uniqueId[2] \in Nat
      BY <2>2, LogType DEF Tidy, PassedBeforeFirst, Own
    <3> QED
      BY <1>2, <1>3, <3>1
  <2> QED
    BY <1>2, <2>1, <2>2
<1>7. BeforeFirstSeen(r)'
  <2> SUFFICES ASSUME NEW n \in 0..(First(r)' - 1)
               PROVE  \E m \in DOMAIN log : \E i \in DOMAIN log[m] :
                        Seen(r, m, i)' /\ At(m, i, <<r, n>>)
    BY <1>1 DEF BeforeFirstSeen, At
  <2>1. CASE n \in 0..(First(r) - 1)
    <3>1. PICK m \in DOMAIN log : \E i \in DOMAIN log[m] : Seen(r, m, i) /\ At(m, i, <<r, n>>)
      BY <2>1 DEF Tidy, BeforeFirstSeen
    <3>2. PICK i \in DOMAIN log[m] : Seen(r, m, i) /\ At(m, i, <<r, n>>)
      BY <3>1
    <3>3. Seen(r, m, i)'
      BY <1>1, <3>2 DEF Seen
    <3> QED
      BY <3>2, <3>3
  <2>2. CASE n \notin 0..(First(r) - 1)
    <3>1. n = First(r) /\ First(r)' = First(r) + 1
      BY <1>2, <1>3, <2>2
    <3>2. PICK m \in DOMAIN log : m = d
      BY <1>4
    <3>3. PICK i \in DOMAIN log[m] : i = e
      BY <1>4, <3>2
    <3>4. Seen(r, m, i)'
      BY <1>1, <3>2, <3>3 DEF Seen
    <3>5. At(m, i, <<r, n>>)
      BY <1>2, <3>1, <3>2, <3>3
    <3> QED
      BY <3>4, <3>5
  <2> QED
    BY <2>1, <2>2
<1>8. InOrder(r)' /\ HistoryCovers(r)'
  <2>1. HistoryCovers(r)'
    BY <1>1 DEF Tidy, HistoryCovers, Own, Done, Places
  <2> QED
    BY <1>1, <2>1, InOrderKept DEF Tidy
<1>9. NothingLeft(r)'
  BY <1>1 DEF NothingLeft
<1> QED
  BY <1>2, <1>5, <1>6, <1>7, <1>8, <1>9 DEF Tidy

\* The end of a transaction (236): its place stays passed and becomes done.
LEMMA TidyNext ==
  ASSUME TypeOK, TypeOK', NEW r \in Replicas, Tidy(r), pc[r] = "execute", NextTransaction(r),
         UNCHANGED <<log, submitted, delivered, outstanding_counter, outstanding_collection>>,
         \A uniqueId : Places(history[r], uniqueId) # {} => Places(history'[r], uniqueId) # {},
         \/ Current(r).command.name \in {"getSyncedBalance", "other"}
         \/ Places(history'[r], Current(r).uniqueId) # {}
  PROVE  Tidy(r)'
<1> DEFINE d == delivered[r]
           e == done[r] + 1
<1>1. /\ done'[r] = e /\ pc'[r] = AfterTransaction(r) /\ d \in Nat /\ done[r] \in Nat
      /\ d \in DOMAIN log /\ e \in DOMAIN log[d] /\ Current(r) = log[d][e]
      /\ DOMAIN log[d] = 1..Len(log[d]) /\ Len(log[d]) \in Nat
  <2>1. done'[r] = e /\ pc'[r] = AfterTransaction(r)
    BY DEF NextTransaction, TypeOK, FieldsOK
  <2>2. /\ d \in 1..Len(log) /\ log[d] \in Seq(Slot) /\ e \in 1..Len(log[d])
        /\ Current(r) = log[d][e]
    BY CurrentType DEF Current
  <2> QED
    BY <2>1, <2>2, ClientTypes
<1>2. First(r)' = First(r) /\ ListIsRun(r)' /\ First(r) \in Int
  BY ClientTypes DEF Tidy, ListIsRun, First
<1>3. SubmittedRuns(r)' /\ LogRuns(r)'
  BY <1>2, ClientTypes, SubmittedKept, LogRunsKept DEF Tidy
<1>4. \A m \in DOMAIN log : \A i \in DOMAIN log[m] :
        /\ Passed(r, m, i)' => Passed(r, m, i)
        /\ Seen(r, m, i) => Seen(r, m, i)'
        /\ Done(r, m, i)' => Done(r, m, i) \/ (m = d /\ i = e)
  <2> SUFFICES ASSUME NEW m \in DOMAIN log, NEW i \in DOMAIN log[m]
               PROVE  /\ Passed(r, m, i)' => Passed(r, m, i)
                      /\ Seen(r, m, i) => Seen(r, m, i)'
                      /\ Done(r, m, i)' => Done(r, m, i) \/ (m = d /\ i = e)
    OBVIOUS
  <2>1. i \in Nat
    BY LogType
  <2>2. pc'[r] \notin {"execute", "dead"}
    BY <1>1 DEF AfterTransaction
  <2> QED
    BY <1>1, <2>1, <2>2 DEF Passed, Seen, Done
<1>5. PassedBeforeFirst(r)'
  BY <1>2, <1>4 DEF Tidy, PassedBeforeFirst, Own
<1>6. BeforeFirstSeen(r)'
  <2> SUFFICES ASSUME NEW n \in 0..(First(r) - 1)
               PROVE  \E m \in DOMAIN log : \E i \in DOMAIN log[m] :
                        Seen(r, m, i)' /\ At(m, i, <<r, n>>)
    BY <1>2 DEF BeforeFirstSeen, At
  <2>1. PICK m \in DOMAIN log : \E i \in DOMAIN log[m] : Seen(r, m, i) /\ At(m, i, <<r, n>>)
    BY DEF Tidy, BeforeFirstSeen
  <2> QED
    BY <1>4, <2>1
<1>7. InOrder(r)'
  BY InOrderKept DEF Tidy
<1>8. NothingLeft(r)'
  <2>1. pc'[r] = "receive" => e = Len(log[d])
    BY <1>1 DEF AfterTransaction
  <2>2. MessageLen(d) = Len(log[d])
    BY <1>1, LogType
  <2> QED
    BY <1>1, <2>1, <2>2 DEF NothingLeft, MessageLen
<1>9. HistoryCovers(r)'
  <2> SUFFICES ASSUME NEW m \in DOMAIN log, NEW i \in DOMAIN log[m],
                      Done(r, m, i)', Own(r, log[m][i]),
                      log[m][i].command.name \notin {"getSyncedBalance", "other"}
               PROVE  Places(history'[r], log[m][i].uniqueId) # {}
    BY DEF HistoryCovers, Own, Places
  <2>1. CASE Done(r, m, i)
    BY <2>1 DEF Tidy, HistoryCovers
  <2>2. CASE m = d /\ i = e
    BY <1>1, <2>2
  <2> QED
    BY <1>4, <2>1, <2>2
<1> QED
  BY <1>2, <1>3, <1>5, <1>6, <1>7, <1>8, <1>9 DEF Tidy

LEMMA TidyProcessed ==
  ASSUME TypeOK, TypeOK', NEW r \in Replicas, Tidy(r), ~tx_already_executed[r],
         SkipTransaction(r) \/ ExecuteTransaction(r) \/ ExecuteRacingClean(r)
  PROVE  Tidy(r)'
<1>1. CASE SkipTransaction(r)
  <2>1. /\ pc[r] = "execute" /\ NextTransaction(r)
        /\ UNCHANGED <<log, submitted, delivered, outstanding_counter,
                       outstanding_collection, history>>
        /\ Current(r).command.name \in {"getSyncedBalance", "other"}
    BY <1>1 DEF SkipTransaction, Skips
  <2> QED
    BY <2>1, TidyNext DEF Places
<1>2. ASSUME NEW list, ExecuteOnto(r, list) PROVE Tidy(r)'
  <2>1. /\ pc[r] = "execute" /\ NextTransaction(r)
        /\ UNCHANGED <<log, submitted, delivered, outstanding_counter,
                       outstanding_collection>>
        /\ history[r] \in Seq(Transaction) /\ history'[r] = Append(history[r], Current(r))
        /\ Current(r) \in Transaction
    BY <1>2, CurrentType DEF ExecuteOnto, TypeOK, FieldsOK, PositionOK
  <2>2. /\ DOMAIN history[r] = 1..Len(history[r]) /\ Len(history[r]) \in Nat
        /\ DOMAIN history'[r] = 1..(Len(history[r]) + 1)
        /\ \A i \in 1..Len(history[r]) : history'[r][i] = history[r][i]
        /\ history'[r][Len(history[r]) + 1] = Current(r)
    BY <2>1
  <2>3. \A uniqueId : Places(history[r], uniqueId) # {} => Places(history'[r], uniqueId) # {}
    BY <2>2 DEF Places
  <2>4. Places(history'[r], Current(r).uniqueId) # {}
    <3>1. Len(history[r]) + 1 \in DOMAIN history'[r] /\ Current(r) # Hole
      BY <2>1, <2>2, ClientAssumption
    <3> QED
      BY <2>2, <3>1 DEF Places
  <2> QED
    BY <2>1, <2>3, <2>4, TidyNext
<1> QED
  BY <1>1, <1>2 DEF ExecuteTransaction, ExecuteRacingClean

\* A client that joins has sent nothing and is handed what is ordered next.
LEMMA TidyJoin ==
  ASSUME TypeOK, TypeOK', NEW r \in Replicas, Sender(r), Join(r)
  PROVE  Tidy(r)'
<1>1. /\ UNCHANGED <<log, submitted, outstanding_counter, outstanding_collection,
                     done, history, pc>>
      /\ membership[r] = "outside" /\ delivered'[r] = Len(log)
  BY DEF Join, Group!Join, TypeOK, Group!TypeOK
<1>2. /\ outstanding_counter[r] = 0 /\ outstanding_collection[r] = <<>>
      /\ submitted[r] = <<>> /\ done[r] = 0 /\ NotInLog(r)
  BY <1>1 DEF Sender
<1>3. First(r)' = 0
  <2>1. First(r)' = outstanding_counter'[r] - Len(outstanding_collection'[r])
    BY DEF First
  <2> QED
    BY <1>1, <1>2, <2>1
<1>4. ListIsRun(r)' /\ SubmittedRuns(r)' /\ BeforeFirstSeen(r)'
  BY <1>1, <1>2, <1>3 DEF ListIsRun, SubmittedRuns, BeforeFirstSeen
<1>5. NotInLog(r)'
  BY <1>1, <1>2 DEF NotInLog, Own
<1>6. LogRuns(r)' /\ PassedBeforeFirst(r)' /\ InOrder(r)' /\ HistoryCovers(r)'
  BY <1>5 DEF NotInLog, LogRuns, PassedBeforeFirst, InOrder, HistoryCovers
<1>7. NothingLeft(r)'
  <2>1. Len(log) \in Nat /\ DOMAIN log = 1..Len(log)
    BY ClientTypes
  <2>2. CASE Len(log) = 0
    BY <1>1, <1>2, <2>2 DEF NothingLeft, MessageLen
  <2>3. CASE Len(log) > 0
    BY <1>1, <1>2, <2>1, <2>3 DEF NothingLeft, NotInLog, Own
  <2> QED
    BY <2>1, <2>2, <2>3
<1> QED
  BY <1>4, <1>6, <1>7 DEF Tidy

\* The daemons order the oldest message of r: a run that starts where r had
\* been handed everything before.
LEMMA TidyOrder ==
  ASSUME TypeOK, TypeOK', NEW r \in Replicas, Order(r), Sender(r),
         NEW s \in Replicas, Tidy(s)
  PROVE  Tidy(s)'
<1> DEFINE last == Len(log) + 1
           message == submitted[r][1]
<1>1. /\ Len(log) \in Nat /\ DOMAIN log = 1..Len(log) /\ DOMAIN log' = 1..last
      /\ \A m \in DOMAIN log : log'[m] = log[m]
      /\ log'[last] = message /\ message \in Seq(Slot)
      /\ UNCHANGED <<delivered, done, pc, history, outstanding_counter,
                     outstanding_collection>>
  BY OrderLog
<1>2. /\ delivered[s] \in Nat /\ delivered[s] <= Len(log) /\ First(s) \in Int
      /\ outstanding_counter[s] \in Nat
  BY ClientTypes
<1>3. First(s)' = First(s) /\ ListIsRun(s)'
  BY <1>1 DEF Tidy, ListIsRun, First
<1>4. SubmittedRuns(s)'
  <2>1. \A j \in DOMAIN submitted'[s] :
          \E k \in DOMAIN submitted[s] : submitted'[s][j] = submitted[s][k]
    BY OrderLog
  <2> QED
    BY <1>1, <1>2, <1>3, <2>1, SubmittedKept DEF Tidy
<1>5. ASSUME NEW i \in DOMAIN message, Own(s, message[i])
      PROVE  s = r /\ IsRun(s, message)
  <2>1. 1 \in DOMAIN submitted[r]
    BY OrderLog
  <2>2. Own(r, message[i])
    BY <1>5, <2>1 DEF Sender, OwnOnly, Own
  <2>3. s = r
    BY <1>5, <2>2 DEF Own
  <2> QED
    BY <2>1, <2>3 DEF Tidy, SubmittedRuns
<1>6. LogRuns(s)'
  <2> SUFFICES ASSUME NEW m \in DOMAIN log', NEW i \in DOMAIN log'[m], Own(s, log'[m][i])
               PROVE  IsRun(s, log'[m])
    BY <1>1, <1>3 DEF LogRuns, IsRun, Own
  <2>1. CASE m \in DOMAIN log
    BY <1>1, <2>1 DEF Tidy, LogRuns
  <2>2. CASE m = last
    BY <1>1, <1>5, <2>2
  <2> QED
    BY <1>1, <2>1, <2>2
<1>7. \A m \in DOMAIN log' : \A i \in DOMAIN log'[m] :
        /\ Passed(s, m, i)' => m \in DOMAIN log /\ Passed(s, m, i)
        /\ Done(s, m, i)' => m \in DOMAIN log /\ Done(s, m, i)
        /\ Seen(s, m, i)' <=> Seen(s, m, i)
  BY <1>1, <1>2 DEF Passed, Done, Seen
<1>8. PassedBeforeFirst(s)'
  BY <1>1, <1>3, <1>7 DEF Tidy, PassedBeforeFirst, Own
<1>9. ASSUME NEW n \in 0..(First(s) - 1)
      PROVE  \E m \in DOMAIN log : \E i \in DOMAIN log[m] : Seen(s, m, i) /\ At(m, i, <<s, n>>)
  BY DEF Tidy, BeforeFirstSeen
<1>10. BeforeFirstSeen(s)'
  <2> SUFFICES ASSUME NEW n \in 0..(First(s) - 1)
               PROVE  \E m \in DOMAIN log' : \E i \in DOMAIN log'[m] :
                        Seen(s, m, i)' /\ At(m, i, <<s, n>>)'
    BY <1>3 DEF BeforeFirstSeen
  <2>1. PICK m \in DOMAIN log : \E i \in DOMAIN log[m] : Seen(s, m, i) /\ At(m, i, <<s, n>>)
    BY <1>9
  <2>2. PICK i \in DOMAIN log[m] : Seen(s, m, i) /\ At(m, i, <<s, n>>)
    BY <2>1
  <2>3. m \in DOMAIN log' /\ log'[m] = log[m]
    BY <1>1
  <2> QED
    BY <1>7, <2>2, <2>3 DEF At
<1>11. InOrder(s)'
  <2> SUFFICES ASSUME NEW m \in DOMAIN log', NEW i \in DOMAIN log'[m], Own(s, log'[m][i]),
                      NEW n \in 0..(log'[m][i].uniqueId[2] - 1)
               PROVE  \E k \in 1..m : \E j \in DOMAIN log'[k] :
                        (k < m \/ j < i) /\ At(k, j, <<s, n>>)'
    BY DEF InOrder, Own
  <2>1. CASE m \in DOMAIN log
    <3>1. PICK k \in 1..m : \E j \in DOMAIN log[k] : (k < m \/ j < i) /\ At(k, j, <<s, n>>)
      BY <1>1, <2>1 DEF Tidy, InOrder
    <3>2. log'[k] = log[k]
      BY <1>1, <2>1
    <3> QED
      BY <3>1, <3>2 DEF At
  <2>2. CASE m = last
    <3>1. i \in DOMAIN message /\ Own(s, message[i]) /\ IsRun(s, message)
      BY <1>1, <1>5, <2>2
    <3>2. PICK a \in 0..First(s) :
            \A j \in DOMAIN message :
              message[j] # Hole /\ message[j].uniqueId = <<s, a + j - 1>>
      BY <3>1 DEF IsRun
    <3>3. DOMAIN message = 1..Len(message) /\ Len(message) \in Nat
      BY <1>1
    <3>4. n \in Nat /\ n < a + i - 1
      BY <1>1, <1>2, <2>2, <3>1, <3>2, <3>3
    <3>5. CASE n < a
      <4>1. n \in 0..(First(s) - 1)
        BY <1>2, <3>4, <3>5
      <4>2. PICK k \in DOMAIN log : \E j \in DOMAIN log[k] : At(k, j, <<s, n>>)
        BY <1>9, <4>1
      <4>3. k \in 1..m /\ k < m /\ log'[k] = log[k]
        BY <1>1, <2>2
      <4> QED
        BY <4>2, <4>3 DEF At
    <3>6. CASE n >= a
      <4>1. n - a + 1 \in 1..Len(message) /\ n - a + 1 < i
        BY <1>2, <3>1, <3>3, <3>4, <3>6
      <4>2. a + (n - a + 1) - 1 = n
        BY <1>2, <3>4
      <4>3. At(m, n - a + 1, <<s, n>>)'
        BY <1>1, <2>2, <3>2, <3>3, <4>1, <4>2 DEF At
      <4>4. m \in 1..m
        BY <1>1, <2>2
      <4> QED
        BY <1>1, <2>2, <3>3, <4>1, <4>3, <4>4
    <3> QED
      BY <1>2, <3>4, <3>5, <3>6
  <2> QED
    BY <1>1, <2>1, <2>2
<1>12. NothingLeft(s)'
  <2>1. delivered[s] > 0 => delivered[s] \in DOMAIN log
    BY <1>1, <1>2
  <2> QED
    BY <1>1, <1>2, <2>1 DEF Tidy, NothingLeft, MessageLen, Own
<1>13. HistoryCovers(s)'
  BY <1>1, <1>7 DEF Tidy, HistoryCovers, Own, Places
<1> QED
  BY <1>3, <1>4, <1>6, <1>8, <1>10, <1>11, <1>12, <1>13 DEF Tidy

-----------------------------------------------------------------------------
(* The invariant holds, and what follows from it. *)

LEMMA TidyStep ==
  ASSUME TypeOK, TypeOK', NEW r \in Replicas, ClientStep(r), Sender(r), Tidy(r),
         ~tx_already_executed[r], r \notin raced'
  PROVE  Tidy(r)'
<1>1. ASSUME NEW c \in UserCommands, RemoveRacingAddTears(r, c) PROVE FALSE
  BY <1>1 DEF RemoveRacingAddTears
<1>2. ~RemoveRacingSend(r)
  BY DEF RemoveRacingSend
<1> QED
  BY <1>1, <1>2, TidyEnqueue, TidySend, TidyQuiet, TidyReceive, TidyRemove, TidyProcessed,
     TidyJoin DEF ClientStep, Listen, Race

\* A step of another client leaves a client's list, messages and place.
LEMMA TidyUntouched ==
  ASSUME TypeOK, TypeOK', NEW s \in Replicas, Tidy(s), UNCHANGED log, Untouched(s)
  PROVE  Tidy(s)'
  BY TidyStill DEF Untouched

LEMMA SentInit == Init => SentInv
<1> SUFFICES ASSUME Init, NEW r \in Replicas PROVE Sender(r) /\ Tidy(r)
  BY DEF SentInv
<1> USE DEF Init, Group!Init
<1>1. Sender(r)
  BY DEF Sender, OwnOnly, NotInLog
<1>2. First(r) = 0
  BY DEF First
<1>3. ListIsRun(r) /\ SubmittedRuns(r) /\ LogRuns(r) /\ PassedBeforeFirst(r)
  BY DEF ListIsRun, SubmittedRuns, LogRuns, PassedBeforeFirst
<1>4. BeforeFirstSeen(r) /\ InOrder(r) /\ NothingLeft(r) /\ HistoryCovers(r)
  BY <1>2 DEF BeforeFirstSeen, InOrder, NothingLeft, MessageLen, HistoryCovers
<1> QED
  BY <1>1, <1>3, <1>4 DEF Tidy

LEMMA SentStep ==
  ASSUME TypeOK, TypeOK', LedgerInv, SentInv, [Next]_vars
  PROVE  SentInv'
<1>1. CASE UNCHANGED vars
  <2>1. \A s \in Replicas : Sender(s)'
    BY <1>1, SenderKept DEF SentInv, vars
  <2>2. \A s \in Replicas \ raced' : Tidy(s)'
    BY <1>1, TidyStill DEF SentInv, vars
  <2> QED
    BY <2>1, <2>2 DEF SentInv
<1>2. ASSUME NEW r \in Replicas, ClientStep(r) PROVE SentInv'
  <2>1. UNCHANGED log /\ raced \subseteq raced' /\ \A s \in Replicas \ {r} : Untouched(s)
    BY <1>2, OthersUntouched
  <2>2. \A s \in Replicas : Sender(s)'
    BY <1>2, SenderStep DEF SentInv
  <2>3. ASSUME NEW s \in Replicas \ raced' PROVE Tidy(s)'
    <3>1. Tidy(s) /\ Sender(s) /\ ~tx_already_executed[s]
      BY <2>1 DEF SentInv, LedgerInv
    <3>2. CASE s = r
      BY <1>2, <3>1, <3>2, TidyStep
    <3>3. CASE s # r
      BY <2>1, <3>1, <3>3, TidyUntouched
    <3> QED
      BY <3>2, <3>3
  <2> QED
    BY <2>2, <2>3 DEF SentInv
<1>3. ASSUME NEW r \in Replicas, Order(r) PROVE SentInv'
  <2>1. raced' = raced
    BY <1>3, OrderLog
  <2>2. \A s \in Replicas : Sender(s)'
    BY <1>3, SenderOrder DEF SentInv
  <2>3. \A s \in Replicas \ raced' : Tidy(s)'
    BY <1>3, <2>1, TidyOrder DEF SentInv
  <2> QED
    BY <2>2, <2>3 DEF SentInv
<1> QED
  BY <1>1, <1>2, <1>3 DEF Next, ClientStep

\* What every client sends is a run of its transactions that starts where it
\* has been handed all before: the inductive invariant behind the next two.
THEOREM SentCorrect == Spec => []SentInv
<1>1. TypeOK /\ TypeOK' /\ LedgerInv /\ SentInv /\ [Next]_vars => SentInv'
  BY SentStep
<1> QED
  BY <1>1, SentInit, TypeCorrect, LedgerCorrect, PTL DEF Spec

\* A client that no race has torn broadcasts a transaction from its creation
\* until it is handed it, never later, and the log holds its transactions for
\* the first time in the order it created them, none left out
\* (sendOutstanding, 202-222, against removeIf, 247).
THEOREM SentInOrder == Spec => []SentInOrderUntilDelivered
<1>1. TypeOK /\ SentInv => SentInOrderUntilDelivered
  BY TidyGivesNotDelivered, TidyGivesIssueOrder DEF SentInOrderUntilDelivered
<1> QED
  BY <1>1, TypeCorrect, SentCorrect, PTL

\* A "Correct Synced Balance" (255) has every deposit and interest that its
\* client created before the getSynchedBalance.
THEOREM SyncedBalance == Spec => []SyncedBalanceIsCorrect
<1>1. TypeOK /\ SentInv => SyncedBalanceIsCorrect
  BY TidyGivesBalance
<1> QED
  BY <1>1, TypeCorrect, SentCorrect, PTL
=============================================================================
