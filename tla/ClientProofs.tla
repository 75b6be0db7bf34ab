---------------------------- MODULE ClientProofs ----------------------------
(***************************************************************************)
(* Proofs about the replicated account, for every set of clients, every    *)
(* set of commands and every value of the bounds.                          *)
(***************************************************************************)
EXTENDS ClientProperties, SequenceTheorems, TLAPS

-----------------------------------------------------------------------------
(* What the operators of the model return. *)

\* removeIf (247) returns a list of the same kind of elements.
LEMMA WithoutType ==
  ASSUME NEW list \in Seq(Slot), NEW uniqueId, NEW rest \in Without(list, uniqueId)
  PROVE  rest \in Seq(Slot)
<1>1. CASE Places(list, uniqueId) = {}
  BY <1>1 DEF Without
<1>2. CASE Places(list, uniqueId) # {}
  <2>1. PICK p \in Places(list, uniqueId) \X Places(list, uniqueId) :
          rest = SubSeq(list, 1, p[1] - 1) \o SubSeq(list, p[2] + 1, Len(list))
    BY <1>2 DEF Without
  <2>2. p[1] \in 1..Len(list) /\ p[2] \in 1..Len(list)
    BY DEF Places
  <2>3. SubSeq(list, 1, p[1] - 1) \in Seq(Slot)
    BY <2>2, SubSeqProperties
  <2>4. SubSeq(list, p[2] + 1, Len(list)) \in Seq(Slot)
    BY <2>2, SubSeqProperties
  <2> QED
    BY <2>1, <2>3, <2>4, ConcatProperties
<1> QED
  BY <1>1, <1>2

LEMMA RemoveIfType ==
  ASSUME TypeOK, NEW r \in Replicas, NEW uniqueId, RemoveIf(r, uniqueId)
  PROVE  outstanding_collection' \in [Replicas -> Seq(Slot)]
<1>1. PICK list \in Without(outstanding_collection[r], uniqueId) :
        outstanding_collection' = [outstanding_collection EXCEPT ![r] = list]
  BY DEF RemoveIf
<1>2. list \in Seq(Slot)
  BY WithoutType DEF TypeOK, FieldsOK
<1> QED
  BY <1>1, <1>2 DEF TypeOK, FieldsOK

\* deposit (382-384) and addInterest (390-392) leave a balance.
LEMMA ApplyType ==
  ASSUME NEW b \in Int, NEW c \in Command,
         c.name \in {"deposit", "addInterest"}, c.value # NotANumber
  PROVE  Apply(b, c) \in Int
<1>1. c.value \in Int
  BY DEF Command
<1>2. ((b * c.value) \div 100) \in Int
  <2>1. b * c.value \in Int
    BY <1>1
  <2> DEFINE p == b * c.value
  <2>2. p \in Int => (p \div 100) \in Int
    <3> HIDE DEF p
    <3> QED BY SMT
  <2> QED BY <2>1, <2>2
<1>3. CASE c.name = "deposit"
  BY <1>1, <1>3 DEF Apply
<1>4. CASE c.name = "addInterest"
  BY <1>1, <1>2, <1>4 DEF Apply
<1> QED
  BY <1>3, <1>4
-----------------------------------------------------------------------------
(* Type correctness. *)

LEMMA TypeInit == Init => TypeOK
<1> SUFFICES ASSUME Init PROVE TypeOK
  OBVIOUS
<1>1. Group!TypeOK
  BY DEF Init, Group!Init, Group!TypeOK
<1>2. FieldsOK
  BY DEF Init, FieldsOK
<1>3. \A r \in Replicas : PositionOK(r)
  BY DEF Init, Group!Init, PositionOK
<1> QED
  BY <1>1, <1>2, <1>3 DEF TypeOK

USE DEF groupVars, accountVars, listenerVars, enqueueVars, schedulerVars

\* A transaction the command thread creates, and the list with it (141-151).
LEMMA EnqueuedType ==
  ASSUME TypeOK, NEW r \in Replicas, NEW c \in UserCommands
  PROVE  /\ NewTransaction(r, c) \in Transaction
         /\ \A list \in Seq(Slot) : Enqueued(list, NewTransaction(r, c)) \in Seq(Slot)
<1>1. NewTransaction(r, c) \in Transaction
  BY ClientAssumption DEF TypeOK, FieldsOK, NewTransaction, Transaction
<1>2. NewTransaction(r, c) \in Slot
  BY <1>1 DEF Slot
<1> QED
  BY <1>1, <1>2, AppendProperties DEF Enqueued

\* The scheduler thread may end, no more (191).
LEMMA SchedulerType ==
  ASSUME FieldsOK, NEW r \in Replicas, SchedulerMayOverlap(r)
  PROVE  broadcasting' \in [Replicas -> BOOLEAN] /\ sends' = sends
  BY DEF FieldsOK, SchedulerMayOverlap

LEMMA TypeProcessCommand ==
  ASSUME TypeOK, NEW r \in Replicas, NEW c \in UserCommands, ProcessCommand(r, c)
  PROVE  TypeOK'
<1>1. Enqueued(outstanding_collection[r], NewTransaction(r, c)) \in Seq(Slot)
  BY EnqueuedType DEF TypeOK, FieldsOK
<1>2. Group!TypeOK'
  BY DEF TypeOK, Group!TypeOK, ProcessCommand
<1>3. FieldsOK'
  BY <1>1, SchedulerType DEF TypeOK, FieldsOK, ProcessCommand, CountTransaction
<1>4. \A s \in Replicas : PositionOK(s)'
  BY DEF TypeOK, PositionOK, ProcessCommand, Current
<1> QED
  BY <1>2, <1>3, <1>4 DEF TypeOK

LEMMA TypeCleanHistory ==
  ASSUME TypeOK, NEW r \in Replicas, CleanHistory(r)
  PROVE  TypeOK'
<1>1. Group!TypeOK'
  BY DEF TypeOK, Group!TypeOK, CleanHistory
<1>2. FieldsOK'
  BY DEF TypeOK, FieldsOK, CleanHistory
<1>3. \A s \in Replicas : PositionOK(s)'
  BY DEF TypeOK, PositionOK, CleanHistory, Current
<1> QED
  BY <1>1, <1>2, <1>3 DEF TypeOK

\* Multicasting a list keeps the group's type and moves nobody.
LEMMA MulticastType ==
  ASSUME Group!TypeOK, NEW r \in Replicas, NEW list \in Seq(Slot),
         Group!Multicast(r, list)
  PROVE  Group!TypeOK'
<1>1. Append(submitted[r], list) \in Seq(Seq(Slot))
  BY AppendProperties DEF Group!TypeOK
<1> QED
  BY <1>1 DEF Group!TypeOK, Group!Multicast

LEMMA TypeSendOutstanding ==
  ASSUME TypeOK, NEW r \in Replicas, SendOutstanding(r)
  PROVE  TypeOK'
<1>1. Group!TypeOK'
  BY MulticastType DEF TypeOK, FieldsOK, SendOutstanding, Content
<1>2. FieldsOK'
  BY DEF TypeOK, FieldsOK, SendOutstanding, Tick
<1>3. \A s \in Replicas : PositionOK(s)'
  BY DEF TypeOK, PositionOK, SendOutstanding, Group!Multicast, Current
<1> QED
  BY <1>1, <1>2, <1>3 DEF TypeOK

LEMMA TypeReceiveMessage ==
  ASSUME TypeOK, NEW r \in Replicas, ReceiveMessage(r)
  PROVE  TypeOK'
<1>1. Group!TypeOK'
  BY DEF TypeOK, Group!TypeOK, ReceiveMessage, Group!Deliver
<1>2. FieldsOK'
  BY DEF TypeOK, FieldsOK, ReceiveMessage
<1>3. ASSUME NEW s \in Replicas PROVE PositionOK(s)'
  <2>1. CASE s # r
    BY <2>1 DEF TypeOK, FieldsOK, Group!TypeOK, PositionOK, ReceiveMessage,
       Group!Deliver, Current
  <2>2. CASE s = r
    <3>1. delivered[r] + 1 \in 1..Len(log)
      BY DEF TypeOK, Group!TypeOK, ReceiveMessage, Group!Deliver
    <3>2. log[delivered[r] + 1] \in Seq(Slot)
      BY <3>1 DEF TypeOK, Group!TypeOK
    <3>3. log[delivered[r] + 1] # <<>> => Len(log[delivered[r] + 1]) > 0
      BY <3>2
    <3>4. /\ delivered'[r] = delivered[r] + 1
          /\ done'[r] = 0
          /\ pc'[r] = IF log[delivered[r] + 1] = <<>> THEN "receive" ELSE "remove"
          /\ log' = log
          /\ membership'[r] = "member"
      BY DEF TypeOK, FieldsOK, Group!TypeOK, ReceiveMessage, Group!Deliver
    <3> QED
      BY <2>2, <3>1, <3>3, <3>4 DEF PositionOK
  <2> QED
    BY <2>1, <2>2
<1> QED
  BY <1>1, <1>2, <1>3 DEF TypeOK

\* The transaction in hand is an element of the message in hand.
LEMMA CurrentType ==
  ASSUME TypeOK, NEW r \in Replicas, pc[r] \in {"remove", "execute"}
  PROVE  /\ delivered[r] \in 1..Len(log)
         /\ log[delivered[r]] \in Seq(Slot)
         /\ done[r] + 1 \in 1..Len(log[delivered[r]])
         /\ Current(r) \in Slot
         /\ Current(r) # Hole => Current(r) \in Transaction
<1>1. delivered[r] \in 1..Len(log)
  BY DEF TypeOK, PositionOK, Group!TypeOK
<1>2. log[delivered[r]] \in Seq(Slot)
  BY <1>1 DEF TypeOK, Group!TypeOK
<1>3. done[r] + 1 \in 1..Len(log[delivered[r]])
  BY <1>2 DEF TypeOK, PositionOK, FieldsOK
<1>4. Current(r) \in Slot
  BY <1>2, <1>3 DEF Current
<1> QED
  BY <1>1, <1>2, <1>3, <1>4 DEF Slot

\* What every overlap with removeIf leaves alone, and where it leaves the
\* listener: at the same transaction, which is not a null.
LEMMA RemoveStepPosition ==
  ASSUME TypeOK, NEW r \in Replicas, pc[r] = "remove", ~NullRead(r),
         pc' = [pc EXCEPT ![r] = "execute"], UNCHANGED <<log, delivered, membership, done>>
  PROVE  \A s \in Replicas : PositionOK(s)'
<1>1. Current(r) # Hole
  BY DEF NullRead
<1>2. membership[r] # "outside"
  BY DEF TypeOK, PositionOK
<1>3. \A s \in Replicas : pc'[s] = IF s = r THEN "execute" ELSE pc[s]
  BY DEF TypeOK, FieldsOK
<1> QED
  BY <1>1, <1>2, <1>3 DEF TypeOK, PositionOK, Current

LEMMA TypeRemoveLocal ==
  ASSUME TypeOK, NEW r \in Replicas, RemoveLocal(r)
  PROVE  TypeOK'
<1>1. Group!TypeOK'
  BY DEF TypeOK, Group!TypeOK, RemoveLocal
<1>2. outstanding_collection' \in [Replicas -> Seq(Slot)]
  BY RemoveIfType DEF RemoveLocal
<1>3. AlreadyExecuted(r, Current(r)) \in BOOLEAN
  BY DEF AlreadyExecuted, VerdictOnMatch
<1>4. FieldsOK'
  BY <1>2, <1>3 DEF TypeOK, FieldsOK, RemoveLocal, SchedulerMayOverlap
<1>5. \A s \in Replicas : PositionOK(s)'
  BY RemoveStepPosition DEF RemoveLocal
<1> QED
  BY <1>1, <1>4, <1>5 DEF TypeOK

\* The end of the listener thread keeps every position as it is.
LEMMA ListenerDiesPosition ==
  ASSUME TypeOK, NEW r \in Replicas, pc[r] # "receive", ListenerDies(r),
         UNCHANGED <<log, delivered, membership>>
  PROVE  \A s \in Replicas : PositionOK(s)'
<1>1. \A s \in Replicas : pc'[s] = IF s = r THEN "dead" ELSE pc[s]
  BY DEF TypeOK, FieldsOK, ListenerDies
<1>2. membership[r] # "outside"
  BY DEF TypeOK, PositionOK
<1> QED
  BY <1>1, <1>2 DEF TypeOK, PositionOK, Current, ListenerDies

LEMMA TypeListenerThrows ==
  ASSUME TypeOK, NEW r \in Replicas, RemoveThrows(r) \/ ParseThrows(r)
  PROVE  TypeOK'
<1>1. ListenerDies(r) /\ pc[r] # "receive"
  BY DEF RemoveThrows, ParseThrows
<1>2. UNCHANGED <<groupVars, accountVars, enqueueVars, schedulerVars, raced>>
  BY DEF RemoveThrows, ParseThrows
<1>3. Group!TypeOK'
  BY <1>2 DEF TypeOK, Group!TypeOK
<1>4. FieldsOK'
  BY <1>1, <1>2 DEF TypeOK, FieldsOK, ListenerDies
<1>5. \A s \in Replicas : PositionOK(s)'
  BY <1>1, <1>2, ListenerDiesPosition
<1> QED
  BY <1>3, <1>4, <1>5 DEF TypeOK

\* The listener moves on to a transaction that is there, or to no message.
LEMMA NextTransactionPosition ==
  ASSUME TypeOK, NEW r \in Replicas, pc[r] = "execute", NextTransaction(r),
         UNCHANGED <<log, delivered, membership>>
  PROVE  \A s \in Replicas : PositionOK(s)'
<1>1. /\ delivered[r] \in 1..Len(log)
      /\ Len(log[delivered[r]]) \in Nat
      /\ membership[r] # "outside"
  BY CurrentType DEF TypeOK, PositionOK
<1>2. ASSUME NEW s \in Replicas, s # r PROVE PositionOK(s)'
  BY <1>2 DEF TypeOK, FieldsOK, PositionOK, Current, NextTransaction
<1>3. done'[r] = done[r] + 1 /\ pc'[r] = AfterTransaction(r)
  BY DEF TypeOK, FieldsOK, NextTransaction
<1>4. PositionOK(r)'
  BY <1>1, <1>3 DEF TypeOK, PositionOK, AfterTransaction
<1> QED
  BY <1>2, <1>4

LEMMA NextTransactionType ==
  ASSUME TypeOK, NEW r \in Replicas, pc[r] = "execute", NextTransaction(r)
  PROVE  /\ pc' \in [Replicas -> {"receive", "remove", "execute", "dead"}]
         /\ done' \in [Replicas -> Nat]
         /\ tx_already_executed' = tx_already_executed
  BY DEF TypeOK, FieldsOK, NextTransaction, AfterTransaction

LEMMA TypeSkipTransaction ==
  ASSUME TypeOK, NEW r \in Replicas, SkipTransaction(r)
  PROVE  TypeOK'
<1>1. Group!TypeOK'
  BY DEF TypeOK, Group!TypeOK, SkipTransaction
<1>2. FieldsOK'
  BY NextTransactionType DEF TypeOK, FieldsOK, SkipTransaction
<1>3. \A s \in Replicas : PositionOK(s)'
  BY NextTransactionPosition DEF SkipTransaction
<1> QED
  BY <1>1, <1>2, <1>3 DEF TypeOK

LEMMA TypeExecuteOnto ==
  ASSUME TypeOK, NEW r \in Replicas, NEW list \in Seq(Slot), ExecuteOnto(r, list)
  PROVE  TypeOK'
<1>1. Current(r) \in Transaction
  BY CurrentType DEF TypeOK, PositionOK, ExecuteOnto
<1>2. Current(r).command \in Command
  BY <1>1 DEF Transaction
<1>3. Apply(balance[r], Current(r).command) \in Int
  <2>1. Current(r).command.name \in {"deposit", "addInterest"}
    BY <1>2 DEF Command, ExecuteOnto, Skips
  <2>2. balance[r] \in Int /\ Current(r).command.value # NotANumber
    BY DEF TypeOK, FieldsOK, ExecuteOnto
  <2> QED
    BY <1>2, <2>1, <2>2, ApplyType
<1>4. Append(list, Current(r)) \in Seq(Slot)
  BY <1>1, AppendProperties DEF Slot
<1>5. Append(history[r], Current(r)) \in Seq(Transaction)
  BY <1>1, AppendProperties DEF TypeOK, FieldsOK
<1>6. Group!TypeOK'
  BY DEF TypeOK, Group!TypeOK, ExecuteOnto
<1>7. FieldsOK'
  <2> DEFINE b == Apply(balance[r], Current(r).command)
             l == Append(list, Current(r))
             h == Append(history[r], Current(r))
  <2>1. /\ balance' = [balance EXCEPT ![r] = b]
        /\ order_counter' = [order_counter EXCEPT ![r] = order_counter[r] + 1]
        /\ executed_list' = [executed_list EXCEPT ![r] = l]
        /\ history' = [history EXCEPT ![r] = h]
        /\ UNCHANGED <<enqueueVars, schedulerVars, raced>>
    BY DEF ExecuteOnto
  <2>2. /\ pc' \in [Replicas -> {"receive", "remove", "execute", "dead"}]
        /\ done' \in [Replicas -> Nat]
        /\ tx_already_executed' = tx_already_executed
    BY NextTransactionType DEF ExecuteOnto
  <2>3. b \in Int /\ l \in Seq(Slot) /\ h \in Seq(Transaction)
    BY <1>3, <1>4, <1>5
  <2> HIDE DEF b, l, h
  <2>4. balance' \in [Replicas -> Int] /\ order_counter' \in [Replicas -> Nat]
    BY <2>1, <2>3 DEF TypeOK, FieldsOK
  <2>5. executed_list' \in [Replicas -> Seq(Slot)]
    BY <2>1, <2>3 DEF TypeOK, FieldsOK
  <2>6. history' \in [Replicas -> Seq(Transaction)]
    BY <2>1, <2>3 DEF TypeOK, FieldsOK
  <2> QED
    BY <2>1, <2>2, <2>4, <2>5, <2>6 DEF TypeOK, FieldsOK
<1>8. \A s \in Replicas : PositionOK(s)'
  BY NextTransactionPosition DEF ExecuteOnto
<1> QED
  BY <1>6, <1>7, <1>8 DEF TypeOK

LEMMA TypeExecute ==
  ASSUME TypeOK, NEW r \in Replicas, ExecuteTransaction(r) \/ ExecuteRacingClean(r)
  PROVE  TypeOK'
<1>1. executed_list[r] \in Seq(Slot)
  BY DEF TypeOK, FieldsOK
<1>2. [i \in DOMAIN executed_list[r] |-> Hole] \in Seq(Slot)
  <2>1. DOMAIN executed_list[r] = 1..Len(executed_list[r]) /\ Len(executed_list[r]) \in Nat
    BY <1>1
  <2> QED
    BY <2>1, IsASeq DEF Slot
<1> QED
  BY <1>1, <1>2, TypeExecuteOnto DEF ExecuteTransaction, ExecuteRacingClean

LEMMA TypeRemoveRacingAddThrows ==
  ASSUME TypeOK, NEW r \in Replicas, NEW c \in UserCommands, RemoveRacingAddThrows(r, c)
  PROVE  TypeOK'
<1>1. Enqueued(outstanding_collection[r], NewTransaction(r, c)) \in Seq(Slot)
  BY EnqueuedType DEF TypeOK, FieldsOK
<1>2. Group!TypeOK'
  BY DEF TypeOK, Group!TypeOK, RemoveRacingAddThrows
<1>3. FieldsOK'
  BY <1>1 DEF TypeOK, FieldsOK, RemoveRacingAddThrows, CountTransaction, ListenerDies
<1>4. \A s \in Replicas : PositionOK(s)'
  BY ListenerDiesPosition DEF RemoveRacingAddThrows
<1> QED
  BY <1>2, <1>3, <1>4 DEF TypeOK

LEMMA TypeRemoveRacingAddTears ==
  ASSUME TypeOK, NEW r \in Replicas, NEW c \in UserCommands, RemoveRacingAddTears(r, c)
  PROVE  TypeOK'
<1> DEFINE old == outstanding_collection[r]
           tx == NewTransaction(r, c)
<1>1. PICK rest \in Without(old, Current(r).uniqueId) :
        \E list \in TornBy(old, rest, tx) :
          outstanding_collection' = [outstanding_collection EXCEPT ![r] = list]
  BY DEF RemoveRacingAddTears
<1>2. PICK list \in TornBy(old, rest, tx) :
        outstanding_collection' = [outstanding_collection EXCEPT ![r] = list]
  BY <1>1
<1>3. list \in Seq(Slot)
  <2>1. old \in Seq(Slot) /\ rest \in Seq(Slot)
    BY WithoutType DEF TypeOK, FieldsOK
  <2>2. tx \in Slot /\ Hole \in Slot
    BY EnqueuedType DEF Slot
  <2>3. old[Len(old)] \in Slot
    <3>1. \E i \in DOMAIN old : TRUE
      BY DEF RemoveRacingAddTears, HeldOnce
    <3> QED
      BY <2>1, <3>1
  <2> HIDE DEF old, tx
  <2>4. /\ Append(rest, Hole) \in Seq(Slot)
        /\ Append(rest, old[Len(old)]) \in Seq(Slot)
    BY <2>1, <2>2, <2>3, AppendProperties
  <2>5. rest \o <<Hole, tx>> \in Seq(Slot)
    BY <2>1, <2>2, ConcatProperties
  <2> QED
    BY <2>1, <2>4, <2>5 DEF TornBy
<1>4. AlreadyExecuted(r, Current(r)) \in BOOLEAN
  BY DEF AlreadyExecuted, VerdictOnMatch
<1>5. Group!TypeOK'
  BY DEF TypeOK, Group!TypeOK, RemoveRacingAddTears
<1>7. FieldsOK'
  BY <1>2, <1>3, <1>4 DEF TypeOK, FieldsOK, RemoveRacingAddTears, CountTransaction
<1>8. \A s \in Replicas : PositionOK(s)'
  BY RemoveStepPosition DEF RemoveRacingAddTears
<1> QED
  BY <1>5, <1>7, <1>8 DEF TypeOK

\* A copy serialized in the middle of removeIf is a list of the list's
\* elements and nulls.
LEMMA TornCopyType ==
  ASSUME NEW list \in Seq(Slot), NEW i, NEW copy \in TornCopies(list, i)
  PROVE  copy \in Seq(Slot)
<1>1. CASE copy = <<Hole>>
  BY <1>1 DEF Slot
<1>2. CASE copy # <<Hole>>
  <2>1. copy \in [1..Len(list) -> {list[j] : j \in DOMAIN list} \cup {Hole}]
    BY <1>2 DEF TornCopies
  <2>2. {list[j] : j \in DOMAIN list} \cup {Hole} \subseteq Slot
    BY DEF Slot
  <2>3. copy \in [1..Len(list) -> Slot]
    BY <2>1, <2>2
  <2> QED
    BY <2>3
<1> QED
  BY <1>1, <1>2

LEMMA TypeRemoveRacingSend ==
  ASSUME TypeOK, NEW r \in Replicas, RemoveRacingSend(r)
  PROVE  TypeOK'
<1>0. PICK i \in Places(outstanding_collection[r], Current(r).uniqueId) :
        \E copy \in TornCopies(outstanding_collection[r], i) : Group!Multicast(r, copy)
  BY DEF RemoveRacingSend
<1>1. PICK copy \in TornCopies(outstanding_collection[r], i) : Group!Multicast(r, copy)
  BY <1>0
<1>2. copy \in Seq(Slot)
  BY TornCopyType DEF TypeOK, FieldsOK
<1>3. Group!TypeOK'
  BY <1>1, <1>2, MulticastType DEF TypeOK
<1>4. outstanding_collection' \in [Replicas -> Seq(Slot)]
  BY RemoveIfType DEF RemoveRacingSend
<1>5. AlreadyExecuted(r, Current(r)) \in BOOLEAN
  BY DEF AlreadyExecuted, VerdictOnMatch
<1>6. FieldsOK'
  <2>1. sends' \in [Replicas -> Nat] /\ broadcasting' = broadcasting
    BY DEF TypeOK, FieldsOK, RemoveRacingSend, Tick
  <2>2. pc' \in [Replicas -> {"receive", "remove", "execute", "dead"}]
    BY DEF TypeOK, FieldsOK, RemoveRacingSend
  <2>3. tx_already_executed' \in [Replicas -> BOOLEAN]
    BY <1>5 DEF TypeOK, FieldsOK, RemoveRacingSend
  <2>4. /\ UNCHANGED <<accountVars, done, outstanding_counter>>
        /\ raced' = raced \cup {r}
    BY DEF RemoveRacingSend
  <2> QED
    BY <1>4, <2>1, <2>2, <2>3, <2>4 DEF TypeOK, FieldsOK
<1>7. \A s \in Replicas : PositionOK(s)'
  BY <1>1, RemoveStepPosition DEF RemoveRacingSend, Group!Multicast
<1> QED
  BY <1>3, <1>6, <1>7 DEF TypeOK

LEMMA TypeCleanRacingCheck ==
  ASSUME TypeOK, NEW r \in Replicas, CleanRacingCheck(r)
  PROVE  TypeOK'
<1>1. Group!TypeOK'
  BY DEF TypeOK, Group!TypeOK, CleanRacingCheck
<1>2. FieldsOK'
  BY DEF TypeOK, FieldsOK, CleanRacingCheck, ListenerDies
<1>3. \A s \in Replicas : PositionOK(s)'
  BY ListenerDiesPosition DEF CleanRacingCheck
<1> QED
  BY <1>1, <1>2, <1>3 DEF TypeOK

LEMMA TypeJoin ==
  ASSUME TypeOK, NEW r \in Replicas, Join(r)
  PROVE  TypeOK'
<1>1. Group!TypeOK'
  BY DEF TypeOK, Group!TypeOK, Join, Group!Join
<1>2. FieldsOK'
  BY DEF TypeOK, FieldsOK, Join
<1>3. pc[r] = "receive"
  BY DEF TypeOK, PositionOK, Join, Group!Join
<1>4. /\ \A s \in Replicas : s # r => delivered'[s] = delivered[s]
      /\ delivered'[r] = Len(log)
  BY DEF TypeOK, Group!TypeOK, Join, Group!Join
<1>5. ASSUME NEW s \in Replicas PROVE PositionOK(s)'
  BY <1>3, <1>4 DEF TypeOK, Group!TypeOK, PositionOK, Join, Group!Join, Current
<1> QED
  BY <1>1, <1>2, <1>5 DEF TypeOK

LEMMA TypeOrder ==
  ASSUME TypeOK, NEW r \in Replicas, Order(r)
  PROVE  TypeOK'
<1>1. /\ Head(submitted[r]) \in Seq(Slot)
      /\ Tail(submitted[r]) \in Seq(Seq(Slot))
  BY HeadTailProperties DEF TypeOK, Group!TypeOK, Order, Group!Order
<1>2. /\ log' \in Seq(Seq(Slot))
      /\ Len(log') = Len(log) + 1
      /\ \A m \in 1..Len(log) : log'[m] = log[m]
  BY <1>1, AppendProperties DEF TypeOK, Group!TypeOK, Order, Group!Order
<1>3. Group!TypeOK'
  BY <1>1, <1>2 DEF TypeOK, Group!TypeOK, Order, Group!Order
<1>4. FieldsOK'
  BY DEF TypeOK, FieldsOK, Order
<1>5. ASSUME NEW s \in Replicas PROVE PositionOK(s)'
  <2>1. pc[s] \in {"remove", "execute"} => delivered[s] \in 1..Len(log)
    BY CurrentType
  <2>2. pc[s] \in {"remove", "execute"} => log'[delivered[s]] = log[delivered[s]]
    BY <1>2, <2>1
  <2>3. UNCHANGED <<delivered, membership, pc, done>>
    BY DEF Order, Group!Order
  <2>4. Len(log) \in Nat /\ delivered[s] \in Nat
    BY DEF TypeOK, Group!TypeOK
  <2> QED
    BY <1>2, <2>2, <2>3, <2>4 DEF TypeOK, PositionOK, Current
<1> QED
  BY <1>3, <1>4, <1>5 DEF TypeOK

LEMMA TypeDisconnect ==
  ASSUME TypeOK, NEW r \in Replicas, Disconnect(r)
  PROVE  TypeOK'
<1>1. PICK k \in 0..Len(submitted[r]) :
        submitted' = [submitted EXCEPT ![r] = SubSeq(submitted[r], 1, k)]
  BY DEF Disconnect, Group!Disconnect
<1>2. SubSeq(submitted[r], 1, k) \in Seq(Seq(Slot))
  BY SubSeqProperties DEF TypeOK, Group!TypeOK
<1>3. Group!TypeOK'
  BY <1>1, <1>2 DEF TypeOK, Group!TypeOK, Disconnect, Group!Disconnect
<1>4. FieldsOK'
  BY DEF TypeOK, FieldsOK, Disconnect
<1>5. \A s \in Replicas : PositionOK(s)'
  BY DEF TypeOK, Group!TypeOK, PositionOK, Disconnect, Group!Disconnect, Current
<1> QED
  BY <1>3, <1>4, <1>5 DEF TypeOK

LEMMA TypeStep == TypeOK /\ [Next]_vars => TypeOK'
<1> SUFFICES ASSUME TypeOK, [Next]_vars PROVE TypeOK'
  OBVIOUS
<1>1. CASE UNCHANGED vars
  BY <1>1 DEF vars, TypeOK, Group!TypeOK, FieldsOK, PositionOK, Current
<1>2. ASSUME NEW r \in Replicas, Listen(r) PROVE TypeOK'
  BY <1>2, TypeReceiveMessage, TypeRemoveLocal, TypeListenerThrows, TypeSkipTransaction,
     TypeExecute DEF Listen
<1>3. ASSUME NEW r \in Replicas, Race(r) PROVE TypeOK'
  BY <1>3, TypeRemoveRacingAddThrows, TypeRemoveRacingAddTears, TypeRemoveRacingSend,
     TypeCleanRacingCheck, TypeExecute DEF Race
<1> QED
  BY <1>1, <1>2, <1>3, TypeProcessCommand, TypeCleanHistory, TypeSendOutstanding,
     TypeJoin, TypeOrder, TypeDisconnect DEF Next

\* Whatever commands are typed, however the threads of the clients interleave
\* and whichever unsynchronised lists they tear, the fields and the listener's
\* position keep their types: the loop of processReceivedTransactions (235)
\* never runs past the message it is in.
THEOREM TypeCorrect == Spec => []TypeOK
  BY TypeInit, TypeStep, PTL DEF Spec

-----------------------------------------------------------------------------
(* Agreement of the founders. *)

LedgerSound ==
  LedgerIsOfLog /\ OneAccountPerPoint /\ LedgerSteps /\ LedgerHasNoGaps

\* The point and the account after prev, by a transaction of its message or
\* by the beginning of the next message.
Follows(prev, m, i, a) ==
  \/ prev.msg = m /\ i = prev.idx + 1 /\ a = After(prev.account, log[m][i])
  \/ m = prev.msg + 1 /\ i = 0 /\ prev.idx = MessageLen(prev.msg) /\ a = prev.account

\* A point the ledger has already gets the account it has there.
LEMMA FollowsAgrees ==
  ASSUME LedgerSound, NEW prev \in ledger, NEW m \in Nat, NEW i \in Nat, NEW a,
         Follows(prev, m, i, a), NEW e \in ledger, e.msg = m, e.idx = i
  PROVE  e.account = a
  BY DEF LedgerSound, LedgerSteps, StepBetween, Follows

\* Writing down what follows from an entry keeps the ledger sound: a new
\* point is the last of the ledger, as the ledger has no gaps.
LEMMA LedgerExtends ==
  ASSUME TypeOK, LedgerSound, UNCHANGED log,
         NEW m \in 0..Len(log), NEW i \in 0..MessageLen(m), NEW a,
         NEW prev \in ledger, Follows(prev, m, i, a),
         ledger' = ledger \cup {[msg |-> m, idx |-> i, account |-> a]}
  PROVE  LedgerSound'
<1> DEFINE new == [msg |-> m, idx |-> i, account |-> a]
<1>1. /\ new.msg = m /\ new.idx = i /\ new.account = a
      /\ ledger' = ledger \cup {new}
  OBVIOUS
<1> HIDE DEF new
<1>2. \A e \in ledger : e.msg \in Nat /\ e.idx \in Nat
  <2>1. \A k \in 0..Len(log) : MessageLen(k) \in Nat
    BY DEF TypeOK, Group!TypeOK, MessageLen
  <2> QED
    BY <2>1 DEF LedgerSound, LedgerIsOfLog, TypeOK, Group!TypeOK
<1>3. m \in Nat /\ i \in Nat
  BY DEF TypeOK, Group!TypeOK, MessageLen
<1>4. \A k : MessageLen(k)' = MessageLen(k)
  BY DEF MessageLen
<1>5. \A e \in ledger : SamePoint(e, new) => e.account = a
  BY <1>1, <1>3, FollowsAgrees DEF SamePoint
<1>6. LedgerIsOfLog'
  BY <1>1, <1>4 DEF LedgerSound, LedgerIsOfLog
<1>7. OneAccountPerPoint'
  BY <1>1, <1>5 DEF LedgerSound, OneAccountPerPoint, SamePoint
<1>8. LedgerHasNoGaps'
  <2>1. ASSUME NEW f \in ledger PROVE NoGapBefore(f)'
    BY <1>1, <1>4 DEF LedgerSound, LedgerHasNoGaps, NoGapBefore
  <2>2. NoGapBefore(new)'
    BY <1>1, <1>2, <1>3, <1>4 DEF Follows, NoGapBefore
  <2> QED
    BY <1>1, <2>1, <2>2 DEF LedgerHasNoGaps
<1>9. CASE \E e \in ledger : SamePoint(e, new)
  <2>1. PICK same \in ledger : SamePoint(same, new)
    BY <1>9
  <2>2. same.msg = m /\ same.idx = i /\ same.account = a
    BY <1>1, <1>5, <2>1 DEF SamePoint
  <2>3. ASSUME NEW e \in ledger', NEW f \in ledger'
        PROVE  StepBetween(e, f)'
    <3> DEFINE old(x) == IF x = new THEN same ELSE x
    <3>1. \A x \in ledger' : /\ old(x) \in ledger /\ old(x).msg = x.msg
                             /\ old(x).idx = x.idx /\ old(x).account = x.account
      BY <1>1, <2>2
    <3>2. StepBetween(old(e), old(f))
      BY <3>1 DEF LedgerSound, LedgerSteps
    <3> HIDE DEF old
    <3> QED
      BY <1>4, <3>1, <3>2 DEF StepBetween
  <2> QED
    BY <1>6, <1>7, <1>8, <2>3 DEF LedgerSound, LedgerSteps
<1>10. CASE ~\E e \in ledger : SamePoint(e, new)
  <2>1. ASSUME NEW f \in ledger PROVE StepBetween(new, f)'
    <3>1. ~(f.msg = new.msg /\ f.idx = new.idx + 1)
      <4> SUFFICES ASSUME f.msg = new.msg, f.idx = new.idx + 1 PROVE FALSE
        OBVIOUS
      <4>1. PICK e \in ledger : e.msg = f.msg /\ e.idx = f.idx - 1
        BY <1>1, <1>2, <1>3 DEF LedgerSound, LedgerHasNoGaps, NoGapBefore
      <4> QED
        BY <1>1, <1>3, <1>10, <4>1 DEF SamePoint
    <3>2. ~(f.msg = new.msg + 1 /\ f.idx = 0 /\ new.idx = MessageLen(new.msg))
      <4> SUFFICES ASSUME f.msg = new.msg + 1, f.idx = 0, new.idx = MessageLen(new.msg)
                   PROVE  FALSE
        OBVIOUS
      <4>1. PICK e \in ledger : e.msg = f.msg - 1 /\ e.idx = MessageLen(e.msg)
        BY <1>1, <1>2, <1>3 DEF LedgerSound, LedgerHasNoGaps, NoGapBefore
      <4> QED
        BY <1>1, <1>3, <1>10, <4>1 DEF SamePoint
    <3> QED
      BY <1>4, <3>1, <3>2 DEF StepBetween
  <2>2. ASSUME NEW e \in ledger PROVE StepBetween(e, new)'
    <3>1. CASE /\ m = e.msg /\ i = e.idx + 1
      <4>1. prev.msg = e.msg /\ prev.idx = e.idx /\ a = After(prev.account, log[m][i])
        BY <1>2, <3>1 DEF Follows
      <4>2. prev.account = e.account
        BY <4>1 DEF LedgerSound, OneAccountPerPoint, SamePoint
      <4> QED
        BY <1>1, <1>2, <1>3, <3>1, <4>1, <4>2 DEF StepBetween
    <3>2. CASE m = e.msg + 1 /\ i = 0 /\ e.idx = MessageLen(e.msg)
      <4>1. prev.msg = e.msg /\ prev.idx = e.idx /\ a = prev.account
        BY <1>2, <3>2 DEF Follows
      <4>2. prev.account = e.account
        BY <4>1 DEF LedgerSound, OneAccountPerPoint, SamePoint
      <4> QED
        BY <1>1, <1>2, <1>3, <1>4, <3>2, <4>1, <4>2 DEF StepBetween
    <3>3. CASE /\ ~(m = e.msg /\ i = e.idx + 1)
               /\ ~(m = e.msg + 1 /\ i = 0 /\ e.idx = MessageLen(e.msg))
      BY <1>1, <1>4, <3>3 DEF StepBetween
    <3> QED
      BY <3>1, <3>2, <3>3
  <2>3. StepBetween(new, new)'
    BY <1>1, <1>3 DEF StepBetween
  <2>4. ASSUME NEW e \in ledger, NEW f \in ledger PROVE StepBetween(e, f)'
    BY <1>4 DEF LedgerSound, LedgerSteps, StepBetween
  <2>5. LedgerSteps'
    BY <1>1, <2>1, <2>2, <2>3, <2>4 DEF LedgerSteps
  <2> QED
    BY <1>6, <1>7, <1>8, <2>5 DEF LedgerSound
<1> QED
  BY <1>9, <1>10

\* Appending to the log leaves the ledger sound: its points are of messages
\* the log had before.
LEMMA LedgerSurvivesOrder ==
  ASSUME TypeOK, LedgerSound, NEW r \in Replicas, Order(r)
  PROVE  /\ LedgerSound'
         /\ \A m \in 0..Len(log) : MessageLen(m)' = MessageLen(m)
<1>1. Head(submitted[r]) \in Seq(Slot)
  BY HeadTailProperties DEF TypeOK, Group!TypeOK, Order, Group!Order
<1>2. /\ Len(log') = Len(log) + 1
      /\ \A m \in 1..Len(log) : log'[m] = log[m]
  BY <1>1, AppendProperties DEF TypeOK, Group!TypeOK, Order, Group!Order
<1>3. ledger' = ledger
  BY DEF Order
<1>4. Len(log) \in Nat
  BY DEF TypeOK, Group!TypeOK
<1>5. \A m \in 0..Len(log) : MessageLen(m)' = MessageLen(m)
  BY <1>2, <1>4 DEF MessageLen
<1>6. \A e \in ledger : /\ e.msg \in 0..Len(log)
                        /\ e.idx \in 0..MessageLen(e.msg)
                        /\ MessageLen(e.msg)' = MessageLen(e.msg)
                        /\ e.idx > 0 => log'[e.msg][e.idx] = log[e.msg][e.idx]
  <2>1. \A e \in ledger : e.msg \in 0..Len(log) /\ e.idx \in 0..MessageLen(e.msg)
    BY DEF LedgerSound, LedgerIsOfLog
  <2>2. \A e \in ledger : e.idx > 0 => e.msg \in 1..Len(log)
    BY <1>4, <2>1 DEF MessageLen
  <2> QED
    BY <1>2, <1>5, <2>1, <2>2
<1>7. LedgerIsOfLog'
  BY <1>2, <1>3, <1>4, <1>6 DEF LedgerIsOfLog
<1>8. OneAccountPerPoint'
  BY <1>3 DEF LedgerSound, OneAccountPerPoint, SamePoint
<1>9. LedgerSteps'
  <2>1. ASSUME NEW e \in ledger, NEW f \in ledger PROVE StepBetween(e, f)'
    <3>1. StepBetween(e, f)
      BY DEF LedgerSound, LedgerSteps
    <3>2. \A x \in ledger : MessageLen(x.msg) \in Nat /\ x.idx \in Nat
      BY <1>4, <1>6 DEF TypeOK, Group!TypeOK, MessageLen
    <3> QED
      BY <1>6, <3>1, <3>2 DEF StepBetween
  <2> QED
    BY <1>3, <2>1 DEF LedgerSteps
<1>10. LedgerHasNoGaps'
  BY <1>3, <1>6 DEF LedgerSound, LedgerHasNoGaps, NoGapBefore
<1> QED
  BY <1>5, <1>7, <1>8, <1>9, <1>10 DEF LedgerSound

LEMMA LedgerInit == Init => LedgerInv
<1> SUFFICES ASSUME Init PROVE LedgerInv
  OBVIOUS
<1>1. ledger = {[msg |-> 0, idx |-> 0, account |-> EmptyAccount]} /\ log = <<>>
  BY DEF Init, Group!Init
<1>2. LedgerIsOfLog
  BY <1>1 DEF LedgerIsOfLog, MessageLen
<1>3. OneAccountPerPoint /\ LedgerSteps /\ LedgerHasNoGaps
  BY <1>1 DEF OneAccountPerPoint, LedgerSteps, StepBetween, LedgerHasNoGaps, NoGapBefore
<1>4. ASSUME NEW r \in Founders PROVE InLedger(r)
  <2>1. r \in Replicas
    BY ClientAssumption
  <2>2. Account(r) = EmptyAccount
    BY <2>1 DEF Init, Account, EmptyAccount
  <2> QED
    BY <1>1, <2>1, <2>2 DEF Init, Group!Init, InLedger, MessageLen
<1> QED
  BY <1>2, <1>3, <1>4 DEF Init, LedgerInv, FoundersInLedger

\* A step that moves no listener and touches no account.
Unmoved ==
  /\ UNCHANGED <<log, delivered, done, balance, order_counter, history, ledger>>
  /\ \A s \in Replicas : /\ membership'[s] = "outside" => membership[s] = "outside"
                         /\ pc'[s] = "receive" => pc[s] = "receive"
                         /\ ~tx_already_executed'[s]

LEMMA LedgerUnmoved ==
  ASSUME TypeOK, LedgerInv, Unmoved
  PROVE  LedgerInv'
<1>1. LedgerIsOfLog' /\ OneAccountPerPoint' /\ LedgerSteps' /\ LedgerHasNoGaps'
  BY DEF Unmoved, LedgerInv, LedgerIsOfLog, OneAccountPerPoint, SamePoint, LedgerSteps,
     StepBetween, LedgerHasNoGaps, NoGapBefore, MessageLen
<1>2. FoundersInLedger'
  BY ClientAssumption
     DEF Unmoved, LedgerInv, FoundersInLedger, InLedger, Account, MessageLen
<1> QED
  BY <1>1, <1>2 DEF Unmoved, LedgerInv

\* The verdict of lines 238-244 is FALSE whatever the history holds.
LEMMA NeverAlreadyExecuted ==
  ASSUME NEW r, NEW tx
  PROVE  AlreadyExecuted(r, tx) = FALSE
  BY DEF AlreadyExecuted, VerdictOnMatch

LEMMA StepsUnmoved ==
  ASSUME TypeOK, LedgerInv, NEW r \in Replicas,
         \/ \E c \in UserCommands : \/ ProcessCommand(r, c)
                                    \/ RemoveRacingAddThrows(r, c)
                                    \/ RemoveRacingAddTears(r, c)
         \/ CleanHistory(r) \/ SendOutstanding(r) \/ Disconnect(r)
         \/ RemoveLocal(r) \/ RemoveThrows(r) \/ ParseThrows(r)
         \/ RemoveRacingSend(r) \/ CleanRacingCheck(r)
  PROVE  Unmoved
<1> USE DEF TypeOK, FieldsOK, Group!TypeOK, LedgerInv, Unmoved
<1>1. ASSUME NEW c \in UserCommands, ProcessCommand(r, c) PROVE Unmoved
  BY <1>1 DEF ProcessCommand
<1>2. ASSUME NEW c \in UserCommands, RemoveRacingAddThrows(r, c) PROVE Unmoved
  BY <1>2 DEF RemoveRacingAddThrows, ListenerDies
<1>3. ASSUME NEW c \in UserCommands, RemoveRacingAddTears(r, c) PROVE Unmoved
  BY <1>3, NeverAlreadyExecuted DEF RemoveRacingAddTears
<1>4. CASE CleanHistory(r)
  BY <1>4 DEF CleanHistory
<1>5. CASE SendOutstanding(r)
  BY <1>5 DEF SendOutstanding, Group!Multicast
<1>6. CASE Disconnect(r)
  BY <1>6 DEF Disconnect, Group!Disconnect
<1>7. CASE RemoveLocal(r)
  BY <1>7, NeverAlreadyExecuted DEF RemoveLocal
<1>8. CASE RemoveThrows(r) \/ ParseThrows(r)
  BY <1>8 DEF RemoveThrows, ParseThrows, ListenerDies
<1>9. CASE RemoveRacingSend(r)
  BY <1>9, NeverAlreadyExecuted DEF RemoveRacingSend, Group!Multicast
<1>10. CASE CleanRacingCheck(r)
  BY <1>10 DEF CleanRacingCheck, ListenerDies
<1> QED
  BY <1>1, <1>2, <1>3, <1>4, <1>5, <1>6, <1>7, <1>8, <1>9, <1>10

\* A listener that moves to a point which follows the one it is at.
Moves(r, m, i, a) ==
  /\ r \in Founders =>
       Follows([msg |-> delivered[r], idx |-> done[r], account |-> Account(r)], m, i, a)
  /\ m \in 0..Len(log) /\ i \in 0..MessageLen(m)
  /\ delivered'[r] = m /\ done'[r] = i /\ Account(r)' = a
  /\ pc'[r] = "receive" => i = MessageLen(m)
  /\ Record(r, m, i, a)
  /\ \A s \in Replicas \ {r} :
       /\ delivered'[s] = delivered[s] /\ done'[s] = done[s] /\ pc'[s] = pc[s]
       /\ Account(s)' = Account(s)
  /\ UNCHANGED <<log, membership, tx_already_executed>>

LEMMA LedgerMoves ==
  ASSUME TypeOK, LedgerInv, NEW r \in Replicas, NEW m, NEW i, NEW a, Moves(r, m, i, a)
  PROVE  LedgerInv'
<1>1. LedgerSound
  BY DEF LedgerInv, LedgerSound
<1>2. CASE r \notin Founders
  <2>1. UNCHANGED <<ledger, log, membership, tx_already_executed>>
    BY <1>2 DEF Moves, Record
  <2>2. LedgerSound'
    BY <1>1, <2>1 DEF LedgerSound, LedgerIsOfLog, OneAccountPerPoint, SamePoint,
       LedgerSteps, StepBetween, LedgerHasNoGaps, NoGapBefore, MessageLen
  <2>3. FoundersInLedger'
    <3>1. ASSUME NEW s \in Founders PROVE InLedger(s)'
      <4>1. s \in Replicas \ {r}
        BY <1>2, ClientAssumption
      <4> QED
        BY <2>1, <4>1 DEF LedgerInv, FoundersInLedger, InLedger, Moves, MessageLen
    <3> QED
      BY <3>1 DEF FoundersInLedger
  <2> QED
    BY <2>1, <2>2, <2>3 DEF LedgerInv, LedgerSound
<1>3. CASE r \in Founders
  <2> DEFINE prev == [msg |-> delivered[r], idx |-> done[r], account |-> Account(r)]
             new == [msg |-> m, idx |-> i, account |-> a]
  <2>1. prev \in ledger
    BY <1>3 DEF LedgerInv, FoundersInLedger, InLedger
  <2>2. ledger' = ledger \cup {new}
    BY <1>3 DEF Moves, Record
  <2>3. LedgerSound'
    BY <1>1, <1>3, <2>1, <2>2, LedgerExtends DEF Moves
  <2>4. ASSUME NEW s \in Founders PROVE InLedger(s)'
    <3>1. CASE s = r
      BY <1>3, <2>2, <3>1 DEF LedgerInv, FoundersInLedger, InLedger, Moves, MessageLen
    <3>2. CASE s # r
      <4>1. s \in Replicas \ {r}
        BY <3>2, ClientAssumption
      <4> QED
        BY <2>2, <4>1 DEF LedgerInv, FoundersInLedger, InLedger, Moves, MessageLen
    <3> QED
      BY <3>1, <3>2
  <2> QED
    BY <2>3, <2>4 DEF LedgerInv, LedgerSound, FoundersInLedger, Moves
<1> QED
  BY <1>2, <1>3

LEMMA ReceiveMoves ==
  ASSUME TypeOK, LedgerInv, NEW r \in Replicas, ReceiveMessage(r)
  PROVE  Moves(r, delivered[r] + 1, 0, Account(r))
<1>1. delivered[r] + 1 \in 1..Len(log)
  BY DEF TypeOK, Group!TypeOK, ReceiveMessage, Group!Deliver
<1>2. log[delivered[r] + 1] \in Seq(Slot)
  BY <1>1 DEF TypeOK, Group!TypeOK
<1>3. MessageLen(delivered[r] + 1) = Len(log[delivered[r] + 1])
  BY <1>1 DEF MessageLen
<1>4. \A s \in Replicas : Account(s)' = Account(s)
  BY DEF Account, ReceiveMessage
<1>5. /\ delivered' = [delivered EXCEPT ![r] = delivered[r] + 1]
      /\ done' = [done EXCEPT ![r] = 0]
      /\ pc' = [pc EXCEPT ![r] =
                  IF log[delivered[r] + 1] = <<>> THEN "receive" ELSE "remove"]
      /\ UNCHANGED <<log, membership, tx_already_executed>>
      /\ Record(r, delivered[r] + 1, 0, Account(r))
      /\ pc[r] = "receive"
  BY DEF ReceiveMessage, Group!Deliver
<1>6. r \in Founders =>
        Follows([msg |-> delivered[r], idx |-> done[r], account |-> Account(r)],
                delivered[r] + 1, 0, Account(r))
  BY <1>5 DEF LedgerInv, FoundersInLedger, InLedger, Follows
<1>7. pc'[r] = "receive" => 0 = MessageLen(delivered[r] + 1)
  BY <1>2, <1>3, <1>5 DEF TypeOK, FieldsOK
<1>8. delivered[r] + 1 \in 0..Len(log) /\ 0 \in 0..MessageLen(delivered[r] + 1)
  BY <1>1, <1>2, <1>3
<1> QED
  BY <1>4, <1>5, <1>6, <1>7, <1>8 DEF Moves, TypeOK, FieldsOK, Group!TypeOK

\* What the transaction in hand does to the account depends on nothing but
\* the transaction and the account.
LEMMA TransactionMoves ==
  ASSUME TypeOK, LedgerInv, NEW r \in Replicas, pc[r] = "execute", NextTransaction(r),
         UNCHANGED <<log, membership, delivered>>,
         Account(r)' = After(Account(r), Current(r)),
         \A s \in Replicas \ {r} : Account(s)' = Account(s),
         Record(r, delivered[r], done[r] + 1, Account(r)')
  PROVE  Moves(r, delivered[r], done[r] + 1, Account(r)')
<1>1. /\ delivered[r] \in 1..Len(log)
      /\ done[r] + 1 \in 1..Len(log[delivered[r]])
      /\ Len(log[delivered[r]]) \in Nat
  BY CurrentType
<1>2. MessageLen(delivered[r]) = Len(log[delivered[r]])
  BY <1>1 DEF MessageLen
<1>3. /\ done' = [done EXCEPT ![r] = done[r] + 1]
      /\ pc' = [pc EXCEPT ![r] = AfterTransaction(r)]
      /\ UNCHANGED tx_already_executed
  BY DEF NextTransaction
<1>4. Follows([msg |-> delivered[r], idx |-> done[r], account |-> Account(r)],
              delivered[r], done[r] + 1, Account(r)')
  BY DEF Follows, Current
<1>5. pc'[r] = "receive" => done[r] + 1 = MessageLen(delivered[r])
  BY <1>1, <1>2, <1>3 DEF AfterTransaction, TypeOK, FieldsOK
<1>6. delivered[r] \in 0..Len(log) /\ done[r] + 1 \in 0..MessageLen(delivered[r])
  BY <1>1, <1>2
<1> QED
  BY <1>3, <1>4, <1>5, <1>6 DEF Moves, TypeOK, FieldsOK, Group!TypeOK

LEMMA SkipMoves ==
  ASSUME TypeOK, LedgerInv, NEW r \in Replicas, SkipTransaction(r)
  PROVE  Moves(r, delivered[r], done[r] + 1, Account(r)')
<1>1. Current(r).command.name \in {"getSyncedBalance", "other"}
  BY DEF LedgerInv, SkipTransaction, Skips
<1>2. \A s \in Replicas : Account(s)' = Account(s)
  BY DEF Account, SkipTransaction
<1>3. Account(r)' = After(Account(r), Current(r))
  BY <1>1, <1>2 DEF After
<1> QED
  BY <1>2, <1>3, TransactionMoves DEF SkipTransaction

LEMMA ExecuteMoves ==
  ASSUME TypeOK, LedgerInv, NEW r \in Replicas, NEW list, ExecuteOnto(r, list)
  PROVE  Moves(r, delivered[r], done[r] + 1, Account(r)')
<1>1. Current(r).command.name \notin {"getSyncedBalance", "other"}
  BY DEF ExecuteOnto, Skips
<1>2. /\ balance' = [balance EXCEPT ![r] = Apply(balance[r], Current(r).command)]
      /\ order_counter' = [order_counter EXCEPT ![r] = order_counter[r] + 1]
      /\ history' = [history EXCEPT ![r] = Append(history[r], Current(r))]
  BY DEF ExecuteOnto
<1>3. Account(r)' = After(Account(r), Current(r))
  BY <1>1, <1>2 DEF After, Account, TypeOK, FieldsOK
<1>4. \A s \in Replicas \ {r} : Account(s)' = Account(s)
  BY <1>2 DEF Account, TypeOK, FieldsOK
<1>5. Record(r, delivered[r], done[r] + 1, Account(r)')
  BY DEF ExecuteOnto, Account
<1> QED
  BY <1>3, <1>4, <1>5, TransactionMoves DEF ExecuteOnto

LEMMA LedgerOrder ==
  ASSUME TypeOK, LedgerInv, NEW r \in Replicas, Order(r)
  PROVE  LedgerInv'
<1>1. LedgerSound' /\ \A m \in 0..Len(log) : MessageLen(m)' = MessageLen(m)
  BY LedgerSurvivesOrder DEF LedgerInv, LedgerSound
<1>2. UNCHANGED <<ledger, delivered, done, pc, balance, order_counter, history,
                  membership, tx_already_executed>>
  BY DEF Order, Group!Order
<1>3. \A s \in Founders : delivered[s] \in 0..Len(log)
  BY ClientAssumption DEF TypeOK, PositionOK, Group!TypeOK
<1>4. FoundersInLedger'
  BY <1>1, <1>2, <1>3 DEF LedgerInv, FoundersInLedger, InLedger, Account
<1> QED
  BY <1>1, <1>2, <1>4 DEF LedgerInv, LedgerSound

\* Only a client that is not a founder can join.
LEMMA LedgerJoin ==
  ASSUME TypeOK, LedgerInv, NEW r \in Replicas, Join(r)
  PROVE  LedgerInv'
<1>1. r \notin Founders
  BY DEF Join, Group!Join, LedgerInv, FoundersInLedger, InLedger
<1>2. UNCHANGED <<log, ledger, done, pc, balance, order_counter, history,
                  tx_already_executed>>
  BY DEF Join, Group!Join
<1>3. \A s \in Founders : delivered'[s] = delivered[s] /\ membership'[s] = membership[s]
  BY <1>1, ClientAssumption DEF Join, Group!Join, TypeOK, Group!TypeOK
<1>4. LedgerIsOfLog' /\ OneAccountPerPoint' /\ LedgerSteps' /\ LedgerHasNoGaps'
  BY <1>2 DEF LedgerInv, LedgerIsOfLog, OneAccountPerPoint, SamePoint, LedgerSteps,
     StepBetween, LedgerHasNoGaps, NoGapBefore, MessageLen
<1>5. FoundersInLedger'
  BY <1>2, <1>3 DEF LedgerInv, FoundersInLedger, InLedger, Account, MessageLen
<1> QED
  BY <1>2, <1>4, <1>5 DEF LedgerInv

LEMMA LedgerStep == TypeOK /\ LedgerInv /\ [Next]_vars => LedgerInv'
<1> SUFFICES ASSUME TypeOK, LedgerInv, [Next]_vars PROVE LedgerInv'
  OBVIOUS
<1>1. CASE UNCHANGED vars
  <2>1. Unmoved
    BY <1>1 DEF vars, Unmoved, LedgerInv
  <2> QED
    BY <2>1, LedgerUnmoved
<1>2. ASSUME NEW r \in Replicas, Listen(r) PROVE LedgerInv'
  BY <1>2, StepsUnmoved, LedgerUnmoved, ReceiveMoves, SkipMoves, ExecuteMoves, LedgerMoves
     DEF Listen, ExecuteTransaction
<1>3. ASSUME NEW r \in Replicas, Race(r) PROVE LedgerInv'
  BY <1>3, StepsUnmoved, LedgerUnmoved, ExecuteMoves, LedgerMoves
     DEF Race, ExecuteRacingClean
<1> QED
  BY <1>1, <1>2, <1>3, StepsUnmoved, LedgerUnmoved, LedgerOrder, LedgerJoin DEF Next

\* The ledger is sound in every run: the inductive invariant of agreement.
THEOREM LedgerCorrect == Spec => []LedgerInv
  BY TypeCorrect, LedgerInit, LedgerStep, PTL DEF Spec

LEMMA LedgerGivesAgreement == LedgerInv => FoundersAgree
<1> SUFFICES ASSUME LedgerInv, NEW r \in Founders, NEW s \in Founders,
                    delivered[r] = delivered[s], done[r] = done[s]
             PROVE  Account(r) = Account(s)
  BY DEF FoundersAgree
<1> DEFINE e == [msg |-> delivered[r], idx |-> done[r], account |-> Account(r)]
           f == [msg |-> delivered[s], idx |-> done[s], account |-> Account(s)]
<1>1. e \in ledger /\ f \in ledger
  BY DEF LedgerInv, FoundersInLedger, InLedger
<1> QED
  BY <1>1 DEF LedgerInv, OneAccountPerPoint, SamePoint

\* Any number of clients, typing any commands, broadcasting, cleaning and
\* crashing at any time, with every race of their lists: founders that have
\* worked through the same part of the log show the same account.
THEOREM Agreement == Spec => []FoundersAgree
  BY LedgerCorrect, LedgerGivesAgreement, PTL

-----------------------------------------------------------------------------
(* Refinement: the clients implement the abstract account. *)

LEMMA AgreedInit == Init => Agreed!Init
<1> SUFFICES ASSUME Init PROVE Agreed!Init
  OBVIOUS
<1>1. ledger = {Agreed!Entry(<<0, 0>>, EmptyAccount)}
  BY DEF Init, Agreed!Entry
<1>2. FounderPoints = [r \in Founders |-> <<0, 0>>]
  BY ClientAssumption DEF Init, Group!Init, FounderPoints
<1>3. FounderAccounts = [r \in Founders |-> EmptyAccount]
  BY ClientAssumption DEF Init, FounderAccounts, Account, EmptyAccount
<1> QED
  BY <1>1, <1>2, <1>3 DEF Agreed!Init

LEMMA MovesReach ==
  ASSUME TypeOK, LedgerInv, NEW r \in Founders, NEW m, NEW i, NEW a, Moves(r, m, i, a)
  PROVE  Agreed!Reach(r, <<m, i>>, a)
<1> DEFINE prev == [msg |-> delivered[r], idx |-> done[r], account |-> Account(r)]
<1>1. prev \in ledger /\ LedgerSound
  BY DEF LedgerInv, LedgerSound, FoundersInLedger, InLedger
<1>2. m \in Nat /\ i \in Nat
  BY DEF Moves, MessageLen, TypeOK, Group!TypeOK
<1>3. \A e \in ledger : e.msg = m /\ e.idx = i => e.account = a
  BY <1>1, <1>2, FollowsAgrees DEF Moves
<1>4. ledger' = ledger \cup {Agreed!Entry(<<m, i>>, a)}
  BY DEF Moves, Record, Agreed!Entry
<1>5. FounderPoints' = [FounderPoints EXCEPT ![r] = <<m, i>>]
  BY ClientAssumption DEF Moves, FounderPoints
<1>6. FounderAccounts' = [FounderAccounts EXCEPT ![r] = a]
  BY ClientAssumption DEF Moves, FounderAccounts, Account
<1> QED
  BY <1>3, <1>4, <1>5, <1>6 DEF Agreed!Reach

LEMMA MovesAgreed ==
  ASSUME TypeOK, TypeOK', LedgerInv, NEW r \in Replicas, NEW m, NEW i, NEW a,
         Moves(r, m, i, a),
         \/ m = delivered[r] + 1 /\ i = 0 /\ a = Account(r)
         \/ m = delivered[r] /\ i = done[r] + 1 /\ a = Account(r)'
  PROVE  [Agreed!Next]_(Agreed!vars)
<1>1. CASE r \notin Founders
  <2>1. ledger' = ledger
    BY <1>1 DEF Moves, Record
  <2>2. FounderPoints' = FounderPoints /\ FounderAccounts' = FounderAccounts
    BY <1>1, ClientAssumption DEF Moves, FounderPoints, FounderAccounts, Account
  <2> QED
    BY <2>1, <2>2 DEF Agreed!vars
<1>2. CASE r \in Founders
  <2>1. Agreed!Reach(r, <<m, i>>, a)
    BY <1>2, MovesReach
  <2>2. /\ FounderPoints[r] = <<delivered[r], done[r]>>
        /\ FounderAccounts[r] = Account(r)
        /\ FounderAccounts'[r] = Account(r)'
    BY <1>2 DEF FounderPoints, FounderAccounts, Account
  <2>3. Account(r)' \in Accounts
    BY <1>2, ClientAssumption DEF TypeOK, FieldsOK, Account, Accounts
  <2>4. CASE m = delivered[r] + 1 /\ i = 0 /\ a = Account(r)
    BY <1>2, <2>1, <2>2, <2>4 DEF Agreed!NextMessage, Agreed!Next
  <2>5. CASE m = delivered[r] /\ i = done[r] + 1 /\ a = Account(r)'
    BY <1>2, <2>1, <2>2, <2>3, <2>5 DEF Agreed!NextTransaction, Agreed!Next
  <2> QED
    BY <2>4, <2>5
<1> QED
  BY <1>1, <1>2

LEMMA UnmovedAgreed ==
  ASSUME UNCHANGED <<ledger, done, balance, order_counter, history>>,
         \A s \in Founders : delivered'[s] = delivered[s]
  PROVE  UNCHANGED Agreed!vars
  BY DEF Agreed!vars, FounderPoints, FounderAccounts, Account

LEMMA AgreedStep ==
  TypeOK /\ TypeOK' /\ LedgerInv /\ [Next]_vars => [Agreed!Next]_(Agreed!vars)
<1> SUFFICES ASSUME TypeOK, TypeOK', LedgerInv, [Next]_vars
             PROVE  [Agreed!Next]_(Agreed!vars)
  OBVIOUS
<1>1. CASE UNCHANGED vars
  BY <1>1, UnmovedAgreed DEF vars
<1>2. CASE Unmoved
  BY <1>2, UnmovedAgreed DEF Unmoved
<1>3. ASSUME NEW r \in Replicas, Order(r) PROVE UNCHANGED Agreed!vars
  BY <1>3, UnmovedAgreed DEF Order, Group!Order
<1>4. ASSUME NEW r \in Replicas, Join(r) PROVE UNCHANGED Agreed!vars
  <2>1. r \notin Founders
    BY <1>4 DEF Join, Group!Join, LedgerInv, FoundersInLedger, InLedger
  <2>2. \A s \in Founders : delivered'[s] = delivered[s]
    BY <1>4, <2>1, ClientAssumption DEF Join, Group!Join, TypeOK, Group!TypeOK
  <2> QED
    BY <1>4, <2>2, UnmovedAgreed DEF Join, Group!Join
<1>5. ASSUME NEW r \in Replicas, ReceiveMessage(r) PROVE [Agreed!Next]_(Agreed!vars)
  BY <1>5, ReceiveMoves, MovesAgreed
<1>6. ASSUME NEW r \in Replicas,
             \/ SkipTransaction(r) \/ ExecuteTransaction(r) \/ ExecuteRacingClean(r)
      PROVE  [Agreed!Next]_(Agreed!vars)
  BY <1>6, SkipMoves, ExecuteMoves, MovesAgreed DEF ExecuteTransaction, ExecuteRacingClean
<1>7. ASSUME NEW r \in Replicas, Listen(r) PROVE [Agreed!Next]_(Agreed!vars)
  BY <1>2, <1>5, <1>6, <1>7, StepsUnmoved DEF Listen
<1>8. ASSUME NEW r \in Replicas, Race(r) PROVE [Agreed!Next]_(Agreed!vars)
  BY <1>2, <1>6, <1>8, StepsUnmoved DEF Race
<1> QED
  BY <1>1, <1>2, <1>3, <1>4, <1>7, <1>8, StepsUnmoved DEF Next

\* Every step of the clients is a step of the abstract account or none: a
\* founder only ever shows the one account that belongs to its point.
THEOREM Refinement == Spec => ImplementsAgreedAccount
  BY TypeCorrect, LedgerCorrect, AgreedInit, AgreedStep, PTL
     DEF Spec, ImplementsAgreedAccount, Agreed!Spec
=============================================================================
