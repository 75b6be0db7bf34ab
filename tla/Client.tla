------------------------------- MODULE Client -------------------------------
(***************************************************************************)
(* The replicated account of Client.java: several clients, each with three *)
(* threads, over the agreed log of GroupLog.                               *)
(*                                                                         *)
(*   command thread    processCommand: puts transactions on                *)
(*                     outstanding_collection, clears the history          *)
(*   scheduler thread  broadcastOutstanding: multicasts a copy of          *)
(*                     outstanding_collection, which it does not clear     *)
(*   listener thread   processReceivedTransactions: works through one      *)
(*                     message, one transaction at a time                  *)
(*                                                                         *)
(* The listener calls removeIf at line 247, and the scheduler serializes   *)
(* the list, without the list's lock, and cleanHistory clears a list the   *)
(* listener reads: the actions named ...Racing... are the overlaps of two  *)
(* threads whose outcome no order of the two atomic operations gives       *)
(* (module OutstandingList derives them from the array underneath).        *)
(***************************************************************************)
EXTENDS SequencesExt

CONSTANTS
  Replicas,       \* the ids of the clients
  Founders,       \* the clients main waits for before any command is read
  UserCommands,   \* the commands that become transactions
  NotANumber,     \* an argument Double.parseDouble rejects
  Hole,           \* a null left in a list by a race
  MaxCommands,    \* bound: transactions each client creates
  MaxSends        \* bound: ticks of each client's scheduler; the last comes
                  \* after the client's last command

\* A command line, parsed: its first word and its argument.  "other" is a
\* word that only starts with deposit or addInterest, such as "deposits".
Command == [name : {"deposit", "addInterest", "getSyncedBalance", "other"},
            value : Int \cup {NotANumber}]

Transaction == [command : Command, uniqueId : Replicas \X Nat]

\* What a place of a list can hold.
Slot == Transaction \cup {Hole}

ASSUME ClientAssumption ==
  /\ Founders \subseteq Replicas
  /\ UserCommands \subseteq Command
  /\ NotANumber \notin Int
  /\ Hole \notin Transaction
  /\ MaxCommands \in [Replicas -> Nat]
  /\ MaxSends \in [Replicas -> Nat]

VARIABLES
  \* the group (module GroupLog)
  submitted, log, delivered, membership,
  \* the fields of Client
  balance, order_counter, outstanding_counter,
  executed_list, outstanding_collection,
  \* the threads
  pc,                    \* where the listener thread is
  done,                  \* how many transactions of its message it finished
  tx_already_executed,   \* its local variable
  broadcasting,          \* the scheduler still runs broadcastOutstanding
  sends,                 \* how often it has
  \* history variables: nothing above depends on them
  history,               \* all that a client executed, cleanHistory or not
  ledger,                \* the account at each point a founder has reached
  raced                  \* clients whose outstanding_collection was torn

Group == INSTANCE GroupLog WITH Members <- Replicas, Messages <- Seq(Slot)

groupVars == <<submitted, log, delivered, membership>>
accountVars == <<balance, order_counter, executed_list, history, ledger>>
listenerVars == <<pc, done, tx_already_executed>>
enqueueVars == <<outstanding_counter, outstanding_collection>>
schedulerVars == <<broadcasting, sends>>
vars == <<groupVars, accountVars, listenerVars, enqueueVars, schedulerVars, raced>>

-----------------------------------------------------------------------------
(* The account and its history. *)

\* deposit and addInterest; the quotient stands for the rounding of a double.
Apply(b, c) ==
  IF c.name = "deposit" THEN b + c.value ELSE b + ((b * c.value) \div 100)

Account(r) == [balance |-> balance[r], order_counter |-> order_counter[r],
               history |-> history[r]]

EmptyAccount == [balance |-> 0, order_counter |-> 0, history |-> <<>>]

Init ==
  /\ Group!Init
  /\ balance = [r \in Replicas |-> 0]
  /\ order_counter = [r \in Replicas |-> 0]
  /\ outstanding_counter = [r \in Replicas |-> 0]
  /\ executed_list = [r \in Replicas |-> <<>>]
  /\ outstanding_collection = [r \in Replicas |-> <<>>]
  /\ pc = [r \in Replicas |-> "receive"]
  /\ done = [r \in Replicas |-> 0]
  /\ tx_already_executed = [r \in Replicas |-> FALSE]
  /\ broadcasting = [r \in Replicas |-> TRUE]
  /\ sends = [r \in Replicas |-> 0]
  /\ history = [r \in Replicas |-> <<>>]
  /\ ledger = {[msg |-> 0, idx |-> 0, account |-> EmptyAccount]}
  /\ raced = {}

\* Every founder's account is written down at the point of the log it is at.
Record(r, m, i, account) ==
  ledger' = IF r \in Founders
            THEN ledger \cup {[msg |-> m, idx |-> i, account |-> account]}
            ELSE ledger

-----------------------------------------------------------------------------
(* The command thread. *)

InGroup(r) == membership[r] = "member"

NewTransaction(r, c) == [command |-> c, uniqueId |-> <<r, outstanding_counter[r]>>]

CountTransaction(r) ==
  /\ InGroup(r)
  /\ outstanding_counter[r] < MaxCommands[r] /\ sends[r] < MaxSends[r]
  /\ outstanding_counter' = [outstanding_counter EXCEPT ![r] = @ + 1]

MutantEnqueued(list, tx) == <<tx>> \o list
Enqueued(list, tx) == Append(list, tx)

\* A list that changes while the scheduler serializes it makes writeObject
\* throw: the periodic task is then never run again.
SchedulerMayOverlap(r) ==
  /\ \/ UNCHANGED broadcasting
     \/ broadcasting[r] /\ sends[r] < MaxSends[r]
        /\ broadcasting' = [broadcasting EXCEPT ![r] = FALSE]
  /\ UNCHANGED sends

\* deposit, addInterest and getSynchedBalance (not in naive mode).
ProcessCommand(r, c) ==
  /\ CountTransaction(r)
  /\ outstanding_collection' =
       [outstanding_collection EXCEPT ![r] = Enqueued(@, NewTransaction(r, c))]
  /\ SchedulerMayOverlap(r)
  /\ UNCHANGED <<groupVars, accountVars, listenerVars, raced>>

MutantCleanHistory(r) ==
  /\ InGroup(r)
  /\ executed_list' = [executed_list EXCEPT ![r] = <<>>]
  /\ order_counter' = [order_counter EXCEPT ![r] = 0]
  /\ UNCHANGED <<groupVars, balance, history, ledger,
                 listenerVars, enqueueVars, schedulerVars, raced>>
CleanHistory(r) ==
  /\ InGroup(r)
  /\ executed_list' = [executed_list EXCEPT ![r] = <<>>]
  /\ UNCHANGED <<groupVars, balance, order_counter, history, ledger,
                 listenerVars, enqueueVars, schedulerVars, raced>>

-----------------------------------------------------------------------------
(* The scheduler thread. *)

Tick(r) ==
  /\ broadcasting[r]
  /\ sends[r] < MaxSends[r]
  /\ sends' = [sends EXCEPT ![r] = @ + 1]
  /\ UNCHANGED broadcasting

\* The message: everything outstanding, which stays outstanding.
MutantContent(r) == SubSeq(outstanding_collection[r], 2, Len(outstanding_collection[r]))
Content(r) == outstanding_collection[r]

SendOutstanding(r) ==
  /\ Tick(r)
  /\ Group!Multicast(r, Content(r))
  /\ UNCHANGED <<accountVars, listenerVars, enqueueVars, raced>>

-----------------------------------------------------------------------------
(* The listener thread. *)

\* The transactions of the message it is at, and the one in hand.
MessageLen(m) == IF m = 0 THEN 0 ELSE Len(log[m])
Current(r) == log[delivered[r]][done[r] + 1]

ReceiveMessage(r) ==
  /\ pc[r] = "receive"
  /\ Group!Deliver(r)
  /\ done' = [done EXCEPT ![r] = 0]
  /\ pc' = [pc EXCEPT ![r] =
              IF log[delivered[r] + 1] = <<>> THEN "receive" ELSE "remove"]
  /\ Record(r, delivered[r] + 1, 0, Account(r))
  /\ UNCHANGED <<balance, order_counter, executed_list, history,
                 tx_already_executed, enqueueVars, schedulerVars, raced>>

\* The places of a list that hold the transaction with this id.
Places(list, uniqueId) ==
  {i \in DOMAIN list : list[i] # Hole /\ list[i].uniqueId = uniqueId}

\* What the loop of lines 239-244 assigns when it finds the transaction.
MutantVerdictOnMatch == TRUE
VerdictOnMatch == FALSE

AlreadyExecuted(r, tx) ==
  IF Places(executed_list[r], tx.uniqueId) # {} THEN VerdictOnMatch ELSE FALSE

\* Reading a field of a null: the transaction in hand, one of executed_list
\* before the match that ends the loop, or one of outstanding_collection.
NullRead(r) ==
  \/ Current(r) = Hole
  \/ \E h \in DOMAIN executed_list[r] :
       /\ Current(r) # Hole
       /\ executed_list[r][h] = Hole
       /\ \A i \in Places(executed_list[r], Current(r).uniqueId) : h < i
  \/ \E h \in DOMAIN outstanding_collection[r] : outstanding_collection[r][h] = Hole

\* removeIf, as the set of the one list it leaves.  The places of one
\* transaction are next to each other: only a race makes them more than one.
MutantWithout(list, uniqueId) == {list}
Without(list, uniqueId) ==
  IF Places(list, uniqueId) = {} THEN {list}
  ELSE {SubSeq(list, 1, p[1] - 1) \o SubSeq(list, p[2] + 1, Len(list)) :
          p \in {q \in Places(list, uniqueId) \X Places(list, uniqueId) :
                  \A i \in Places(list, uniqueId) : q[1] <= i /\ i <= q[2]}}

RemoveIf(r, uniqueId) ==
  \E list \in Without(outstanding_collection[r], uniqueId) :
    outstanding_collection' = [outstanding_collection EXCEPT ![r] = list]

\* An exception the handler does not catch ends Spread's listener thread.
ListenerDies(r) ==
  /\ pc' = [pc EXCEPT ![r] = "dead"]
  /\ UNCHANGED <<done, tx_already_executed>>

\* Lines 237-247: is the transaction in hand executed already; take it off
\* the local list.
RemoveLocal(r) ==
  /\ pc[r] = "remove"
  /\ InGroup(r)
  /\ ~NullRead(r)
  /\ tx_already_executed' =
       [tx_already_executed EXCEPT ![r] = AlreadyExecuted(r, Current(r))]
  /\ RemoveIf(r, Current(r).uniqueId)
  /\ IF Places(outstanding_collection[r], Current(r).uniqueId) = {}
     THEN UNCHANGED schedulerVars ELSE SchedulerMayOverlap(r)
  /\ pc' = [pc EXCEPT ![r] = "execute"]
  /\ UNCHANGED <<groupVars, accountVars, done, outstanding_counter, raced>>

RemoveThrows(r) ==
  /\ pc[r] = "remove"
  /\ InGroup(r)
  /\ NullRead(r)
  /\ ListenerDies(r)
  /\ UNCHANGED <<groupVars, accountVars, enqueueVars, schedulerVars, raced>>

\* On to the next transaction of the message, or to the next message.
MutantAfterTransaction(r) ==
  IF done[r] + 1 <= Len(log[delivered[r]]) THEN "remove" ELSE "receive"
AfterTransaction(r) ==
  IF done[r] + 1 < Len(log[delivered[r]]) THEN "remove" ELSE "receive"

NextTransaction(r) ==
  /\ done' = [done EXCEPT ![r] = @ + 1]
  /\ pc' = [pc EXCEPT ![r] = AfterTransaction(r)]
  /\ UNCHANGED tx_already_executed

\* continue: a duplicate, a read (it prints the balance), an unknown command.
MutantSkips(r) ==
  \/ tx_already_executed[r]
  \/ Current(r).uniqueId[1] = r
  \/ Current(r).command.name \in {"getSyncedBalance", "other"}
Skips(r) ==
  \/ tx_already_executed[r]
  \/ Current(r).command.name \in {"getSyncedBalance", "other"}

SkipTransaction(r) ==
  /\ pc[r] = "execute"
  /\ InGroup(r)
  /\ Skips(r)
  /\ NextTransaction(r)
  /\ Record(r, delivered[r], done[r] + 1, Account(r))
  /\ UNCHANGED <<groupVars, balance, order_counter, executed_list, history,
                 enqueueVars, schedulerVars, raced>>

\* Lines 275-285, the transaction kept at the end of the list given.
ExecuteOnto(r, list) ==
  /\ pc[r] = "execute"
  /\ InGroup(r)
  /\ ~Skips(r)
  /\ Current(r).command.value # NotANumber
  /\ balance' = [balance EXCEPT ![r] = Apply(@, Current(r).command)]
  /\ order_counter' = [order_counter EXCEPT ![r] = @ + 1]
  /\ executed_list' = [executed_list EXCEPT ![r] = Append(list, Current(r))]
  /\ history' = [history EXCEPT ![r] = Append(@, Current(r))]
  /\ NextTransaction(r)
  /\ Record(r, delivered[r], done[r] + 1,
            [balance |-> balance'[r], order_counter |-> order_counter'[r],
             history |-> history'[r]])
  /\ UNCHANGED <<groupVars, enqueueVars, schedulerVars, raced>>

ExecuteTransaction(r) == ExecuteOnto(r, executed_list[r])

\* Double.parseDouble throws.
ParseThrows(r) ==
  /\ pc[r] = "execute"
  /\ InGroup(r)
  /\ ~Skips(r)
  /\ Current(r).command.value = NotANumber
  /\ ListenerDies(r)
  /\ UNCHANGED <<groupVars, accountVars, enqueueVars, schedulerVars, raced>>

-----------------------------------------------------------------------------
(* Overlaps of two threads in one unsynchronised list. *)

\* The lists below are for a transaction in hand that the list holds once.
HeldOnce(r) ==
  \E i \in DOMAIN outstanding_collection[r] :
    Places(outstanding_collection[r], Current(r).uniqueId) = {i}

\* removeIf finds that add changed the list under it.
RemoveRacingAddThrows(r, c) ==
  /\ pc[r] = "remove"
  /\ ~NullRead(r)
  /\ CountTransaction(r)
  /\ outstanding_collection' =
       [outstanding_collection EXCEPT ![r] = Enqueued(@, NewTransaction(r, c))]
  /\ ListenerDies(r)
  /\ UNCHANGED <<groupVars, accountVars, schedulerVars, raced>>

\* What removeIf and add, both storing a size, leave besides what they leave
\* in turn: the new transaction is lost, leaving a null or nothing; it stands
\* after a null; or the last of the old list stands in its place.
TornBy(list, rest, tx) ==
  {rest, Append(rest, Hole), rest \o <<Hole, tx>>, Append(rest, list[Len(list)])}

RemoveRacingAddTears(r, c) ==
  /\ pc[r] = "remove"
  /\ ~NullRead(r)
  /\ HeldOnce(r)
  /\ CountTransaction(r)
  /\ \E rest \in Without(outstanding_collection[r], Current(r).uniqueId) :
     \E list \in TornBy(outstanding_collection[r], rest, NewTransaction(r, c)) :
       outstanding_collection' = [outstanding_collection EXCEPT ![r] = list]
  /\ tx_already_executed' =
       [tx_already_executed EXCEPT ![r] = AlreadyExecuted(r, Current(r))]
  /\ pc' = [pc EXCEPT ![r] = "execute"]
  /\ raced' = raced \cup {r}
  /\ UNCHANGED <<groupVars, accountVars, done, schedulerVars>>

\* The copies of list that serializing it can give while removeIf, past the
\* modCount it will leave, moves everything after place i down by one; or it
\* has fewer elements than it says, and no receiver can read it: a null.
TornCopies(list, i) ==
  {<<Hole>>} \cup
  {copy \in [DOMAIN list -> {list[j] : j \in DOMAIN list} \cup {Hole}] :
     \A j \in DOMAIN list :
       \/ copy[j] = list[j]
       \/ j >= i /\ copy[j] = (IF j < Len(list) THEN list[j + 1] ELSE Hole)}

\* The tick's copy is taken in the middle of removeIf.
RemoveRacingSend(r) ==
  /\ pc[r] = "remove"
  /\ ~NullRead(r)
  /\ HeldOnce(r)
  /\ Tick(r)
  /\ \E i \in Places(outstanding_collection[r], Current(r).uniqueId) :
       \E copy \in TornCopies(outstanding_collection[r], i) :
         Group!Multicast(r, copy)
  /\ tx_already_executed' =
       [tx_already_executed EXCEPT ![r] = AlreadyExecuted(r, Current(r))]
  /\ RemoveIf(r, Current(r).uniqueId)
  /\ pc' = [pc EXCEPT ![r] = "execute"]
  /\ raced' = raced \cup {r}
  /\ UNCHANGED <<accountVars, done, outstanding_counter>>

\* The loop over executed_list finds that cleanHistory changed it.
CleanRacingCheck(r) ==
  /\ pc[r] = "remove"
  /\ InGroup(r)
  /\ executed_list[r] # <<>>
  /\ executed_list' = [executed_list EXCEPT ![r] = <<>>]
  /\ ListenerDies(r)
  /\ UNCHANGED <<groupVars, balance, order_counter, history, ledger,
                 enqueueVars, schedulerVars, raced>>

\* cleanHistory stores size 0 between add's read and write of the size.
ExecuteRacingClean(r) ==
  /\ executed_list[r] # <<>>
  /\ ExecuteOnto(r, [i \in DOMAIN executed_list[r] |-> Hole])

-----------------------------------------------------------------------------
(* The group. *)

Join(r) ==
  /\ Group!Join(r)
  /\ UNCHANGED <<accountVars, listenerVars, enqueueVars, schedulerVars, raced>>

Order(r) ==
  /\ Group!Order(r)
  /\ UNCHANGED <<accountVars, listenerVars, enqueueVars, schedulerVars, raced>>

\* The process dies, or the daemon ends its session; it is never reconnected.
Disconnect(r) ==
  /\ Group!Disconnect(r)
  /\ UNCHANGED <<accountVars, listenerVars, enqueueVars, schedulerVars, raced>>

Listen(r) ==
  \/ ReceiveMessage(r)
  \/ RemoveLocal(r) \/ RemoveThrows(r)
  \/ SkipTransaction(r) \/ ExecuteTransaction(r) \/ ParseThrows(r)

Race(r) ==
  \/ \E c \in UserCommands : RemoveRacingAddThrows(r, c)
  \/ \E c \in UserCommands : RemoveRacingAddTears(r, c)
  \/ RemoveRacingSend(r)
  \/ CleanRacingCheck(r) \/ ExecuteRacingClean(r)

Next ==
  \E r \in Replicas :
    \/ \E c \in UserCommands : ProcessCommand(r, c)
    \/ CleanHistory(r)
    \/ SendOutstanding(r)
    \/ Listen(r)
    \/ Race(r)
    \/ Join(r) \/ Order(r) \/ Disconnect(r)

Spec == Init /\ [][Next]_vars

\* The threads of a client keep running and the daemons keep ordering.
Fairness ==
  \A r \in Replicas :
    WF_vars(SendOutstanding(r)) /\ WF_vars(Listen(r)) /\ WF_vars(Order(r))

FairSpec == Spec /\ Fairness
=============================================================================
