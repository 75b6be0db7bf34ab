--------------------------- MODULE OutstandingList ---------------------------
(***************************************************************************)
(* One client's threads around outstanding_collection, in the mode where   *)
(* getSynchedBalance is naive.  The list is an ArrayList, modelled by the  *)
(* fields its methods read and write one at a time; the command thread, the *)
(* naive readers and the end of processReceivedTransactions hold the       *)
(* list's monitor, removeIf (247) and the scheduler's setObject (210) do   *)
(* not.  The group is reduced to this client's own messages, which come    *)
(* back to it in the order it sent them.                                   *)
(*                                                                         *)
(* A transaction is its number, 0, 1, ...; each is a deposit of 1.         *)
(***************************************************************************)
EXTENDS Integers, Sequences, FiniteSets

CONSTANTS
  Readers,     \* the threads getSyncedBalanceNaive starts
  Null,        \* an empty place of the array
  None,        \* no holder, no transaction
  MaxAdds,     \* bound: transactions created; the array has room for them
  MaxInbox     \* bound: messages on their way back; a tick waits for room

Tx == 0..(MaxAdds - 1)

ASSUME ListAssumption ==
  /\ MaxAdds \in Nat \ {0}
  /\ MaxInbox \in Nat
  /\ Null \notin Tx /\ None \notin Tx /\ Null # None
  /\ "command" \notin Readers /\ None \notin Readers \cup {"command"}

VARIABLES
  \* the ArrayList
  elementData, size, modCount,
  \* the list's monitor, and the threads in its wait set
  owner, waitSet,
  \* the command thread: where it is, add's local s, transactions created
  cpc, cSize, created,
  \* the scheduler thread: where it is, writeObject's locals
  spc, sExpected, sLen, sCopy,
  \* the listener thread: where it is, the message and place in it, and
  \* removeIf's locals
  lpc, message, place, lExpected, lEnd, lRead, lWrite, lTo,
  \* messages on their way back, and the transactions executed
  inbox, executed,
  \* the naive readers
  rpc,
  \* history: the list when removeIf began to change it, the adds since or
  \* at that moment, and whether an add has overlapped a removal: "none",
  \* "this" one for the first time, or an "earlier" one
  before, during, overlap

arrayVars == <<elementData, size, modCount>>
commandVars == <<cpc, cSize, created>>
schedulerVars == <<spc, sExpected, sLen, sCopy>>
removeVars == <<lExpected, lEnd, lRead, lWrite, lTo>>
listenerVars == <<lpc, message, place, removeVars>>
historyVars == <<before, during, overlap>>
vars == <<arrayVars, owner, waitSet, commandVars, schedulerVars, listenerVars,
          inbox, executed, rpc, historyVars>>

Init ==
  /\ elementData = [i \in Tx |-> Null]
  /\ size = 0 /\ modCount = 0
  /\ owner = None /\ waitSet = {}
  /\ cpc = "idle" /\ cSize = 0 /\ created = 0
  /\ spc = "idle" /\ sExpected = 0 /\ sLen = 0 /\ sCopy = <<>>
  /\ lpc = "receive" /\ message = <<>> /\ place = 0
  /\ lExpected = 0 /\ lEnd = 0 /\ lRead = 0 /\ lWrite = 0 /\ lTo = 0
  /\ inbox = <<>> /\ executed = {}
  /\ rpc = [t \in Readers |-> "new"]
  /\ before = <<>> /\ during = {} /\ overlap = "none"

\* What a reader of the list sees.
List == [i \in 1..size |-> elementData[i - 1]]

\* The transaction the listener has in hand.
InHand == message[place]

\* The listener is changing the array, or the command thread is.
Removing == lpc \in {"compact", "shift", "readSize", "writeSize", "clear"}
Adding == cpc # "idle"

\* What overlap becomes when an add and a removal overlap.
Overlapped == IF overlap = "none" THEN "this" ELSE overlap

-----------------------------------------------------------------------------
(* The command thread: add, under the monitor (148-150). *)

AddBegin ==
  /\ cpc = "idle" /\ owner = None
  /\ created < MaxAdds
  /\ owner' = "command"
  /\ created' = created + 1
  /\ modCount' = modCount + 1
  /\ cSize' = size
  /\ cpc' = "store"
  /\ during' = IF Removing \/ lpc = "execute" THEN during \cup {created} ELSE during
  /\ overlap' = IF Removing THEN Overlapped ELSE overlap
  /\ UNCHANGED <<elementData, size, waitSet, schedulerVars, listenerVars, inbox,
                 executed, rpc, before>>

AddStore ==
  /\ cpc = "store"
  /\ elementData' = [elementData EXCEPT ![cSize] = created - 1]
  /\ cpc' = "size"
  /\ UNCHANGED <<size, modCount, owner, waitSet, cSize, created, schedulerVars,
                 listenerVars, inbox, executed, rpc, historyVars>>

AddSize ==
  /\ cpc = "size"
  /\ size' = cSize + 1
  /\ cpc' = "idle" /\ owner' = None
  /\ UNCHANGED <<elementData, modCount, waitSet, cSize, created, schedulerVars,
                 listenerVars, inbox, executed, rpc, historyVars>>

-----------------------------------------------------------------------------
(* The scheduler thread: setObject serializes the list, then multicast.      *)
(* writeObject writes the size, then the elements while it is below the size *)
(* as that is then, and at the end compares modCount.                        *)

SendBegin ==
  /\ spc = "idle" /\ Len(inbox) < MaxInbox
  /\ sExpected' = modCount
  /\ spc' = "size"
  /\ UNCHANGED <<arrayVars, owner, waitSet, commandVars, sLen, sCopy, listenerVars,
                 inbox, executed, rpc, historyVars>>

SendSize ==
  /\ spc = "size"
  /\ sLen' = size /\ sCopy' = <<>>
  /\ spc' = "element"
  /\ UNCHANGED <<arrayVars, owner, waitSet, commandVars, sExpected,
                 listenerVars, inbox, executed, rpc, historyVars>>

SendElement ==
  /\ spc = "element"
  /\ IF Len(sCopy) < size
     THEN sCopy' = Append(sCopy, elementData[Len(sCopy)]) /\ UNCHANGED spc
     ELSE spc' = "check" /\ UNCHANGED sCopy
  /\ UNCHANGED <<arrayVars, owner, waitSet, commandVars, sExpected, sLen,
                 listenerVars, inbox, executed, rpc, historyVars>>

\* A receiver reads as many elements as the size says; if there are fewer,
\* getObject fails: a message of one Null stands for that.
Readable == IF Len(sCopy) < sLen THEN <<Null>> ELSE SubSeq(sCopy, 1, sLen)

MutantSendMessage ==
  /\ spc = "check"
  /\ inbox' = Append(inbox, Readable)
  /\ spc' = "idle" /\ sExpected' = 0 /\ sLen' = 0 /\ sCopy' = <<>>
  /\ UNCHANGED <<arrayVars, owner, waitSet, commandVars, listenerVars, executed, rpc,
                 historyVars>>
SendMessage ==
  /\ spc = "check" /\ modCount = sExpected
  /\ inbox' = Append(inbox, Readable)
  /\ spc' = "idle" /\ sExpected' = 0 /\ sLen' = 0 /\ sCopy' = <<>>
  /\ UNCHANGED <<arrayVars, owner, waitSet, commandVars, listenerVars, executed, rpc,
                 historyVars>>

\* ConcurrentModificationException is not an InterruptedException (192): the
\* scheduler does not run the task again.
SendThrows ==
  /\ spc = "check" /\ modCount # sExpected
  /\ spc' = "dead" /\ sExpected' = 0 /\ sLen' = 0 /\ sCopy' = <<>>
  /\ UNCHANGED <<arrayVars, owner, waitSet, commandVars,
                 listenerVars, inbox, executed, rpc, historyVars>>

-----------------------------------------------------------------------------
(* The listener thread: processReceivedTransactions (232-293). *)

Receive ==
  /\ lpc = "receive" /\ inbox # <<>>
  /\ message' = Head(inbox) /\ inbox' = Tail(inbox)
  /\ place' = 1
  /\ lpc' = IF Head(inbox) = <<>> THEN "notify" ELSE "begin"
  /\ UNCHANGED <<arrayVars, owner, waitSet, commandVars, schedulerVars, removeVars,
                 executed, rpc, historyVars>>

\* removeIf starts: it keeps modCount and size.
RemoveBegin ==
  /\ lpc = "begin"
  /\ lExpected' = modCount /\ lEnd' = size
  /\ lpc' = IF InHand = Null THEN "dead" ELSE "scan"
  /\ overlap' = IF overlap = "none" THEN "none" ELSE "earlier"
  /\ UNCHANGED <<arrayVars, owner, waitSet, commandVars, schedulerVars, message,
                 place, lRead, lWrite, lTo, inbox, executed, rpc, before, during>>

\* The filter reads uniqueId of every element up to the size it kept.
RemoveScan ==
  /\ lpc = "scan"
  /\ IF \E i \in 0..(lEnd - 1) : elementData[i] = Null
     THEN lpc' = "dead" /\ UNCHANGED lRead
     ELSE /\ lpc' = "check"
          /\ lRead' = IF \E i \in 0..(lEnd - 1) : elementData[i] = InHand
                      THEN CHOOSE i \in 0..(lEnd - 1) :
                             /\ elementData[i] = InHand
                             /\ \A j \in 0..(i - 1) : elementData[j] # InHand
                      ELSE lEnd
  /\ UNCHANGED <<arrayVars, owner, waitSet, commandVars, schedulerVars, message,
                 place, lExpected, lEnd, lWrite, lTo, inbox, executed, rpc,
                 historyVars>>

RemoveCheck ==
  /\ lpc = "check"
  /\ lWrite' = lRead
  /\ IF modCount # lExpected
     THEN lpc' = "dead" /\ UNCHANGED <<modCount, historyVars>>
     ELSE IF lRead = lEnd
          THEN lpc' = "execute" /\ UNCHANGED <<modCount, historyVars>>
          ELSE /\ lpc' = "compact"
               /\ modCount' = modCount + 1
               /\ before' = List
               /\ during' = IF Adding THEN {created - 1} ELSE {}
               /\ overlap' = IF Adding THEN Overlapped ELSE overlap
  /\ UNCHANGED <<elementData, size, owner, waitSet, commandVars, schedulerVars,
                 message, place, lExpected, lEnd, lRead, lTo, inbox, executed, rpc>>

\* What stays moves down, one element at a time.
RemoveCompact ==
  /\ lpc = "compact"
  /\ IF lRead = lEnd
     THEN lpc' = "shift" /\ UNCHANGED <<elementData, lRead, lWrite>>
     ELSE /\ lRead' = lRead + 1 /\ UNCHANGED lpc
          /\ IF elementData[lRead] = InHand
             THEN UNCHANGED <<elementData, lWrite>>
             ELSE /\ elementData' = [elementData EXCEPT ![lWrite] = elementData[lRead]]
                  /\ lWrite' = lWrite + 1
  /\ UNCHANGED <<size, modCount, owner, waitSet, commandVars, schedulerVars, message,
                 place, lExpected, lEnd, lTo, inbox, executed, rpc, historyVars>>

\* System.arraycopy of what stands between the size kept and the size now.
RemoveShift ==
  /\ lpc = "shift"
  /\ elementData' = [i \in Tx |->
       IF i >= lWrite /\ i < lWrite + (size - lEnd)
       THEN elementData[i + (lEnd - lWrite)] ELSE elementData[i]]
  /\ lpc' = "readSize"
  /\ UNCHANGED <<size, modCount, owner, waitSet, commandVars, schedulerVars, message,
                 place, removeVars, inbox, executed, rpc, historyVars>>

RemoveReadSize ==
  /\ lpc = "readSize"
  /\ lTo' = size
  /\ lpc' = "writeSize"
  /\ UNCHANGED <<arrayVars, owner, waitSet, commandVars, schedulerVars, message, place,
                 lExpected, lEnd, lRead, lWrite, inbox, executed, rpc, historyVars>>

MutantRemoveWriteSize ==
  /\ lpc = "writeSize"
  /\ size' = lTo - (lEnd - lWrite) - 1
  /\ lpc' = "clear"
  /\ UNCHANGED <<elementData, modCount, owner, waitSet, commandVars, schedulerVars,
                 message, place, removeVars, inbox, executed, rpc, historyVars>>
RemoveWriteSize ==
  /\ lpc = "writeSize"
  /\ size' = lTo - (lEnd - lWrite)
  /\ lpc' = "clear"
  /\ UNCHANGED <<elementData, modCount, owner, waitSet, commandVars, schedulerVars,
                 message, place, removeVars, inbox, executed, rpc, historyVars>>

RemoveClear ==
  /\ lpc = "clear"
  /\ elementData' = [i \in Tx |->
       IF i >= lTo - (lEnd - lWrite) /\ i < lTo THEN Null ELSE elementData[i]]
  /\ lpc' = "execute"
  /\ UNCHANGED <<size, modCount, owner, waitSet, commandVars, schedulerVars, message,
                 place, removeVars, inbox, executed, rpc, historyVars>>

\* deposit; then the next transaction, or the end of the message.
Execute ==
  /\ lpc = "execute"
  /\ executed' = executed \cup {InHand}
  /\ place' = place + 1
  /\ lpc' = IF place < Len(message) THEN "begin" ELSE "notify"
  /\ UNCHANGED <<arrayVars, owner, waitSet, commandVars, schedulerVars, message,
                 removeVars, inbox, rpc, historyVars>>

\* Lines 289-291, under the monitor.
MutantNotify ==
  /\ lpc = "notify" /\ owner = None
  /\ UNCHANGED <<waitSet, rpc>>
  /\ lpc' = "receive"
  /\ UNCHANGED <<arrayVars, owner, commandVars, schedulerVars, message, place,
                 removeVars, inbox, executed, historyVars>>
Notify ==
  /\ lpc = "notify" /\ owner = None
  /\ IF size = 0
     THEN /\ waitSet' = {}
          /\ rpc' = [t \in Readers |-> IF t \in waitSet THEN "enter" ELSE rpc[t]]
     ELSE UNCHANGED <<waitSet, rpc>>
  /\ lpc' = "receive"
  /\ UNCHANGED <<arrayVars, owner, commandVars, schedulerVars, message, place,
                 removeVars, inbox, executed, historyVars>>

-----------------------------------------------------------------------------
(* The readers: getSyncedBalanceNaive (346-361). *)

\* The command thread starts one, between two commands.
Start(t) ==
  /\ rpc[t] = "new" /\ cpc = "idle"
  /\ rpc' = [rpc EXCEPT ![t] = "enter"]
  /\ UNCHANGED <<arrayVars, owner, waitSet, commandVars, schedulerVars, listenerVars,
                 inbox, executed, historyVars>>

\* Into the monitor, for the first time or after wait; then the loop's test.
Enter(t) ==
  /\ rpc[t] = "enter" /\ owner = None
  /\ owner' = t
  /\ rpc' = [rpc EXCEPT ![t] = "test"]
  /\ UNCHANGED <<arrayVars, waitSet, commandVars, schedulerVars, listenerVars, inbox,
                 executed, historyVars>>

Test(t) ==
  /\ rpc[t] = "test"
  /\ IF size = 0
     THEN rpc' = [rpc EXCEPT ![t] = "print"] /\ UNCHANGED <<owner, waitSet>>
     ELSE /\ rpc' = [rpc EXCEPT ![t] = "wait"]
          /\ owner' = None /\ waitSet' = waitSet \cup {t}
  /\ UNCHANGED <<arrayVars, commandVars, schedulerVars, listenerVars, inbox, executed,
                 historyVars>>

PrintBalance(t) ==
  /\ rpc[t] = "print"
  /\ rpc' = [rpc EXCEPT ![t] = "done"]
  /\ owner' = None
  /\ UNCHANGED <<arrayVars, waitSet, commandVars, schedulerVars, listenerVars, inbox,
                 executed, historyVars>>

CommandThread == AddBegin \/ AddStore \/ AddSize
SchedulerThread == SendBegin \/ SendSize \/ SendElement \/ SendMessage \/ SendThrows
ListenerThread ==
  \/ Receive \/ RemoveBegin \/ RemoveScan \/ RemoveCheck \/ RemoveCompact
  \/ RemoveShift \/ RemoveReadSize \/ RemoveWriteSize \/ RemoveClear
  \/ Execute \/ Notify
Reader(t) == Start(t) \/ Enter(t) \/ Test(t) \/ PrintBalance(t)

Next == CommandThread \/ SchedulerThread \/ ListenerThread \/ \E t \in Readers : Reader(t)

Spec == Init /\ [][Next]_vars

\* Every thread keeps running.
Fairness ==
  /\ WF_vars(CommandThread) /\ WF_vars(SchedulerThread) /\ WF_vars(ListenerThread)
  /\ \A t \in Readers : WF_vars(Reader(t))

FairSpec == Spec /\ Fairness

-----------------------------------------------------------------------------
(* Properties. *)

Elements(list) == {list[i] : i \in DOMAIN list}

\* The list without the transaction in hand, which is in it once.
Rest(list) ==
  LET k == CHOOSE i \in DOMAIN list : list[i] = InHand
  IN  [i \in 1..(Len(list) - 1) |-> list[IF i < k THEN i ELSE i + 1]]
Front(list) == SubSeq(list, 1, Len(list) - 1)

\* The balance getSyncedBalanceNaive prints (358) lacks at most one transaction
\* of its client: the one removeIf (247) has taken off the list and deposit
\* (276) has not yet been called for.
NaiveReadLacksAtMostOne ==
  \A t \in Readers : rpc[t] = "print" /\ overlap = "none" =>
    \A tx \in 0..(created - 1) :
      tx \in executed \/ ((Removing \/ lpc = "execute") /\ tx = InHand)

\* What the first removeIf (247) that adds overlap and one add (150) leave,
\* when the client goes on: both done; the new transaction lost, with a null in its
\* place or not; a null before it; or the last of the old list a second time.
OverlapOutcomes ==
  lpc = "execute" /\ lWrite < lEnd
  /\ ~Adding /\ Cardinality(during) = 1 /\ overlap = "this"
  /\ InHand \in Elements(before) /\ Null \notin Elements(before)
  =>
    \E new \in during :
      List \in {Rest(before) \o <<new>>, Rest(before), Rest(before) \o <<Null>>,
                Rest(before) \o <<Null, new>>, Rest(before) \o <<before[Len(before)]>>}

\* What the races of removeIf (247) with the reader and with add (150) can leave: both.
RaceOutcomes == NaiveReadLacksAtMostOne /\ OverlapOutcomes

\* A list being compacted: from some place on, each element is the old one or
\* the one after it, and the last may be a null.
TornFrom(old, copy) ==
  /\ Len(copy) = Len(old)
  /\ \E i \in DOMAIN old : \A j \in DOMAIN old :
       \/ copy[j] = old[j]
       \/ j >= i /\ copy[j] = (IF j < Len(old) THEN old[j + 1] ELSE Null)

\* What a tick sends (210, 213) when no add has overlapped a removeIf: the list,
\* but for one just added; a message no receiver can read; or a copy torn by
\* one removeIf (247), whose places are old or already moved down.
CopyOutcomes ==
  [][SendMessage /\ overlap = "none" =>
       \/ Readable \in {List, Front(List), <<Null>>}
       \/ TornFrom(before, Readable)]_vars

\* getSyncedBalanceNaive (346-361) returns: no removal that empties the list
\* goes unnoticed by a thread in wait (353, 290), unless the scheduler or the
\* listener has died or an add has overlapped a removal.
NaiveReaderReturns ==
  \A t \in Readers :
    rpc[t] = "enter" ~>
      rpc[t] = "done" \/ lpc = "dead" \/ spc = "dead" \/ overlap # "none"
=============================================================================
