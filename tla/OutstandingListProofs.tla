------------------------ MODULE OutstandingListProofs ------------------------
(***************************************************************************)
(* RaceOutcomes of module OutstandingList, for every number of             *)
(* transactions, naive readers and messages on their way back.             *)
(*                                                                         *)
(* The invariant says what stands at each place of the array: while no     *)
(* removal is under way and none was overlapped by an add (Clean), and     *)
(* during a removal that at most one add overlaps and that no overlapped   *)
(* one went before (Removal), stage by stage.  After that, the array can   *)
(* hold anything and the invariant says no more.                           *)
(***************************************************************************)
EXTENDS OutstandingList, FiniteSetTheorems, TLAPS

-----------------------------------------------------------------------------
(* The invariant. *)

Types ==
  /\ elementData = [i \in Tx |-> elementData[i]]
  /\ modCount \in Int /\ lExpected \in Int
  /\ created \in 0..MaxAdds /\ (Adding => created > 0)
  /\ cpc \in {"idle", "store", "size"}
  /\ lpc \in {"receive", "begin", "scan", "check", "compact", "shift", "readSize",
              "writeSize", "clear", "execute", "notify", "dead"}
  /\ rpc = [t \in Readers |-> rpc[t]]
  /\ during \subseteq 0..(created - 1)
  /\ overlap \in {"none", "this", "earlier"}

\* The monitor: an add has it, and so has a reader in the loop's test or past it.
Monitor ==
  /\ Adding => owner = "command"
  /\ \A t \in Readers : rpc[t] \in {"test", "print"} => owner = t

\* A transaction is one place of the list.
Holds(tx) == \E i \in 0..(size - 1) : elementData[i] = tx

\* The transactions created before the one being added.
Older == IF Adding THEN created - 1 ELSE created

\* The array between two removals: the transactions on the list, each once, and
\* the one being added behind them.
Clean ==
  /\ size \in 0..Older
  /\ \A i \in 0..(size - 1) : elementData[i] \in 0..(Older - 1)
  /\ \A i, j \in 0..(size - 1) : elementData[i] = elementData[j] => i = j
  /\ Adding => cSize = size
  /\ cpc = "size" => elementData[size] = created - 1

\* What removeIf has kept and found, before it changes the array.
Found ==
  /\ lEnd \in 0..size
  /\ lExpected <= modCount
  /\ modCount = lExpected => size = lEnd \/ (size = lEnd + 1 /\ ~Adding)
  /\ lpc = "check" /\ lRead # lEnd =>
       lRead \in 0..(lEnd - 1) /\ elementData[lRead] = InHand

\* No transaction is off the list before it is executed, but the one in hand.
Covered ==
  \A tx \in 0..(created - 1) :
    \/ tx \in executed
    \/ Holds(tx)
    \/ Adding /\ tx = created - 1
    \/ lpc = "execute" /\ tx = InHand
CoveredBefore ==
  \A tx \in 0..(created - 1) : tx \in executed \/ tx \in Elements(before)

\* Two adds or more since the removal began to change the array.
Several == \E x, y \in during : x # y

\* The removal the invariant speaks of.
Followed ==
  /\ Removing \/ (lpc = "execute" /\ overlap = "this")
  /\ overlap # "earlier"
  /\ ~Several

oldSize == Len(before)
\* The list was in order when removeIf began to change it, with the transaction
\* in hand at place k; at most one had come behind the part it goes through.
WellBefore(k) ==
  /\ oldSize \in Nat /\ DOMAIN before = 1..oldSize
  /\ lEnd \in Int /\ k \in 0..(lEnd - 1)
  /\ oldSize = lEnd \/ oldSize = lEnd + 1
  /\ before[k + 1] = InHand
  /\ \A i \in 1..oldSize : before[i] \in 0..(created - 1)
  /\ \A i, j \in 1..oldSize : before[i] = before[j] => i = j
  /\ oldSize + (IF during = {} THEN 0 ELSE 1) <= created

\* The place of the list without the transaction in hand.
Left(k, i) == before[IF i < k THEN i + 1 ELSE i + 2]
Shifted(k) == \A i \in 0..(oldSize - 2) : elementData[i] = Left(k, i)

\* The add: none yet, on the way, or done.
NoAdd == ~Adding /\ during = {}
AddOn(place0) ==
  /\ Adding /\ during = {created - 1}
  /\ cSize = place0
AddDone == ~Adding /\ during = {created - 1}

\* The add behind the whole list, in the stages before removeIf lowers the size.
Behind ==
  \/ NoAdd /\ size = oldSize
  \/ AddOn(oldSize) /\ size = oldSize /\ (cpc = "size" => elementData[oldSize] = created - 1)
  \/ AddDone /\ size = oldSize + 1 /\ elementData[oldSize] = created - 1

Compacting(k) ==
  /\ lRead \in 0..lEnd /\ lWrite \in 0..lEnd
  /\ (lRead = lWrite /\ lWrite = k) \/ (lRead = lWrite + 1 /\ lWrite >= k)
  /\ \A i \in 0..(oldSize - 1) :
       elementData[i] = IF i < k \/ i >= lWrite THEN before[i + 1] ELSE before[i + 2]
  /\ Behind

\* The end of the array after the copy: the added one came in time, or not.
Moved == AddDone /\ size = oldSize + 1 /\ elementData[oldSize - 1] = created - 1
Stayed == Behind /\ elementData[oldSize - 1] = before[oldSize]

\* The size read: with the added one, or without.
SizeRead ==
  \/ Moved /\ lTo = oldSize + 1
  \/ AddDone /\ lTo = oldSize + 1 /\ size = oldSize + 1 /\ elementData[oldSize - 1] = before[oldSize]
  \/ Stayed /\ lTo = oldSize

\* The size lowered, and then the places above it cleared.
SizeWritten ==
  \/ NoAdd /\ size = oldSize - 1 /\ lTo = oldSize
  \/ AddDone /\ size = oldSize - 1 /\ lTo = oldSize
  \/ AddDone /\ size = oldSize /\ lTo = oldSize + 1 /\ elementData[oldSize - 1] = before[oldSize]
  \/ /\ AddDone /\ size = oldSize /\ lTo \in {oldSize, oldSize + 1}
     /\ elementData[oldSize - 1] \in {created - 1, Null}
  \/ /\ AddDone /\ size = oldSize + 1 /\ lTo = oldSize /\ elementData[oldSize] = created - 1
     /\ lpc = "execute" => elementData[oldSize - 1] = Null
  \/ /\ AddOn(oldSize) /\ size = oldSize - 1 /\ lTo = oldSize
     /\ lpc = "execute" => elementData[oldSize - 1] = Null
     /\ cpc = "size" => elementData[oldSize] = created - 1
  \/ /\ AddOn(oldSize - 1) /\ size = oldSize - 1 /\ lTo = oldSize
     /\ cpc = "size" => elementData[oldSize - 1] \in {created - 1, Null}

Removal(k) ==
  /\ WellBefore(k)
  /\ lpc \in {"compact", "shift"} => Compacting(k)
  /\ lpc \notin {"compact"} => lRead = lEnd /\ lWrite = lEnd - 1
  /\ lpc \in {"readSize", "writeSize", "clear", "execute"} => Shifted(k)
  /\ lpc = "readSize" => Moved \/ Stayed
  /\ lpc = "writeSize" => SizeRead
  /\ lpc \in {"clear", "execute"} => SizeWritten

RaceInv ==
  /\ Types
  /\ Monitor
  /\ overlap = "none" /\ ~Removing => Clean /\ Covered
  /\ overlap = "none" /\ lpc \in {"scan", "check"} => Found
  /\ lpc \in {"scan", "check"} => overlap # "this"
  /\ overlap = "none" /\ Removing => NoAdd /\ CoveredBefore
  /\ overlap = "none" => \A t \in Readers : rpc[t] = "print" => size = 0
  /\ Followed => \E k \in 0..(lEnd - 1) : Removal(k)

-----------------------------------------------------------------------------
(* The invariant holds at the start, and what leaves the array, the command    *)
(* thread and removeIf alone keeps it.                                         *)

USE DEF arrayVars, commandVars, schedulerVars, removeVars, listenerVars, historyVars,
        Removing, Adding

\* The invariant holds when the threads start.
LEMMA InitHolds == Init => RaceInv
<1> SUFFICES ASSUME Init PROVE RaceInv
  OBVIOUS
<1>1. Types
  BY ListAssumption DEF Init, Types
<1>2. Monitor
  BY DEF Init, Monitor
<1>3. Clean /\ Covered
  BY DEF Init, Clean, Covered, Older
<1> QED
  BY <1>1, <1>2, <1>3 DEF Init, RaceInv, Followed

\* What the parts of the invariant about the array read.
arrayState == <<arrayVars, commandVars, lpc, message, place, removeVars, executed, historyVars>>

\* A step of the scheduler or of a reader keeps the invariant, if the reader
\* prints only with nothing on the list and has the monitor to.
LEMMA ElsewhereKeeps ==
  ASSUME RaceInv, UNCHANGED arrayState, Monitor',
         rpc' = [t \in Readers |-> rpc'[t]],
         overlap = "none" => \A t \in Readers : rpc'[t] = "print" => size = 0
  PROVE  RaceInv'
<1> USE DEF arrayState
<1>1. Types'
  BY DEF RaceInv, Types
<1>2. Clean' = Clean /\ Covered' = Covered /\ Found' = Found /\ CoveredBefore' = CoveredBefore
  BY DEF Clean, Older, Covered, Holds, Found, CoveredBefore, InHand, Elements
<1>3. Followed' = Followed
  BY DEF Followed, Several
<1>4. ASSUME NEW k \in 0..(lEnd - 1), Removal(k)
      PROVE  Removal(k)'
  <2>1. WellBefore(k)' /\ Shifted(k)'  <=> WellBefore(k) /\ Shifted(k)
    BY DEF WellBefore, Shifted, Left, oldSize, InHand
  <2>2. Compacting(k)' <=> Compacting(k)
    BY DEF Compacting, Behind, NoAdd, AddOn, AddDone, oldSize
  <2>3. Moved' <=> Moved
    BY DEF Moved, AddDone, oldSize
  <2>4. Stayed' <=> Stayed
    BY DEF Stayed, Behind, NoAdd, AddOn, AddDone, oldSize
  <2>5. SizeRead' <=> SizeRead
    BY DEF SizeRead, Moved, Stayed, Behind, NoAdd, AddOn, AddDone, oldSize
  <2>6. SizeWritten' <=> SizeWritten
    BY DEF SizeWritten, NoAdd, AddOn, AddDone, oldSize
  <2> QED
    BY <1>4, <2>1, <2>2, <2>3, <2>4, <2>5, <2>6 DEF Removal, WellBefore, Shifted, oldSize, Left, InHand
<1>5. NoAdd' = NoAdd
  BY DEF NoAdd
<1> QED
  BY <1>1, <1>2, <1>3, <1>4, <1>5 DEF RaceInv

-----------------------------------------------------------------------------
(* The command thread: add. *)

\* The add of a removal the invariant follows: none yet, over, or on the way.
LEMMA AddShape ==
  ASSUME NEW k \in 0..(lEnd - 1), Removal(k), Followed, Types
  PROVE  \/ NoAdd
         \/ AddDone
         \/ Adding /\ during = {created - 1}
<1>1. Behind \/ Moved \/ SizeRead \/ SizeWritten
  BY DEF Removal, Compacting, Followed, Stayed
<1> QED
  BY <1>1 DEF Behind, Moved, Stayed, SizeRead, SizeWritten, AddOn, AddDone

\* A removal followed that no add has overlapped yet, when one begins.
LEMMA FirstAdd ==
  ASSUME NEW k \in 0..(lEnd - 1), Removal(k), NoAdd, created \in 0..MaxAdds, created < MaxAdds,
         AddBegin, during' = {created}
  PROVE  Removal(k)'
<1> USE ListAssumption DEF AddBegin
<1>1. WellBefore(k)'
  <2>1. WellBefore(k) /\ during = {} /\ before' = before /\ lEnd' = lEnd
    BY DEF Removal, NoAdd
  <2>2. oldSize' = oldSize /\ InHand' = InHand
    BY <2>1 DEF oldSize, InHand
  <2> QED
    BY <2>1, <2>2 DEF WellBefore
<1>2. Shifted(k) => Shifted(k)'
  BY DEF Shifted, Left, oldSize
<1>3. created' = created + 1 /\ cpc' = "store" /\ cSize' = size /\ Adding'
  OBVIOUS
<1>4. Behind => Behind'
  BY <1>3 DEF Behind, NoAdd, AddOn, AddDone, oldSize
<1>5. Compacting(k) => Compacting(k)'
  BY <1>4 DEF Compacting, oldSize
<1>6. Moved \/ Stayed => (Moved \/ Stayed)'
  BY <1>4 DEF Moved, Stayed, NoAdd, AddDone, oldSize
<1>7. SizeRead => SizeRead'
  BY <1>4 DEF SizeRead, Moved, Stayed, NoAdd, AddDone, oldSize
<1>8. SizeWritten => SizeWritten'
  BY <1>3 DEF SizeWritten, NoAdd, AddOn, AddDone, oldSize
<1> QED
  BY <1>1, <1>2, <1>5, <1>6, <1>7, <1>8 DEF Removal

\* The call of add, which takes the monitor and reads the size.
LEMMA AddBeginKeeps ==
  ASSUME RaceInv, AddBegin
  PROVE  RaceInv'
<1> USE ListAssumption DEF AddBegin
<1>1. Types'
  BY DEF RaceInv, Types, Overlapped
<1>2. Monitor'
  BY DEF RaceInv, Monitor
<1>3. ASSUME overlap' = "none", ~Removing PROVE Clean' /\ Covered'
  <2>1. Clean /\ Covered /\ Types
    BY <1>3 DEF RaceInv
  <2>2. Older = created /\ Older' = created
    BY <2>1 DEF Older, Types
  <2>3. Clean'
    BY <2>1, <2>2 DEF Clean
  <2>4. ASSUME NEW tx \in 0..(created' - 1), tx # created
        PROVE  tx \in executed \/ Holds(tx) \/ (lpc = "execute" /\ tx = InHand)
    <3>1. tx \in 0..(created - 1)
      BY <2>1, <2>4 DEF Types
    <3> QED
      BY <2>1, <3>1 DEF Covered
  <2>5. Covered'
    BY <2>1, <2>4 DEF Covered, Holds, InHand, Types
  <2> QED
    BY <2>3, <2>5
<1>4. overlap' = "none" /\ lpc \in {"scan", "check"} => Found'
  BY DEF RaceInv, Found, InHand, Types
<1>5. Removing => overlap' # "none"
  BY DEF Overlapped, RaceInv, Types
<1>6. ASSUME Followed' PROVE \E k \in 0..(lEnd - 1) : Removal(k)'
  <2>1. created \in during'
    BY <1>6 DEF Followed
  <2>2. ~Several /\ Followed /\ Types
    BY <1>6 DEF Followed, Several, Overlapped, RaceInv
  <2>3. PICK k \in 0..(lEnd - 1) : Removal(k)
    BY <2>2 DEF RaceInv
  <2>4. during # {created - 1}
    BY <1>6, <2>1, <2>2 DEF Followed, Several, Types
  <2>5. NoAdd
    BY <2>2, <2>3, <2>4, AddShape DEF AddDone
  <2>6. during' = {created}
    BY <2>1, <2>5 DEF NoAdd
  <2>7. Removal(k)'
    BY <2>2, <2>3, <2>5, <2>6, FirstAdd DEF Types
  <2> QED
    BY <2>7
<1>7. overlap' = "none" => \A t \in Readers : rpc'[t] = "print" => size' = 0
  BY DEF RaceInv, Overlapped
<1>8. lpc \in {"scan", "check"} => overlap' # "this"
  BY DEF RaceInv
<1> QED
  BY <1>1, <1>2, <1>3, <1>4, <1>5, <1>6, <1>7, <1>8 DEF RaceInv

\* The invariant holds after the element is stored.
LEMMA AddStoreKeeps ==
  ASSUME RaceInv, AddStore
  PROVE  RaceInv'
<1> USE ListAssumption DEF AddStore
<1>1. Types'
  BY DEF RaceInv, Types
<1>2. Monitor'
  BY DEF RaceInv, Monitor
<1>3. \A i : i \in Tx /\ i # cSize => elementData'[i] = elementData[i]
  BY DEF RaceInv, Types
<1>4. cSize \in Tx => elementData'[cSize] = created - 1
  BY DEF RaceInv, Types
<1>5. ASSUME overlap = "none", ~Removing PROVE Clean' /\ Covered'
  <2>1. Clean /\ Covered /\ Types /\ Adding
    BY <1>5 DEF RaceInv
  <2>2. Older = created - 1 /\ Older' = created - 1
    BY <2>1 DEF Older, Types
  <2>3. size \in 0..(created - 1) /\ cSize = size /\ created \in 1..MaxAdds
    BY <2>1, <2>2 DEF Clean, Types
  <2>4. \A i \in 0..(size - 1) : elementData'[i] = elementData[i]
    BY <2>3, <1>3 DEF Tx
  <2>5. elementData'[size] = created - 1
    BY <2>3, <1>4 DEF Tx
  <2>6. Clean'
    BY <2>1, <2>2, <2>3, <2>4, <2>5 DEF Clean
  <2>8. \A tx : Holds(tx) => \E i \in 0..(size' - 1) : elementData'[i] = tx
    BY <2>4 DEF Holds
  <2>9. Covered'
    BY <2>1, <2>8 DEF Covered, Holds, InHand
  <2> QED
    BY <2>6, <2>9
<1>6. ASSUME overlap = "none", lpc \in {"scan", "check"} PROVE Found'
  <2>1. Clean /\ Found /\ Types
    BY <1>6 DEF RaceInv
  <2>2. size \in 0..(created - 1) /\ cSize = size /\ created \in 1..MaxAdds
    BY <2>1 DEF Clean, Older, Types
  <2>3. lpc = "check" /\ lRead # lEnd => elementData'[lRead] = elementData[lRead]
    BY <2>1, <2>2, <1>3 DEF Found, Tx
  <2> QED
    BY <2>1, <2>3 DEF Found, InHand
<1>7. overlap = "none" /\ Removing => (NoAdd /\ CoveredBefore)'
  BY DEF RaceInv, NoAdd
<1>8. ASSUME Followed' PROVE \E k \in 0..(lEnd - 1) : Removal(k)'
  <2>1. Followed /\ Types
    BY <1>8 DEF Followed, Several, RaceInv
  <2>2. PICK k \in 0..(lEnd - 1) : Removal(k)
    BY <2>1 DEF RaceInv
  <2>3. WellBefore(k) /\ oldSize' = oldSize
    BY <2>2 DEF Removal, oldSize
  <2>4. during = {created - 1} /\ created \in 1..MaxAdds
    BY <2>1, <2>2, AddShape DEF NoAdd, AddDone, Types
  <2>5. oldSize \in 1..(created - 1) /\ lEnd \in 1..oldSize
    BY <2>3, <2>4 DEF WellBefore
  <2>6. WellBefore(k)'
    BY <2>3 DEF WellBefore, InHand
  <2>7. ~NoAdd /\ ~AddDone
    BY DEF NoAdd, AddDone
  <2>8. Behind => cSize = oldSize /\ Behind'
    <3> SUFFICES ASSUME Behind PROVE cSize = oldSize /\ Behind'
      OBVIOUS
    <3>1. cSize = oldSize /\ size = oldSize
      BY <2>7 DEF Behind, AddOn
    <3>2. elementData'[oldSize] = created - 1
      BY <3>1, <2>4, <2>5, <1>4 DEF Tx
    <3>3. AddOn(oldSize)'
      BY <3>1, <2>3, <2>4 DEF AddOn
    <3> QED
      BY <3>1, <3>2, <3>3, <2>3 DEF Behind
  <2>9. Behind => elementData'[oldSize - 1] = elementData[oldSize - 1]
    BY <2>8, <2>5, <1>3 DEF Tx
  <2>10. Compacting(k) => Compacting(k)'
    <3> SUFFICES ASSUME Compacting(k) PROVE Compacting(k)'
      OBVIOUS
    <3>1. Behind /\ cSize = oldSize
      BY <2>8 DEF Compacting
    <3>2. \A i \in 0..(oldSize - 1) : elementData'[i] = elementData[i]
      BY <3>1, <2>5, <1>3 DEF Tx
    <3> QED
      BY <3>1, <3>2, <2>3, <2>8 DEF Compacting
  <2>11. Moved \/ Stayed => Stayed'
    BY <2>7, <2>8, <2>9, <2>3 DEF Moved, Stayed
  <2>12. SizeRead => SizeRead'
    BY <2>7, <2>8, <2>9, <2>3 DEF SizeRead, Moved, Stayed
  <2>13. SizeWritten => cSize \in {oldSize - 1, oldSize}
    BY <2>7 DEF SizeWritten, AddOn
  <2>14. SizeWritten => SizeWritten'
    <3>1. CASE AddOn(oldSize) /\ size = oldSize - 1 /\ lTo = oldSize
               /\ (lpc = "execute" => elementData[oldSize - 1] = Null)
      <4>1. cSize = oldSize
        BY <3>1 DEF AddOn
      <4>2. elementData'[oldSize] = created - 1
        BY <4>1, <2>4, <2>5, <1>4 DEF Tx
      <4>3. elementData'[oldSize - 1] = elementData[oldSize - 1]
        BY <4>1, <2>5, <1>3 DEF Tx
      <4>4. AddOn(oldSize)'
        BY <4>1, <2>3, <2>4 DEF AddOn
      <4> QED
        BY <3>1, <4>2, <4>3, <4>4, <2>3 DEF SizeWritten
    <3>2. CASE AddOn(oldSize - 1) /\ size = oldSize - 1 /\ lTo = oldSize
      <4>1. cSize = oldSize - 1
        BY <3>2 DEF AddOn
      <4>2. elementData'[oldSize - 1] = created - 1
        BY <4>1, <2>4, <2>5, <1>4 DEF Tx
      <4>3. AddOn(oldSize - 1)'
        BY <4>1, <2>3, <2>4 DEF AddOn
      <4> QED
        BY <3>2, <4>2, <4>3, <2>3 DEF SizeWritten
    <3> QED
      BY <2>7, <3>1, <3>2 DEF SizeWritten
  <2>15. ASSUME cSize \in {oldSize - 1, oldSize}, Shifted(k) PROVE Shifted(k)'
    <3>1. \A i \in 0..(oldSize - 2) : elementData'[i] = elementData[i]
      BY <2>15, <2>5, <1>3 DEF Tx
    <3> QED
      BY <3>1, <2>15, <2>3 DEF Shifted, Left
  <2>16. lpc \in {"readSize", "writeSize", "clear", "execute"} => cSize \in {oldSize - 1, oldSize}
    BY <2>2, <2>7, <2>8, <2>13 DEF Removal, Moved, Stayed, SizeRead
  <2>17. Removal(k)'
    BY <2>2, <2>6, <2>10, <2>11, <2>12, <2>14, <2>15, <2>16 DEF Removal
  <2> QED
    BY <2>17
<1> QED
  BY <1>1, <1>2, <1>5, <1>6, <1>7, <1>8 DEF RaceInv

\* The invariant holds after the size is set and the monitor left.
LEMMA AddSizeKeeps ==
  ASSUME RaceInv, AddSize
  PROVE  RaceInv'
<1> USE ListAssumption DEF AddSize
<1>1. Types'
  BY DEF RaceInv, Types
<1>2. Monitor'
  BY DEF RaceInv, Monitor
<1>3. ASSUME overlap = "none", ~Removing PROVE Clean' /\ Covered'
  <2>1. Clean /\ Covered /\ Types
    BY <1>3 DEF RaceInv
  <2>2. Older = created - 1 /\ Older' = created
    BY <2>1 DEF Older, Types
  <2>3. size \in 0..(created - 1) /\ size' = size + 1 /\ created \in 1..MaxAdds
    BY <2>1, <2>2 DEF Clean, Types
  <2>4. elementData[size] = created - 1
    BY <2>1 DEF Clean
  <2>5. \A i \in 0..(size' - 1) : i \in 0..(size - 1) \/ i = size
    BY <2>3
  <2>6. \A i \in 0..(size - 1) : elementData[i] \in 0..(created - 2)
    BY <2>1, <2>2, <2>3 DEF Clean
  <2>7. \A i \in 0..(size' - 1) : elementData[i] \in 0..(created - 1)
    BY <2>3, <2>4, <2>5, <2>6
  <2>8. \A i, j \in 0..(size' - 1) : elementData[i] = elementData[j] => i = j
    BY <2>1, <2>3, <2>4, <2>5, <2>6 DEF Clean
  <2>9. Clean'
    BY <2>2, <2>3, <2>7, <2>8 DEF Clean
  <2>10. \A tx \in 0..(created - 1) : Holds(tx) \/ tx = created - 1 =>
           \E i \in 0..(size' - 1) : elementData'[i] = tx
    BY <2>3, <2>4 DEF Holds
  <2>11. Covered'
    BY <2>1, <2>10 DEF Covered, Holds, InHand
  <2> QED
    BY <2>9, <2>11
<1>4. ASSUME overlap = "none", lpc \in {"scan", "check"} PROVE Found'
  <2>1. Clean /\ Found /\ Types
    BY <1>4 DEF RaceInv
  <2>2. size \in Nat /\ size' = size + 1 /\ lEnd \in 0..size
    BY <2>1 DEF Clean, Older, Types, Found
  <2>3. modCount = lExpected => size = lEnd
    BY <2>1 DEF Found
  <2> QED
    BY <2>1, <2>2, <2>3 DEF Found, InHand
<1>5. overlap = "none" /\ Removing => (NoAdd /\ CoveredBefore)'
  BY DEF RaceInv, NoAdd
<1>6. ASSUME overlap = "none" PROVE \A t \in Readers : rpc'[t] = "print" => size' = 0
  BY DEF RaceInv, Monitor
<1>7. ASSUME Followed' PROVE \E k \in 0..(lEnd - 1) : Removal(k)'
  <2>1. Followed /\ Types
    BY <1>7 DEF Followed, Several, RaceInv
  <2>2. PICK k \in 0..(lEnd - 1) : Removal(k)
    BY <2>1 DEF RaceInv
  <2>3. WellBefore(k) /\ oldSize' = oldSize /\ oldSize \in Nat
    BY <2>2 DEF Removal, oldSize, WellBefore
  <2>4. during = {created - 1}
    BY <2>1, <2>2, AddShape DEF NoAdd, AddDone
  <2>5. WellBefore(k)' /\ (Shifted(k) <=> Shifted(k)')
    BY <2>3 DEF WellBefore, InHand, Shifted, Left
  <2>6. ~NoAdd /\ ~AddDone /\ AddDone'
    BY <2>4 DEF NoAdd, AddDone
  <2>7. Behind => Behind'
    BY <2>3, <2>6 DEF Behind, AddOn
  <2>8. Compacting(k) => Compacting(k)'
    BY <2>3, <2>7 DEF Compacting
  <2>9. Moved \/ Stayed => Stayed'
    BY <2>3, <2>6, <2>7 DEF Moved, Stayed
  <2>10. SizeRead => SizeRead'
    BY <2>3, <2>6, <2>7 DEF SizeRead, Moved, Stayed
  <2>11. SizeWritten => SizeWritten'
    BY <2>3, <2>6 DEF SizeWritten, AddOn
  <2>12. Removal(k)'
    BY <2>2, <2>5, <2>8, <2>9, <2>10, <2>11 DEF Removal
  <2> QED
    BY <2>12
<1> QED
  BY <1>1, <1>2, <1>3, <1>4, <1>5, <1>6, <1>7 DEF RaceInv

-----------------------------------------------------------------------------
(* The listener thread, up to the change of the array: removeIf keeps modCount *)
(* and size, and looks for the transaction.                                    *)

\* The step changes nothing of the list, and neither starts nor ends a removal.
LEMMA QuietKeeps ==
  ASSUME RaceInv, UNCHANGED <<arrayVars, owner, commandVars, before, during, rpc>>,
         ~Removing, ~Removing',
         lpc' \in {"receive", "begin", "scan", "check", "execute", "notify", "dead"},
         lExpected' \in Int,
         overlap' \in {"none", "this", "earlier"}, overlap' = "none" => overlap = "none",
         lpc' = "execute" \/ lpc' \in {"scan", "check"} => overlap' # "this",
         overlap = "none" /\ lpc' \in {"scan", "check"} => Found',
         executed \subseteq executed',
         lpc = "execute" => InHand \in executed'
  PROVE  RaceInv'
<1>1. Types'
  BY DEF RaceInv, Types
<1>2. Monitor'
  BY DEF RaceInv, Monitor
<1>3. ASSUME overlap' = "none" PROVE Clean' /\ Covered'
  <2>1. Clean /\ Covered
    BY <1>3 DEF RaceInv
  <2>2. Clean'
    BY <2>1 DEF Clean, Older
  <2>3. \A tx \in 0..(created - 1) : tx \in executed' \/ Holds(tx) \/ (Adding /\ tx = created - 1)
    BY <2>1 DEF Covered
  <2>4. \A tx : Holds(tx) => \E i \in 0..(size' - 1) : elementData'[i] = tx
    BY DEF Holds
  <2>5. Covered'
    BY <2>3, <2>4 DEF Covered, Holds
  <2> QED
    BY <2>2, <2>5
<1>4. ~Followed'
  BY DEF Followed
<1>5. overlap' = "none" => \A t \in Readers : rpc'[t] = "print" => size' = 0
  BY DEF RaceInv
<1> QED
  BY <1>1, <1>2, <1>3, <1>4, <1>5 DEF RaceInv

\* The invariant holds when a message arrives.
LEMMA ReceiveKeeps ==
  ASSUME RaceInv, Receive
  PROVE  RaceInv'
<1> QED
  BY QuietKeeps DEF Receive, RaceInv, Types

\* The invariant holds when removeIf starts.
LEMMA RemoveBeginKeeps ==
  ASSUME RaceInv, RemoveBegin
  PROVE  RaceInv'
<1>1. overlap = "none" => Found'
  BY DEF RemoveBegin, RaceInv, Types, Clean, Found
<1> QED
  BY <1>1, QuietKeeps DEF RemoveBegin, RaceInv, Types

\* The invariant holds when removeIf has looked for the transaction.
LEMMA RemoveScanKeeps ==
  ASSUME RaceInv, RemoveScan
  PROVE  RaceInv'
<1>1. ASSUME overlap = "none" PROVE Found'
  <2>1. Clean /\ Found
    BY <1>1 DEF RaceInv, RemoveScan
  <2>2. ASSUME lpc' = "check", lRead' # lEnd
        PROVE  lRead' \in 0..(lEnd - 1) /\ elementData[lRead'] = InHand
    <3> DEFINE P(i) == /\ elementData[i] = InHand
                       /\ \A j \in 0..(i - 1) : elementData[j] # InHand
    <3>1. PICK i \in 0..(lEnd - 1) : elementData[i] = InHand
      BY <2>2 DEF RemoveScan
    <3>2. lRead' = CHOOSE x \in 0..(lEnd - 1) : P(x)
      BY <2>2, <3>1 DEF RemoveScan
    <3>3. \A j \in 0..(i - 1) : elementData[j] # InHand
      BY <2>1, <3>1 DEF Clean, Found
    <3>4. P(i)
      BY <3>1, <3>3
    <3>5. lRead' \in 0..(lEnd - 1) /\ P(lRead')
      <4> HIDE DEF P
      <4> QED
        BY <3>1, <3>2, <3>4
    <3> QED
      BY <3>5
  <2> QED
    BY <2>1, <2>2 DEF RemoveScan, Found, InHand
<1> QED
  BY <1>1, QuietKeeps DEF RemoveScan, RaceInv, Types

\* The invariant holds after the transaction in hand is executed.
LEMMA ExecuteKeeps ==
  ASSUME RaceInv, Execute
  PROVE  RaceInv'
<1> QED
  BY QuietKeeps DEF Execute, RaceInv, Types

\* The invariant holds after the waiting readers are notified.
LEMMA NotifyKeeps ==
  ASSUME RaceInv, Notify
  PROVE  RaceInv'
<1> USE DEF Notify
<1>1. Types'
  BY DEF RaceInv, Types
<1>2. Monitor'
  BY DEF RaceInv, Types, Monitor
<1>3. Clean' = Clean /\ (Covered => Covered')
  BY DEF Clean, Older, Covered, Holds
<1>4. ~Followed'
  BY DEF Followed
<1>5. overlap = "none" => \A t \in Readers : rpc'[t] = "print" => size = 0
  BY DEF RaceInv, Types
<1> QED
  BY <1>1, <1>2, <1>3, <1>4, <1>5 DEF RaceInv

\* removeIf begins to change an array that is in order.
LEMMA RemovalStarts ==
  ASSUME Types, Clean, Found, Covered, RemoveCheck, modCount = lExpected,
         NEW k \in 0..(lEnd - 1), k = lRead
  PROVE  Removal(k)' /\ (~Adding => (NoAdd /\ CoveredBefore)')
<1> USE DEF RemoveCheck
<1>1. elementData[k] = InHand /\ lEnd \in 0..size /\ size \in Nat
  BY DEF Found, Clean, Older, Types
<1>2. size = lEnd \/ (size = lEnd + 1 /\ ~Adding)
  BY DEF Found
<1>3. before' = List /\ lpc' = "compact" /\ lWrite' = k /\ lRead' = k
  BY DEF Found
<1>4. List \in Seq({elementData[i] : i \in 0..(size - 1)})
  BY <1>1 DEF List
<1>5. Len(List) = size /\ DOMAIN List = 1..size /\ \A i \in 1..size : List[i] = elementData[i - 1]
  BY <1>1, <1>4 DEF List
<1>6. oldSize' = size /\ DOMAIN before' = 1..size
      /\ \A i \in 1..size : before'[i] = elementData[i - 1]
  BY <1>3, <1>5 DEF oldSize
<1>7. Adding => cSize = size /\ created \in 1..MaxAdds /\ size \in 0..(created - 1)
  BY DEF Clean, Older, Types
<1>8. size \in 0..created /\ \A i \in 0..(size - 1) : elementData[i] \in 0..(created - 1)
  BY DEF Clean, Older, Types
<1>9. during' = IF Adding THEN {created - 1} ELSE {}
  OBVIOUS
<1>10. WellBefore(k)'
  <2>1. size + (IF during' = {} THEN 0 ELSE 1) <= created
    BY <1>7, <1>8, <1>9
  <2>2. \A i, j \in 1..size : before'[i] = before'[j] => i = j
    BY <1>1, <1>6 DEF Clean
  <2>3. \A i \in 1..size : before'[i] \in 0..(created - 1)
    BY <1>1, <1>6, <1>8
  <2>4. before'[k + 1] = InHand /\ InHand' = InHand
    BY <1>1, <1>6 DEF InHand
  <2> QED
    BY <1>1, <1>2, <1>6, <2>1, <2>2, <2>3, <2>4 DEF WellBefore
<1>11. Behind'
  BY <1>6, <1>7, <1>9 DEF Behind, NoAdd, AddOn, AddDone, Clean
<1>12. Compacting(k)'
  <2>1. \A i \in 0..(size - 1) : elementData'[i] = before'[i + 1]
    BY <1>1, <1>6
  <2>2. lRead' \in 0..lEnd' /\ lWrite' \in 0..lEnd'
    BY <1>1, <1>3
  <2> QED
    BY <1>1, <1>3, <1>6, <1>11, <2>1, <2>2 DEF Compacting
<1>13. Removal(k)'
  BY <1>3, <1>10, <1>12 DEF Removal
<1>14. ASSUME ~Adding PROVE (NoAdd /\ CoveredBefore)'
  <2>1. \A tx \in 0..(created - 1) : tx \in executed \/ Holds(tx)
    BY <1>14 DEF Covered
  <2>2. ASSUME NEW tx, Holds(tx) PROVE \E i \in 1..size : before'[i] = tx
    <3>1. PICK i \in 0..(size - 1) : elementData[i] = tx
      BY <2>2 DEF Holds
    <3>2. i + 1 \in 1..size /\ before'[i + 1] = elementData[i]
      BY <1>1, <1>6
    <3> QED
      BY <3>1, <3>2
  <2>3. CoveredBefore'
    BY <1>6, <2>1, <2>2 DEF CoveredBefore, Elements
  <2> QED
    BY <1>9, <1>14, <2>3 DEF NoAdd
<1> QED
  BY <1>13, <1>14

\* The invariant holds after the check before removeIf changes the array.
LEMMA RemoveCheckKeeps ==
  ASSUME RaceInv, RemoveCheck
  PROVE  RaceInv'
<1> USE DEF RemoveCheck
<1>1. CASE modCount # lExpected \/ lRead = lEnd
  BY <1>1, QuietKeeps DEF RaceInv, Types
<1>2. CASE modCount = lExpected /\ lRead # lEnd
  <2>1. lpc' = "compact" /\ during' = IF Adding THEN {created - 1} ELSE {}
    BY <1>2
  <2>2. overlap' = IF Adding THEN Overlapped ELSE overlap
    BY <1>2
  <2>3. Types'
    BY <2>1, <2>2 DEF RaceInv, Types, Overlapped
  <2>4. Monitor'
    BY DEF RaceInv, Monitor
  <2>5. overlap \in {"none", "earlier"}
    BY DEF RaceInv, Types
  <2>6. overlap' = "none" => overlap = "none" /\ ~Adding
    BY <2>2, <2>5 DEF Overlapped
  <2>7. overlap = "none" => Types /\ Clean /\ Found /\ Covered /\ Monitor
    BY DEF RaceInv
  <2>8. ASSUME overlap = "none"
        PROVE  /\ \E k \in 0..(lEnd - 1) : Removal(k)'
               /\ ~Adding => (NoAdd /\ CoveredBefore)'
    <3>1. PICK k \in 0..(lEnd - 1) : k = lRead
      BY <1>2, <2>7, <2>8 DEF Found
    <3> QED
      BY <1>2, <2>7, <2>8, <3>1, RemovalStarts
  <2>9. overlap' = "none" => \A t \in Readers : rpc'[t] = "print" => size' = 0
    BY <1>2, <2>6 DEF RaceInv
  <2>10. ASSUME Followed' PROVE \E k \in 0..(lEnd' - 1) : Removal(k)'
    <3>1. overlap = "none"
      BY <2>2, <2>5, <2>10 DEF Followed, Overlapped
    <3> QED
      BY <2>8, <3>1
  <2> QED
    BY <2>1, <2>3, <2>4, <2>6, <2>8, <2>9, <2>10 DEF RaceInv
<1> QED
  BY <1>1, <1>2

-----------------------------------------------------------------------------
(* The listener thread, while removeIf changes the array. *)

\* What a step of removeIf that changes the array leaves alone.
removalRest == <<modCount, owner, commandVars, message, place, lExpected, lEnd, executed, rpc,
                 historyVars>>

\* The invariant holds after a step of the change, if the array is then as the
\* stage says.
LEMMA ChangeKeeps ==
  ASSUME RaceInv, Removing, UNCHANGED removalRest,
         lpc' \in {"compact", "shift", "readSize", "writeSize", "clear", "execute"},
         elementData' = [i \in Tx |-> elementData'[i]],
         \A k \in 0..(lEnd - 1) : Removal(k) /\ Followed =>
           /\ Removal(k)'
           /\ overlap = "none" /\ lpc' = "execute" => (Clean /\ Covered)'
           /\ size = 0 => size' = 0
  PROVE  RaceInv'
<1> USE DEF removalRest
<1>1. Types'
  BY DEF RaceInv, Types
<1>2. Monitor'
  BY DEF RaceInv, Monitor
<1>3. Followed' => Followed
  BY DEF Followed, Several
<1>4. Followed' => \E k \in 0..(lEnd' - 1) : Removal(k)'
  BY <1>3 DEF RaceInv
<1>5. ASSUME overlap = "none"
      PROVE  /\ lpc' = "execute" => (Clean /\ Covered)'
             /\ lpc' # "execute" => (NoAdd /\ CoveredBefore)'
             /\ \A t \in Readers : rpc'[t] = "print" => size' = 0
  <2>1. NoAdd /\ CoveredBefore
    BY <1>5 DEF RaceInv
  <2>2. Followed
    BY <1>5, <2>1 DEF Followed, NoAdd, Several
  <2>3. PICK k \in 0..(lEnd - 1) : Removal(k)
    BY <2>2 DEF RaceInv
  <2>4. NoAdd' /\ CoveredBefore'
    BY <2>1 DEF NoAdd, CoveredBefore, Elements
  <2> QED
    BY <1>5, <2>2, <2>3, <2>4 DEF RaceInv
<1> QED
  BY <1>1, <1>2, <1>4, <1>5 DEF RaceInv

\* What is known of the list as it was stays known.
LEMMA BeforeStays ==
  ASSUME NEW k \in 0..(lEnd - 1), Removal(k), UNCHANGED removalRest
  PROVE  /\ WellBefore(k) /\ WellBefore(k)'
         /\ oldSize' = oldSize /\ oldSize \in Nat /\ lEnd \in Nat /\ k \in 0..(lEnd - 1)
         /\ NoAdd' = NoAdd /\ AddDone' = AddDone
<1> USE DEF removalRest
<1>1. oldSize' = oldSize /\ InHand' = InHand
  BY DEF oldSize, InHand
<1> QED
  BY <1>1 DEF Removal, WellBefore, NoAdd, AddDone, AddOn

\* One element more is moved down, or none is left to move.
LEMMA RemoveCompactKeeps ==
  ASSUME RaceInv, RemoveCompact
  PROVE  RaceInv'
<1> USE ListAssumption DEF RemoveCompact
<1>1. UNCHANGED removalRest
  BY DEF removalRest
<1>2. elementData' = [i \in Tx |-> elementData'[i]]
  BY DEF RaceInv, Types
<1>3. ASSUME NEW k \in 0..(lEnd - 1), Removal(k), Followed PROVE Removal(k)'
  <2>1. /\ WellBefore(k) /\ WellBefore(k)' /\ oldSize' = oldSize /\ oldSize \in Nat
        /\ created \in 0..MaxAdds /\ elementData = [i \in Tx |-> elementData[i]]
    BY <1>1, <1>3, BeforeStays DEF RaceInv, Types
  <2>2. Compacting(k) /\ Behind
    BY <1>3 DEF Removal, Compacting
  <2>3. CASE lRead = lEnd
    <3>1. lWrite = lEnd - 1
      BY <2>1, <2>2, <2>3 DEF Compacting
    <3>2. Behind'
      BY <2>1, <2>2, <2>3 DEF Behind, NoAdd, AddOn, AddDone
    <3>3. Compacting(k)'
      BY <2>1, <2>2, <2>3, <3>2 DEF Compacting
    <3> QED
      BY <2>1, <2>3, <3>1, <3>3 DEF Removal
  <2>4. CASE lRead # lEnd
    <3>1. lRead \in 0..(lEnd - 1) /\ lWrite \in 0..lRead /\ lEnd \in 0..oldSize /\ oldSize <= created
      BY <2>1, <2>2, <2>4 DEF Compacting, WellBefore
    <3>2. elementData[lRead] = before[lRead + 1]
      <4>1. \A i \in 0..(oldSize - 1) : i >= lWrite => elementData[i] = before[i + 1]
        BY <2>2 DEF Compacting
      <4>2. lRead \in 0..(oldSize - 1) /\ lRead >= lWrite
        BY <2>1, <3>1
      <4> QED
        BY <4>1, <4>2
    <3>3. elementData[lRead] = InHand <=> lRead = k
      BY <2>1, <3>1, <3>2 DEF WellBefore
    <3>4. lRead = k <=> lWrite = lRead
      BY <2>1, <2>2, <3>1 DEF Compacting, WellBefore
    <3>5. CASE lRead = k
      <4>1. elementData' = elementData /\ lRead' = k + 1 /\ lWrite' = k /\ lpc' = "compact"
        BY <2>4, <3>3, <3>4, <3>5
      <4>2. Behind'
        BY <2>1, <2>2, <4>1 DEF Behind, NoAdd, AddOn, AddDone
      <4>3. \A i \in 0..(oldSize - 1) : elementData'[i] = before[i + 1]
        BY <2>1, <2>2, <3>4, <3>5, <4>1 DEF Compacting
      <4>4. Compacting(k)'
        BY <2>1, <3>1, <4>1, <4>2, <4>3 DEF Compacting
      <4> QED
        BY <2>1, <4>1, <4>4 DEF Removal
    <3>6. CASE lRead # k
      <4>1. /\ elementData' = [elementData EXCEPT ![lWrite] = elementData[lRead]]
            /\ lRead' = lRead + 1 /\ lWrite' = lWrite + 1 /\ lpc' = "compact"
        BY <2>4, <3>3, <3>6
      <4>2. lRead = lWrite + 1 /\ lWrite >= k /\ lWrite \in 0..(oldSize - 2)
        BY <2>1, <2>2, <3>1, <3>4, <3>6 DEF Compacting
      <4>3. elementData'[lWrite] = before[lWrite + 2]
        BY <2>1, <3>1, <3>2, <4>1, <4>2 DEF Tx
      <4>4. \A i : i \in Tx /\ i # lWrite => elementData'[i] = elementData[i]
        BY <2>1, <4>1
      <4>5. oldSize \in Tx => elementData'[oldSize] = elementData[oldSize]
        BY <4>2, <4>4
      <4>6. AddDone => oldSize \in Tx
        BY <2>1 DEF AddDone, WellBefore, Tx
      <4>7. AddOn(oldSize) => oldSize \in Tx
        BY <2>1 DEF AddOn, WellBefore, Tx
      <4>8. Behind'
        BY <2>1, <2>2, <4>1, <4>5, <4>6, <4>7 DEF Behind, NoAdd, AddOn, AddDone
      <4>9. ASSUME NEW i \in 0..(oldSize - 1)
            PROVE  elementData'[i] = IF i < k \/ i >= lWrite' THEN before[i + 1] ELSE before[i + 2]
        <5>1. CASE i = lWrite
          BY <4>1, <4>2, <4>3, <5>1
        <5>2. CASE i # lWrite
          <6>1. elementData'[i] = elementData[i]
            BY <2>1, <3>1, <4>4, <5>2 DEF Tx
          <6>2. i >= lWrite' <=> i >= lWrite
            BY <4>1, <4>2, <5>2
          <6>3. elementData[i] = IF i < k \/ i >= lWrite THEN before[i + 1] ELSE before[i + 2]
            BY <2>2 DEF Compacting
          <6> QED
            BY <6>1, <6>2, <6>3
        <5> QED
          BY <5>1, <5>2
      <4>10. Compacting(k)'
        BY <2>1, <3>1, <4>1, <4>2, <4>8, <4>9 DEF Compacting
      <4> QED
        BY <2>1, <4>1, <4>10 DEF Removal
    <3> QED
      BY <3>5, <3>6
  <2> QED
    BY <2>3, <2>4
<1> QED
  BY <1>1, <1>2, <1>3, ChangeKeeps DEF RaceInv, Types

\* What came behind the part removeIf went through is moved down.
LEMMA RemoveShiftKeeps ==
  ASSUME RaceInv, RemoveShift
  PROVE  RaceInv'
<1> USE ListAssumption DEF RemoveShift
<1>1. UNCHANGED removalRest
  BY DEF removalRest
<1>2. elementData' = [i \in Tx |-> elementData'[i]]
  OBVIOUS
<1>3. ASSUME NEW k \in 0..(lEnd - 1), Removal(k), Followed PROVE Removal(k)'
  <2>1. /\ WellBefore(k) /\ WellBefore(k)' /\ oldSize' = oldSize /\ oldSize \in Nat
        /\ NoAdd' = NoAdd /\ AddDone' = AddDone
        /\ created \in 0..MaxAdds
    BY <1>1, <1>3, BeforeStays DEF RaceInv, Types
  <2>2. Compacting(k) /\ Behind /\ lRead = lEnd /\ lWrite = lEnd - 1
    BY <1>3 DEF Removal, Compacting
  <2>3. lEnd \in 1..oldSize /\ oldSize \in {lEnd, lEnd + 1} /\ oldSize <= created
    BY <2>1 DEF WellBefore
  <2>4. size \in {oldSize, oldSize + 1}
    BY <2>2 DEF Behind
  <2>5. \A i \in Tx : elementData'[i] =
          IF i >= lEnd - 1 /\ i < size - 1 THEN elementData[i + 1] ELSE elementData[i]
    BY <2>2, <2>3, <2>4 DEF Tx
  <2>6. \A i \in 0..(oldSize - 1) : i \in Tx
    BY <2>1, <2>3 DEF Tx
  <2>7. \A i \in 0..(oldSize - 1) :
          elementData[i] = IF i < k \/ i >= lEnd - 1 THEN before[i + 1] ELSE before[i + 2]
    BY <2>2 DEF Compacting
  <2>8. ASSUME NEW i \in 0..(oldSize - 2) PROVE elementData'[i] = Left(k, i)
    <3>1. CASE i < lEnd - 1
      <4>1. elementData'[i] = elementData[i]
        BY <2>1, <2>3, <2>5, <2>6, <3>1
      <4> QED
        BY <2>1, <2>3, <2>7, <3>1, <4>1 DEF Left
    <3>2. CASE i >= lEnd - 1
      <4>1. i < size - 1
        BY <2>1, <2>3, <2>4
      <4>2. elementData'[i] = elementData[i + 1]
        BY <2>1, <2>3, <2>5, <2>6, <3>2, <4>1
      <4>3. elementData[i + 1] = before[(i + 1) + 1]
        BY <2>1, <2>3, <2>7, <3>2
      <4>4. ~(i < k)
        BY <2>3, <3>2
      <4>5. (i + 1) + 1 = i + 2
        BY <2>1
      <4> QED
        BY <4>2, <4>3, <4>4, <4>5 DEF Left
    <3> QED
      BY <2>3, <3>1, <3>2
  <2>9. Shifted(k)'
    BY <2>1, <2>8 DEF Shifted, Left
  <2>10. CASE size = oldSize
    <3>1. elementData'[oldSize - 1] = before[oldSize]
      <4>1. elementData'[oldSize - 1] = elementData[oldSize - 1]
        BY <2>3, <2>5, <2>6, <2>10
      <4>2. elementData[oldSize - 1] = before[(oldSize - 1) + 1]
        BY <2>3, <2>7
      <4> QED
        BY <2>3, <4>1, <4>2
    <3>2. oldSize \in Tx => elementData'[oldSize] = elementData[oldSize]
      BY <2>3, <2>5, <2>10
    <3>3. AddOn(oldSize) => oldSize \in Tx
      BY <2>1, <2>3 DEF AddOn, WellBefore, Tx
    <3>4. Behind'
      BY <2>1, <2>2, <2>10, <3>2, <3>3 DEF Behind, AddOn
    <3>5. Stayed'
      BY <2>1, <3>1, <3>4 DEF Stayed
    <3> QED
      BY <2>1, <2>2, <2>9, <3>5 DEF Removal
  <2>11. CASE size = oldSize + 1
    <3>1. AddDone /\ elementData[oldSize] = created - 1
      BY <2>1, <2>2, <2>11 DEF Behind, NoAdd, AddOn
    <3>2. elementData'[oldSize - 1] = elementData[(oldSize - 1) + 1]
      BY <2>3, <2>5, <2>6, <2>11
    <3>3. Moved'
      BY <2>1, <2>3, <2>11, <3>1, <3>2 DEF Moved
    <3> QED
      BY <2>1, <2>2, <2>9, <3>3 DEF Removal
  <2> QED
    BY <2>4, <2>10, <2>11
<1> QED
  BY <1>1, <1>2, <1>3, ChangeKeeps

\* The size is read a last time.
LEMMA RemoveReadSizeKeeps ==
  ASSUME RaceInv, RemoveReadSize
  PROVE  RaceInv'
<1> USE DEF RemoveReadSize
<1>1. UNCHANGED removalRest
  BY DEF removalRest
<1>2. ASSUME NEW k \in 0..(lEnd - 1), Removal(k), Followed PROVE Removal(k)'
  <2>1. /\ WellBefore(k)' /\ oldSize' = oldSize /\ oldSize \in Nat
        /\ NoAdd' = NoAdd /\ AddDone' = AddDone
    BY <1>1, <1>2, BeforeStays
  <2>2. Moved \/ Stayed
    BY <1>2 DEF Removal
  <2>3. Behind => Behind'
    BY <2>1 DEF Behind, AddOn
  <2>4. Moved => Moved'
    BY <2>1 DEF Moved
  <2>5. SizeRead'
    BY <2>1, <2>2, <2>3, <2>4 DEF SizeRead, Moved, Stayed, Behind
  <2>6. Shifted(k)'
    BY <1>2, <2>1 DEF Removal, Shifted, Left
  <2> QED
    BY <1>2, <2>1, <2>5, <2>6 DEF Removal
<1> QED
  BY <1>1, <1>2, ChangeKeeps DEF RaceInv, Types

\* The size is lowered from what it was when it was read.
LEMMA RemoveWriteSizeKeeps ==
  ASSUME RaceInv, RemoveWriteSize
  PROVE  RaceInv'
<1> USE DEF RemoveWriteSize
<1>1. UNCHANGED removalRest
  BY DEF removalRest
<1>2. ASSUME NEW k \in 0..(lEnd - 1), Removal(k), Followed PROVE Removal(k)' /\ size # 0
  <2>1. /\ WellBefore(k) /\ WellBefore(k)' /\ oldSize' = oldSize /\ oldSize \in Nat
        /\ NoAdd' = NoAdd /\ AddDone' = AddDone
    BY <1>1, <1>2, BeforeStays
  <2>2. SizeRead /\ lWrite = lEnd - 1
    BY <1>2 DEF Removal
  <2>3. oldSize >= 1 /\ lEnd \in Nat
    BY <2>1 DEF WellBefore
  <2>4. lTo \in Int
    BY <2>1, <2>2 DEF SizeRead
  <2>5. size' = lTo - 1
    BY <2>2, <2>3, <2>4
  <2>6. Shifted(k)'
    BY <1>2, <2>1 DEF Removal, Shifted, Left
  <2>7. size # 0
    BY <2>1, <2>2, <2>3 DEF SizeRead, Moved, Stayed, Behind
  <2>8. SizeWritten'
    <3>1. CASE Moved /\ lTo = oldSize + 1
      BY <2>1, <2>5, <3>1 DEF SizeWritten, Moved
    <3>2. CASE AddDone /\ lTo = oldSize + 1 /\ elementData[oldSize - 1] = before[oldSize]
      BY <2>1, <2>5, <3>2 DEF SizeWritten
    <3>3. CASE Stayed /\ lTo = oldSize
      BY <2>1, <2>5, <3>3 DEF SizeWritten, Stayed, Behind, AddOn
    <3> QED
      BY <2>2, <3>1, <3>2, <3>3 DEF SizeRead
  <2> QED
    BY <1>2, <2>1, <2>6, <2>7, <2>8 DEF Removal
<1> QED
  BY <1>1, <1>2, ChangeKeeps DEF RaceInv, Types

\* A removal no add has overlapped leaves the array in order.
LEMMA RemovalEnds ==
  ASSUME RaceInv, NEW k \in 0..(lEnd - 1), Removal(k), NoAdd, CoveredBefore,
         UNCHANGED <<commandVars, before, executed, message, place>>,
         lpc' = "execute", size' = oldSize - 1,
         \A i \in 0..(oldSize - 2) : elementData'[i] = Left(k, i)
  PROVE  (Clean /\ Covered)'
<1>1. /\ oldSize \in Nat /\ oldSize >= 1 /\ oldSize <= created /\ k \in 0..(oldSize - 1)
      /\ created \in 0..MaxAdds /\ before[k + 1] = InHand /\ InHand' = InHand
      /\ DOMAIN before = 1..oldSize
  BY DEF Removal, WellBefore, NoAdd, RaceInv, Types, InHand
<1>2. \A i \in 1..oldSize : before[i] \in 0..(created - 1)
  BY DEF Removal, WellBefore
<1>3. \A i, j \in 1..oldSize : before[i] = before[j] => i = j
  BY DEF Removal, WellBefore
<1>4. Older' = created /\ cpc' = "idle"
  BY DEF Older, NoAdd
<1>5. \A i \in 0..(oldSize - 2) : elementData'[i] \in 0..(created - 1)
  BY <1>1, <1>2 DEF Left
<1>6. \A i, j \in 0..(oldSize - 2) : elementData'[i] = elementData'[j] => i = j
  <2>1. SUFFICES ASSUME NEW i \in 0..(oldSize - 2), NEW j \in 0..(oldSize - 2),
                        Left(k, i) = Left(k, j)
                 PROVE  i = j
    OBVIOUS
  <2>2. PICK p \in 1..oldSize : p = (IF i < k THEN i + 1 ELSE i + 2) /\ Left(k, i) = before[p]
    BY <1>1 DEF Left
  <2>3. PICK q \in 1..oldSize : q = (IF j < k THEN j + 1 ELSE j + 2) /\ Left(k, j) = before[q]
    BY <1>1 DEF Left
  <2>4. p = q
    BY <1>3, <2>1, <2>2, <2>3
  <2> QED
    BY <1>1, <2>2, <2>3, <2>4
<1>7. Clean'
  BY <1>1, <1>4, <1>5, <1>6 DEF Clean
<1>8. ASSUME NEW tx \in 0..(created - 1), tx \notin executed, tx # InHand
      PROVE  \E i \in 0..(size' - 1) : elementData'[i] = tx
  <2>1. PICK j \in 1..oldSize : before[j] = tx
    BY <1>1, <1>8 DEF CoveredBefore, Elements
  <2>2. j # k + 1
    BY <1>1, <1>8, <2>1
  <2>3. CASE j < k + 1
    <3>1. j - 1 \in 0..(size' - 1) /\ Left(k, j - 1) = before[j]
      BY <1>1, <2>3 DEF Left
    <3>2. elementData'[j - 1] = tx
      BY <1>1, <2>1, <3>1
    <3> QED
      BY <3>1, <3>2
  <2>4. CASE j > k + 1
    <3>1. j - 2 \in 0..(size' - 1) /\ Left(k, j - 2) = before[j]
      BY <1>1, <2>4 DEF Left
    <3>2. elementData'[j - 2] = tx
      BY <1>1, <2>1, <3>1
    <3> QED
      BY <3>1, <3>2
  <2> QED
    BY <1>1, <2>2, <2>3, <2>4
<1>9. Covered'
  BY <1>1, <1>8 DEF Covered, Holds
<1> QED
  BY <1>7, <1>9

\* The places above the new size are cleared.
LEMMA RemoveClearKeeps ==
  ASSUME RaceInv, RemoveClear
  PROVE  RaceInv'
<1> USE ListAssumption DEF RemoveClear
<1>1. UNCHANGED removalRest
  BY DEF removalRest
<1>2. ASSUME NEW k \in 0..(lEnd - 1), Removal(k), Followed
      PROVE  Removal(k)' /\ (overlap = "none" => (Clean /\ Covered)')
  <2>1. /\ WellBefore(k) /\ WellBefore(k)' /\ oldSize' = oldSize /\ oldSize \in Nat
        /\ NoAdd' = NoAdd /\ AddDone' = AddDone /\ created \in 0..MaxAdds
    BY <1>1, <1>2, BeforeStays DEF RaceInv, Types
  <2>2. SizeWritten /\ Shifted(k) /\ lRead = lEnd /\ lWrite = lEnd - 1
    BY <1>2 DEF Removal
  <2>3. oldSize \in 1..created /\ lEnd \in Nat
    BY <2>1 DEF WellBefore
  <2>4. lTo \in {oldSize, oldSize + 1}
    BY <2>2 DEF SizeWritten
  <2>5. \A i \in Tx : elementData'[i] = IF i = lTo - 1 THEN Null ELSE elementData[i]
    BY <2>2, <2>3, <2>4 DEF Tx
  <2>6. \A i \in 0..(oldSize - 1) : i \in Tx
    BY <2>1, <2>3 DEF Tx
  <2>7. \A i \in 0..(oldSize - 2) : elementData'[i] = elementData[i]
    BY <2>3, <2>4, <2>5, <2>6
  <2>8. Shifted(k)'
    BY <2>1, <2>2, <2>7 DEF Shifted, Left
  <2>9. lTo = oldSize => elementData'[oldSize - 1] = Null
    BY <2>3, <2>5, <2>6
  <2>10. lTo = oldSize + 1 => elementData'[oldSize - 1] = elementData[oldSize - 1]
    BY <2>3, <2>5, <2>6
  <2>11. lTo = oldSize /\ oldSize \in Tx => elementData'[oldSize] = elementData[oldSize]
    BY <2>3, <2>5
  <2>12. during # {} => oldSize \in Tx
    BY <2>1, <2>3 DEF WellBefore, Tx
  <2>13. \A p : AddOn(p) => during # {}
    BY DEF AddOn
  <2>14. AddDone => during # {}
    BY DEF AddDone
  <2>15. SizeWritten'
    <3>1. CASE NoAdd /\ size = oldSize - 1 /\ lTo = oldSize
      BY <2>1, <3>1 DEF SizeWritten
    <3>2. CASE AddDone /\ size = oldSize - 1 /\ lTo = oldSize
      BY <2>1, <3>2 DEF SizeWritten
    <3>3. CASE AddDone /\ size = oldSize /\ lTo = oldSize + 1 /\ elementData[oldSize - 1] = before[oldSize]
      BY <2>1, <2>10, <3>3 DEF SizeWritten
    <3>4. CASE /\ AddDone /\ size = oldSize /\ lTo \in {oldSize, oldSize + 1}
               /\ elementData[oldSize - 1] \in {created - 1, Null}
      BY <2>1, <2>9, <2>10, <3>4 DEF SizeWritten
    <3>5. CASE AddDone /\ size = oldSize + 1 /\ lTo = oldSize /\ elementData[oldSize] = created - 1
      BY <2>1, <2>9, <2>11, <2>12, <2>14, <3>5 DEF SizeWritten
    <3>6. CASE /\ AddOn(oldSize) /\ size = oldSize - 1 /\ lTo = oldSize
               /\ cpc = "size" => elementData[oldSize] = created - 1
      <4>1. AddOn(oldSize)'
        BY <2>1, <3>6 DEF AddOn
      <4>2. elementData'[oldSize] = elementData[oldSize]
        BY <2>11, <2>12, <2>13, <3>6
      <4> QED
        BY <2>1, <2>9, <3>6, <4>1, <4>2 DEF SizeWritten
    <3>7. CASE AddOn(oldSize - 1) /\ size = oldSize - 1 /\ lTo = oldSize
      <4>1. AddOn(oldSize - 1)'
        BY <2>1, <3>7 DEF AddOn
      <4> QED
        BY <2>1, <2>9, <3>7, <4>1 DEF SizeWritten
    <3> QED
      BY <2>2, <3>1, <3>2, <3>3, <3>4, <3>5, <3>6, <3>7 DEF SizeWritten
  <2>16. Removal(k)'
    BY <2>1, <2>2, <2>8, <2>15 DEF Removal
  <2>17. ASSUME overlap = "none" PROVE (Clean /\ Covered)'
    <3>1. NoAdd /\ CoveredBefore
      BY <2>17 DEF RaceInv
    <3>2. size = oldSize - 1
      BY <2>2, <2>13, <2>14, <3>1 DEF SizeWritten, NoAdd
    <3>3. \A i \in 0..(oldSize - 2) : elementData'[i] = Left(k, i)
      BY <2>2, <2>7 DEF Shifted
    <3> QED
      BY <1>2, <3>1, <3>2, <3>3, RemovalEnds
  <2> QED
    BY <2>16, <2>17
<1> QED
  BY <1>1, <1>2, ChangeKeeps

-----------------------------------------------------------------------------
(* The other threads, and every step. *)

\* The scheduler thread only reads the list.
LEMMA SchedulerKeeps ==
  ASSUME RaceInv, SchedulerThread
  PROVE  RaceInv'
<1>1. UNCHANGED <<arrayState, owner, rpc>>
  BY DEF SchedulerThread, SendBegin, SendSize, SendElement, SendMessage, SendThrows, arrayState
<1>2. Monitor'
  BY <1>1 DEF RaceInv, Monitor, arrayState
<1> QED
  BY <1>1, <1>2, ElsewhereKeeps DEF RaceInv, Types

\* A reader prints only after it saw an empty list, in the monitor.
LEMMA ReaderKeeps ==
  ASSUME RaceInv, NEW t \in Readers, Reader(t)
  PROVE  RaceInv'
<1>1. UNCHANGED arrayState
  BY DEF Reader, Start, Enter, Test, PrintBalance, arrayState
<1>2. rpc = [u \in Readers |-> rpc[u]] /\ Monitor
  BY DEF RaceInv, Types
<1>3. \A u \in Readers : u # t => rpc'[u] = rpc[u]
  BY <1>2 DEF Reader, Start, Enter, Test, PrintBalance
<1>4. rpc' = [u \in Readers |-> rpc'[u]]
  BY <1>2 DEF Reader, Start, Enter, Test, PrintBalance
<1>5. CASE Start(t)
  <2>1. rpc'[t] = "enter" /\ owner' = owner /\ UNCHANGED cpc
    BY <1>2, <1>5 DEF Start
  <2>2. Monitor'
    BY <1>2, <1>3, <2>1 DEF Monitor
  <2> QED
    BY <1>1, <1>3, <1>4, <2>1, <2>2, ElsewhereKeeps DEF RaceInv
<1>6. CASE Enter(t)
  <2>1. rpc'[t] = "test" /\ owner = None /\ owner' = t /\ UNCHANGED cpc
    BY <1>2, <1>6 DEF Enter
  <2>2. ~Adding /\ \A u \in Readers : rpc[u] \notin {"test", "print"}
    BY <1>2, <2>1, ListAssumption DEF Monitor
  <2>3. Monitor'
    BY <1>3, <2>1, <2>2 DEF Monitor
  <2> QED
    BY <1>1, <1>3, <1>4, <2>1, <2>3, ElsewhereKeeps DEF RaceInv
<1>7. CASE Test(t)
  <2>1. rpc'[t] \in {"print", "wait"} /\ UNCHANGED cpc /\ (rpc'[t] = "print" => size = 0)
    BY <1>2, <1>7 DEF Test
  <2>2. owner = t
    BY <1>2, <1>7 DEF Test, Monitor
  <2>3. rpc'[t] = "print" => owner' = t
    BY <1>2, <1>7, <2>2 DEF Test
  <2>4. ~Adding /\ \A u \in Readers : u # t => rpc[u] \notin {"test", "print"}
    BY <1>2, <2>2, ListAssumption DEF Monitor
  <2>5. Monitor'
    BY <1>3, <2>1, <2>3, <2>4 DEF Monitor
  <2> QED
    BY <1>1, <1>3, <1>4, <2>1, <2>5, ElsewhereKeeps DEF RaceInv
<1>8. CASE PrintBalance(t)
  <2>1. rpc'[t] = "done" /\ UNCHANGED cpc
    BY <1>2, <1>8 DEF PrintBalance
  <2>2. owner = t
    BY <1>2, <1>8 DEF PrintBalance, Monitor
  <2>3. ~Adding /\ \A u \in Readers : u # t => rpc[u] \notin {"test", "print"}
    BY <1>2, <2>2, ListAssumption DEF Monitor
  <2>4. Monitor'
    BY <1>3, <2>1, <2>3 DEF Monitor
  <2> QED
    BY <1>1, <1>3, <1>4, <2>1, <2>4, ElsewhereKeeps DEF RaceInv
<1> QED
  BY <1>5, <1>6, <1>7, <1>8 DEF Reader

\* The invariant is inductive.
LEMMA StepKeeps == RaceInv /\ [Next]_vars => RaceInv'
<1> SUFFICES ASSUME RaceInv, [Next]_vars PROVE RaceInv'
  OBVIOUS
<1>1. CASE CommandThread
  BY <1>1, AddBeginKeeps, AddStoreKeeps, AddSizeKeeps DEF CommandThread
<1>2. CASE SchedulerThread
  BY <1>2, SchedulerKeeps
<1>3. CASE ListenerThread
  BY <1>3, ReceiveKeeps, RemoveBeginKeeps, RemoveScanKeeps, RemoveCheckKeeps,
     RemoveCompactKeeps, RemoveShiftKeeps, RemoveReadSizeKeeps, RemoveWriteSizeKeeps,
     RemoveClearKeeps, ExecuteKeeps, NotifyKeeps DEF ListenerThread
<1>4. CASE \E t \in Readers : Reader(t)
  BY <1>4, ReaderKeeps
<1>5. CASE UNCHANGED vars
  <2>1. UNCHANGED <<arrayState, owner, rpc>>
    BY <1>5 DEF vars, arrayState
  <2>2. Monitor'
    BY <2>1 DEF RaceInv, Monitor, arrayState
  <2> QED
    BY <2>1, <2>2, ElsewhereKeeps DEF RaceInv, Types
<1> QED
  BY <1>1, <1>2, <1>3, <1>4, <1>5 DEF Next

-----------------------------------------------------------------------------
(* What the races can leave. *)

\* From the invariant: the balance a naive reader prints (358) lacks at most the
\* transaction in hand.
LEMMA NaiveReadFromInv == RaceInv => NaiveReadLacksAtMostOne
<1> SUFFICES ASSUME RaceInv, NEW t \in Readers, rpc[t] = "print", overlap = "none",
                    NEW tx \in 0..(created - 1), tx \notin executed
             PROVE  (Removing \/ lpc = "execute") /\ tx = InHand
  BY DEF NaiveReadLacksAtMostOne
<1>1. size = 0 /\ ~Adding
  BY ListAssumption DEF RaceInv, Monitor
<1>2. CASE ~Removing
  BY <1>1, <1>2 DEF RaceInv, Covered, Holds
<1>3. CASE Removing
  <2>1. NoAdd /\ CoveredBefore /\ Followed
    BY <1>3 DEF RaceInv, Followed, NoAdd, Several
  <2>2. PICK k \in 0..(lEnd - 1) : Removal(k)
    BY <2>1 DEF RaceInv
  <2>3. WellBefore(k)
    BY <2>2 DEF Removal
  <2>4. size \in {oldSize, oldSize - 1}
    <3>1. Behind \/ Moved \/ SizeRead \/ SizeWritten
      BY <1>3, <2>2 DEF Removal, Compacting, Stayed
    <3> QED
      BY <2>1, <3>1 DEF NoAdd, Behind, Moved, Stayed, SizeRead, SizeWritten, AddOn, AddDone
  <2>5. oldSize = 1 /\ k = 0
    BY <1>1, <2>3, <2>4 DEF WellBefore
  <2>6. tx \in Elements(before)
    BY <2>1 DEF CoveredBefore
  <2> QED
    BY <1>3, <2>3, <2>5, <2>6 DEF WellBefore, Elements
<1> QED
  BY <1>2, <1>3

\* A list whose places hold what a sequence holds, and nothing more, is it.
LEMMA SameSequence ==
  ASSUME NEW m \in Nat, NEW e, NEW S, NEW list \in Seq(S), Len(list) = m,
         \A i \in 1..m : list[i] = e[i - 1]
  PROVE  list = [i \in 1..m |-> e[i - 1]]
OBVIOUS

\* A list with one element behind a sequence.
LEMMA OneMore ==
  ASSUME NEW m \in Nat, m >= 1, NEW e, NEW S, NEW list \in Seq(S), Len(list) = m - 1,
         \A i \in 1..(m - 1) : list[i] = e[i - 1]
  PROVE  list \o <<e[m - 1]>> = [i \in 1..m |-> e[i - 1]]
<1>1. Len(list \o <<e[m - 1]>>) = m
  OBVIOUS
<1>2. \A i \in 1..m : (list \o <<e[m - 1]>>)[i] = e[i - 1]
  OBVIOUS
<1>3. list \o <<e[m - 1]>> \in Seq(S \cup {e[m - 1]})
  OBVIOUS
<1> QED
  BY <1>1, <1>2, <1>3

\* A list with two elements behind a sequence.
LEMMA TwoMore ==
  ASSUME NEW m \in Nat, m >= 1, NEW e, NEW S, NEW list \in Seq(S), Len(list) = m - 1,
         \A i \in 1..(m - 1) : list[i] = e[i - 1]
  PROVE  list \o <<e[m - 1], e[m]>> = [i \in 1..(m + 1) |-> e[i - 1]]
<1>1. Len(list \o <<e[m - 1], e[m]>>) = m + 1
  OBVIOUS
<1>2. \A i \in 1..(m + 1) : (list \o <<e[m - 1], e[m]>>)[i] = e[i - 1]
  OBVIOUS
<1>3. list \o <<e[m - 1], e[m]>> \in Seq(S \cup {e[m - 1], e[m]})
  OBVIOUS
<1> QED
  BY <1>1, <1>2, <1>3

\* From the invariant: what a removeIf and the add that overlaps it leave.
LEMMA OverlapFromInv == RaceInv => OverlapOutcomes
<1> SUFFICES ASSUME RaceInv, lpc = "execute", ~Adding, Cardinality(during) = 1, overlap = "this"
             PROVE  \E new \in during :
                      List \in {Rest(before) \o <<new>>, Rest(before), Rest(before) \o <<Null>>,
                                Rest(before) \o <<Null, new>>,
                                Rest(before) \o <<before[Len(before)]>>}
  BY DEF OverlapOutcomes
<1>1. \E x : during = {x}
  <2>1. IsFiniteSet(0..(created - 1)) /\ during \in SUBSET (0..(created - 1))
    <3>1. 0 \in Int /\ created - 1 \in Int /\ during \subseteq 0..(created - 1)
      BY ListAssumption DEF RaceInv, Types
    <3> QED
      BY <3>1, FS_Interval
  <2>2. IsFiniteSet(during)
    BY <2>1, FS_Subset
  <2> QED
    BY <2>2, FS_Singleton
<1>2. Followed
  BY <1>1 DEF Followed, Several
<1>3. PICK k \in 0..(lEnd - 1) : Removal(k)
  BY <1>2 DEF RaceInv
<1>4. WellBefore(k) /\ Shifted(k) /\ SizeWritten
  BY <1>3 DEF Removal
<1>5. AddDone
  BY <1>1, <1>4 DEF SizeWritten, NoAdd, AddOn
<1>6. DEFINE new == created - 1
<1>7. during = {new}
  BY <1>5 DEF AddDone
<1>8. oldSize \in Nat /\ oldSize >= 1 /\ DOMAIN before = 1..oldSize /\ k \in 0..(oldSize - 1)
  BY <1>4 DEF WellBefore
<1> DEFINE S == {elementData[i - 1] : i \in 1..(oldSize - 1)}
<1>9. /\ Rest(before) \in Seq(S)
      /\ Len(Rest(before)) = oldSize - 1
      /\ \A i \in 1..(oldSize - 1) : Rest(before)[i] = elementData[i - 1]
  <2>1. k + 1 = CHOOSE i \in DOMAIN before : before[i] = InHand
    BY <1>4, <1>8 DEF WellBefore
  <2>2. Rest(before) = [i \in 1..(oldSize - 1) |-> before[IF i < k + 1 THEN i ELSE i + 1]]
    BY <2>1 DEF Rest, oldSize
  <2>3. \A i \in 1..(oldSize - 1) : Rest(before)[i] = Left(k, i - 1)
    BY <1>8, <2>2 DEF Left
  <2>4. \A i \in 1..(oldSize - 1) : i - 1 \in 0..(oldSize - 2)
    BY <1>8
  <2>5. \A i \in 1..(oldSize - 1) : Rest(before)[i] = elementData[i - 1]
    BY <1>4, <2>3, <2>4 DEF Shifted
  <2>6. Rest(before) = [i \in 1..(oldSize - 1) |-> elementData[i - 1]]
    BY <2>2, <2>5
  <2>7. \A i \in 1..(oldSize - 1) : elementData[i - 1] \in S
    OBVIOUS
  <2>8. Rest(before) \in [1..(oldSize - 1) -> S] /\ oldSize - 1 \in Nat
    BY <1>8, <2>6, <2>7
  <2>9. Rest(before) \in Seq(S) /\ Len(Rest(before)) = oldSize - 1
    <3> HIDE DEF S
    <3> QED
      BY <2>8
  <2> QED
    BY <2>5, <2>9
<1> HIDE DEF S
<1>10. size \in Nat /\ List = [i \in 1..size |-> elementData[i - 1]]
  BY <1>4, <1>8 DEF SizeWritten, List
<1>11. CASE size = oldSize - 1
  BY <1>7, <1>8, <1>9, <1>10, <1>11, SameSequence
<1>12. CASE size = oldSize
  <2>1. elementData[oldSize - 1] \in {new, Null, before[oldSize]}
    BY <1>4, <1>5, <1>8, <1>12 DEF SizeWritten, NoAdd, AddOn, AddDone
  <2>2. Rest(before) \o <<elementData[oldSize - 1]>> =
          [i \in 1..oldSize |-> elementData[i - 1]]
    BY <1>8, <1>9, OneMore
  <2>3. List = Rest(before) \o <<elementData[oldSize - 1]>>
    BY <1>10, <1>12, <2>2
  <2> QED
    BY <1>7, <2>1, <2>3 DEF oldSize
<1>13. CASE size = oldSize + 1
  <2>1. elementData[oldSize - 1] = Null /\ elementData[oldSize] = new
    BY <1>4, <1>5, <1>8, <1>13 DEF SizeWritten, NoAdd, AddOn, AddDone
  <2>2. Rest(before) \o <<elementData[oldSize - 1], elementData[oldSize]>> =
          [i \in 1..(oldSize + 1) |-> elementData[i - 1]]
    <3>1. PICK list \in Seq(S) : list = Rest(before)
      BY <1>9
    <3>2. Len(list) = oldSize - 1 /\ \A i \in 1..(oldSize - 1) : list[i] = elementData[i - 1]
      BY <1>9, <3>1
    <3>3. PICK m \in Nat : m = oldSize
      BY <1>8
    <3>4. PICK e : e = elementData
      OBVIOUS
    <3>5. m >= 1 /\ Len(list) = m - 1 /\ \A i \in 1..(m - 1) : list[i] = e[i - 1]
      BY <1>8, <3>2, <3>3, <3>4
    <3>6. list \o <<e[m - 1], e[m]>> = [i \in 1..(m + 1) |-> e[i - 1]]
      BY <3>5, TwoMore
    <3> QED
      BY <3>1, <3>3, <3>4, <3>6
  <2>3. List = Rest(before) \o <<Null, new>>
    BY <1>10, <1>13, <2>1, <2>2
  <2> QED
    BY <1>7, <2>3
<1> QED
  BY <1>4, <1>8, <1>11, <1>12, <1>13 DEF SizeWritten

\* The invariant holds of every state: what stands at each place of the array
\* under outstanding_collection, as long as at most one add (150) has
\* overlapped a removeIf (247).
THEOREM ListInvariant == Spec => []RaceInv
<1>1. Init => RaceInv
  BY InitHolds
<1>2. RaceInv /\ [Next]_vars => RaceInv'
  BY StepKeeps
<1> QED
  BY <1>1, <1>2, PTL DEF Spec

\* What getSyncedBalanceNaive (346-361) prints lacks at most the transaction in
\* hand, and a removeIf (247) leaves with the add (150) that overlaps it one of
\* the outcomes module Client lets them have: for every number of transactions,
\* readers and messages.
THEOREM RacesAsListed == Spec => []RaceOutcomes
<1>1. RaceInv => RaceOutcomes
  BY NaiveReadFromInv, OverlapFromInv DEF RaceOutcomes
<1> QED
  BY <1>1, ListInvariant, PTL

-----------------------------------------------------------------------------
(* What a tick sends.  The invariant follows the scheduler's copy while no add *)
(* and no removal has begun since it kept modCount.                            *)

\* The stages in which the size is still the old one.
Unwritten == lpc \in {"compact", "shift", "readSize", "writeSize"}

\* The copy goes along an array whose places stay as they are; an add may come
\* in between the size and the elements.
Steady ==
  /\ ~Unwritten
  /\ size \in Nat /\ sLen \in Nat /\ (sLen = size \/ (sLen = size - 1 /\ ~Adding))
  /\ sCopy \in Seq(Tx) /\ Len(sCopy) <= size
  /\ \A j \in 1..Len(sCopy) : sCopy[j] = elementData[j - 1]
  /\ spc = "check" => sLen <= Len(sCopy)

\* The copy goes along while the removal of the transaction at place k moves
\* the array down.
Torn(k) ==
  /\ oldSize \in Nat /\ DOMAIN before = 1..oldSize /\ k \in 0..(oldSize - 1)
  /\ \A i \in 1..oldSize : before[i] \in Tx
  /\ sLen = oldSize
  /\ sCopy \in Seq(Tx) /\ Len(sCopy) <= oldSize
  /\ \A j \in 1..Len(sCopy) :
       sCopy[j] = before[j] \/ (j > k /\ j < oldSize /\ sCopy[j] = before[j + 1])
  /\ Unwritten => before[k + 1] = InHand
  /\ ~Unwritten => size = oldSize - 1 /\ ~Adding /\ Shifted(k)

CopyInv ==
  /\ modCount \in Nat /\ sExpected \in 0..modCount
  /\ overlap = "none" /\ modCount = sExpected /\ spc \in {"element", "check"} =>
       Steady \/ \E k \in 0..(oldSize - 1) : Torn(k)

\* The array of a removal no add has overlapped, while the size is the old one
\* and after.
LEMMA LoneRemoval ==
  ASSUME RaceInv, overlap = "none", Removing
  PROVE  \E k \in 0..(lEnd - 1) :
           /\ Removal(k) /\ WellBefore(k) /\ NoAdd /\ oldSize \in Nat /\ k \in 0..(oldSize - 1)
           /\ \A i \in 1..oldSize : before[i] \in Tx
           /\ Unwritten =>
                /\ size = oldSize
                /\ \A i \in 0..(oldSize - 1) :
                     \/ elementData[i] = before[i + 1]
                     \/ i >= k /\ i < oldSize - 1 /\ elementData[i] = before[i + 2]
           /\ ~Unwritten => size = oldSize - 1 /\ lTo = oldSize /\ Shifted(k)
           /\ lpc = "writeSize" => lTo = oldSize /\ lWrite = lEnd - 1 /\ Shifted(k)
<1>1. NoAdd /\ Followed
  BY DEF RaceInv, Followed, NoAdd, Several
<1>2. PICK k \in 0..(lEnd - 1) : Removal(k)
  BY <1>1 DEF RaceInv
<1>3. WellBefore(k) /\ oldSize \in Nat /\ k \in 0..(oldSize - 1) /\ lEnd \in 1..oldSize
  BY <1>2 DEF Removal, WellBefore
<1>4. \A i \in 1..oldSize : before[i] \in Tx
  BY <1>3, ListAssumption DEF RaceInv, Types, WellBefore, Tx
<1>5. ~Moved /\ ~AddDone /\ \A p : ~AddOn(p)
  BY <1>1 DEF NoAdd, Moved, AddDone, AddOn
<1>6. Unwritten => Behind
  BY <1>2, <1>5 DEF Unwritten, Removal, Compacting, Stayed, SizeRead
<1>7. Unwritten => size = oldSize
  BY <1>5, <1>6 DEF Behind
<1>8. ASSUME Unwritten, NEW i \in 0..(oldSize - 1)
      PROVE  \/ elementData[i] = before[i + 1]
             \/ i >= k /\ i < oldSize - 1 /\ elementData[i] = before[i + 2]
  <2>1. CASE lpc \in {"compact", "shift"}
    <3>1. Compacting(k)
      BY <1>2, <2>1 DEF Removal
    <3>2. lWrite <= lEnd - 1
      BY <1>3, <3>1 DEF Compacting
    <3>3. elementData[i] = IF i < k \/ i >= lWrite THEN before[i + 1] ELSE before[i + 2]
      BY <1>8, <3>1 DEF Compacting
    <3>4. i < lWrite => i < oldSize - 1
      BY <1>3, <1>8, <3>1, <3>2 DEF Compacting
    <3> QED
      BY <1>3, <1>8, <3>1, <3>3, <3>4 DEF Compacting
  <2>2. CASE lpc = "readSize"
    <3>1. Stayed /\ Shifted(k)
      BY <1>2, <1>5, <2>2 DEF Removal
    <3> QED
      BY <1>3, <1>8, <3>1 DEF Stayed, Shifted, Left
  <2>3. CASE lpc = "writeSize"
    <3>1. SizeRead /\ Shifted(k) /\ Stayed
      BY <1>2, <1>5, <2>3 DEF Removal, SizeRead
    <3> QED
      BY <1>3, <1>8, <3>1 DEF Stayed, Shifted, Left
  <2> QED
    BY <1>8, <2>1, <2>2, <2>3 DEF Unwritten
<1>9. ~Unwritten => size = oldSize - 1 /\ lTo = oldSize /\ Shifted(k)
  BY <1>2, <1>5 DEF Unwritten, Removal, SizeWritten
<1>10. lpc = "writeSize" => lTo = oldSize /\ lWrite = lEnd - 1 /\ Shifted(k)
  BY <1>2, <1>5 DEF Removal, SizeRead
<1> QED
  BY <1>1, <1>2, <1>3, <1>4, <1>7, <1>8, <1>9, <1>10

\* The transaction in hand has one place in the list.
LEMMA SamePlace ==
  ASSUME NEW k \in 0..(oldSize - 1), NEW k2 \in 0..(lEnd - 1), WellBefore(k2), oldSize \in Nat,
         before[k + 1] = InHand
  PROVE  k = k2
<1>1. k + 1 \in 1..oldSize /\ k2 + 1 \in 1..oldSize /\ before[k2 + 1] = before[k + 1]
  BY DEF WellBefore
<1>2. k + 1 = k2 + 1
  BY <1>1 DEF WellBefore
<1> QED
  BY <1>2

\* A step that leaves the places in use as they are keeps the invariant.
LEMMA CopyStays ==
  ASSUME CopyInv,
         UNCHANGED <<size, modCount, cpc, schedulerVars, before, overlap>>,
         ~Unwritten, ~Unwritten',
         overlap = "none" => \A i \in 0..(size - 1) : elementData'[i] = elementData[i]
  PROVE  CopyInv'
<1> SUFFICES ASSUME overlap = "none", modCount = sExpected, spc \in {"element", "check"}
             PROVE  (Steady \/ \E k \in 0..(oldSize - 1) : Torn(k))'
  BY DEF CopyInv
<1>1. oldSize' = oldSize
  BY DEF oldSize
<1>2. CASE Steady
  <2>1. \A j \in 1..Len(sCopy) : j - 1 \in 0..(size - 1)
    BY <1>2 DEF Steady
  <2>2. Steady'
    BY <1>2, <2>1 DEF Steady
  <2> QED
    BY <2>2
<1>3. ASSUME NEW k \in 0..(oldSize - 1), Torn(k) PROVE Torn(k)'
  <2>1. \A i \in 0..(oldSize - 2) : elementData'[i] = elementData[i]
    BY <1>3 DEF Torn
  <2>2. Shifted(k)'
    BY <1>1, <1>3, <2>1 DEF Torn, Shifted, Left
  <2> QED
    BY <1>1, <1>3, <2>2 DEF Torn
<1> QED
  BY <1>1, <1>2, <1>3 DEF CopyInv

\* A step while the size is the old one keeps the invariant, whatever it moves.
LEMMA CopyMoves ==
  ASSUME CopyInv,
         UNCHANGED <<modCount, schedulerVars, before, overlap, message, place>>,
         Unwritten, Unwritten'
  PROVE  CopyInv'
<1>1. oldSize' = oldSize /\ InHand' = InHand /\ ~Steady
  BY DEF oldSize, InHand, Steady
<1>2. ASSUME NEW k \in 0..(oldSize - 1), Torn(k) PROVE Torn(k)'
  BY <1>1, <1>2 DEF Torn
<1> QED
  BY <1>1, <1>2 DEF CopyInv

\* A step that raises modCount is one the scheduler will see.
LEMMA CopyCounted ==
  ASSUME CopyInv, modCount' = modCount + 1, UNCHANGED sExpected
  PROVE  CopyInv'
BY DEF CopyInv

\* The size is lowered: what is left is what the removal leaves.
LEMMA CopyWriteSize ==
  ASSUME RaceInv, CopyInv, RemoveWriteSize
  PROVE  CopyInv'
<1> USE DEF RemoveWriteSize
<1> SUFFICES ASSUME overlap = "none", modCount = sExpected, spc \in {"element", "check"}
             PROVE  \E k \in 0..(oldSize - 1) : Torn(k)'
  BY DEF CopyInv, oldSize
<1>1. PICK k \in 0..(oldSize - 1) : Torn(k)
  BY DEF CopyInv, Steady, Unwritten
<1>2. PICK k2 \in 0..(lEnd - 1) :
        /\ WellBefore(k2) /\ NoAdd /\ oldSize \in Nat
        /\ lTo = oldSize /\ lWrite = lEnd - 1 /\ Shifted(k2)
  BY LoneRemoval
<1>3. k = k2
  BY <1>1, <1>2, SamePlace DEF Torn, Unwritten
<1>4. size' = oldSize - 1
  BY <1>2 DEF WellBefore
<1>5. oldSize' = oldSize /\ ~Unwritten' /\ ~Adding'
  BY <1>2 DEF oldSize, Unwritten, NoAdd
<1>6. Shifted(k)'
  BY <1>2, <1>3, <1>5 DEF Shifted, Left
<1>7. Torn(k)'
  BY <1>1, <1>4, <1>5, <1>6 DEF Torn
<1> QED
  BY <1>7

\* What the listener thread does keeps the invariant.
LEMMA CopyListener ==
  ASSUME RaceInv, CopyInv, ListenerThread
  PROVE  CopyInv'
<1>1. CASE Receive \/ RemoveScan \/ Execute \/ Notify
  BY <1>1, CopyStays DEF Receive, RemoveScan, Execute, Notify, Unwritten
<1>2. CASE RemoveBegin
  <2>1. CASE overlap = "none"
    BY <1>2, <2>1, CopyStays DEF RemoveBegin, Unwritten
  <2>2. CASE overlap # "none"
    BY <1>2, <2>2 DEF RemoveBegin, CopyInv
  <2> QED
    BY <2>1, <2>2
<1>3. CASE RemoveCheck
  <2>1. CASE modCount # lExpected \/ lRead = lEnd
    BY <1>3, <2>1, CopyStays DEF RemoveCheck, Unwritten
  <2>2. CASE modCount = lExpected /\ lRead # lEnd
    BY <1>3, <2>2, CopyCounted DEF RemoveCheck
  <2> QED
    BY <2>1, <2>2
<1>4. CASE RemoveCompact \/ RemoveShift \/ RemoveReadSize
  BY <1>4, CopyMoves DEF RemoveCompact, RemoveShift, RemoveReadSize, Unwritten
<1>5. CASE RemoveWriteSize
  BY <1>5, CopyWriteSize
<1>6. CASE RemoveClear
  <2>1. ASSUME overlap = "none", NEW i \in 0..(size - 1) PROVE elementData'[i] = elementData[i]
    <3>1. PICK k \in 0..(lEnd - 1) :
            WellBefore(k) /\ oldSize \in Nat /\ size = oldSize - 1 /\ lTo = oldSize
            /\ Removal(k)
      BY <1>6, <2>1, LoneRemoval DEF RemoveClear, Unwritten
    <3>2. lWrite = lEnd - 1 /\ lEnd \in Int /\ oldSize <= MaxAdds
      BY <1>6, <3>1, ListAssumption DEF RemoveClear, Removal, WellBefore, RaceInv, Types
    <3>3. i \in Tx /\ ~(i >= lTo - (lEnd - lWrite) /\ i < lTo)
      BY <3>1, <3>2, ListAssumption DEF Tx
    <3> QED
      BY <1>6, <3>3 DEF RemoveClear
  <2> QED
    BY <1>6, <2>1, CopyStays DEF RemoveClear, Unwritten
<1> QED
  BY <1>1, <1>2, <1>3, <1>4, <1>5, <1>6 DEF ListenerThread

\* What the command thread does keeps the invariant: an add stores beyond the
\* places in use.
LEMMA CopyCommand ==
  ASSUME RaceInv, CopyInv, CommandThread
  PROVE  CopyInv'
<1>1. CASE AddBegin
  BY <1>1, CopyCounted DEF AddBegin
<1>2. CASE AddStore \/ AddSize
  <2> SUFFICES ASSUME overlap = "none", modCount = sExpected, spc \in {"element", "check"}
               PROVE  Steady'
    BY <1>2 DEF CopyInv, AddStore, AddSize
  <2>1. Adding
    BY <1>2 DEF AddStore, AddSize
  <2>2. ~Removing
    BY <2>1 DEF RaceInv, NoAdd
  <2>3. Steady
    BY <2>1, <2>2 DEF CopyInv, Torn, Unwritten
  <2>4. cSize = size /\ size \in Nat /\ elementData = [i \in Tx |-> elementData[i]]
    BY <2>1, <2>2 DEF RaceInv, Clean, Steady, Types
  <2>5. \A i \in 0..(size - 1) : elementData'[i] = elementData[i]
    <3>1. size \in 0..(created - 1) /\ created \in 0..MaxAdds
      BY <2>1, <2>2 DEF RaceInv, Clean, Older, Types
    <3>2. \A i \in 0..(size - 1) : i \in Tx /\ i # cSize
      BY <2>4, <3>1, ListAssumption DEF Tx
    <3> QED
      BY <1>2, <2>4, <3>2 DEF AddStore, AddSize
  <2>6. \A j \in 1..Len(sCopy) : j - 1 \in 0..(size - 1)
    BY <2>3 DEF Steady
  <2>7. CASE AddStore
    BY <2>3, <2>5, <2>6, <2>7 DEF AddStore, Steady, Unwritten
  <2>8. CASE AddSize
    <3>1. sLen = size /\ size' = size + 1 /\ ~Adding' /\ UNCHANGED <<lpc, elementData, spc, sLen, sCopy>>
      BY <2>1, <2>3, <2>4, <2>8 DEF AddSize, Steady
    <3>2. size' \in Nat /\ sLen' = size' - 1 /\ Len(sCopy) \in Nat /\ Len(sCopy) <= size'
      BY <2>3, <2>4, <3>1 DEF Steady
    <3> QED
      BY <2>3, <3>1, <3>2 DEF Steady, Unwritten
  <2> QED
    BY <1>2, <2>7, <2>8
<1> QED
  BY <1>1, <1>2 DEF CommandThread

\* What the scheduler thread does keeps the invariant.
LEMMA CopyScheduler ==
  ASSUME RaceInv, CopyInv, SchedulerThread
  PROVE  CopyInv'
<1>1. CASE SendBegin \/ SendMessage \/ SendThrows
  BY <1>1 DEF CopyInv, SendBegin, SendMessage, SendThrows
<1>2. CASE SendSize
  <2> USE <1>2 DEF SendSize
  <2>1. UNCHANGED <<oldSize, Removing, Unwritten>>
    BY DEF oldSize, Unwritten
  <2> SUFFICES ASSUME overlap = "none"
               PROVE  (Steady \/ \E k \in 0..(oldSize - 1) : Torn(k))'
    BY DEF CopyInv
  <2>2. CASE Unwritten
    <3>1. PICK k \in 0..(lEnd - 1) :
            /\ WellBefore(k) /\ oldSize \in Nat /\ k \in 0..(oldSize - 1)
            /\ size = oldSize /\ \A i \in 1..oldSize : before[i] \in Tx
      BY <2>2, LoneRemoval DEF Unwritten
    <3>2. Torn(k)'
      BY <2>1, <2>2, <3>1 DEF Torn, WellBefore, InHand
    <3> QED
      BY <2>1, <3>1, <3>2
  <2>3. CASE ~Unwritten
    <3>1. size \in Nat
      <4>1. CASE Removing
        <5>1. PICK k \in 0..(lEnd - 1) : oldSize \in Nat /\ k \in 0..(oldSize - 1) /\ size = oldSize - 1
          BY <2>3, <4>1, LoneRemoval
        <5> QED
          BY <5>1
      <4>2. CASE ~Removing
        BY <4>2 DEF RaceInv, Clean
      <4> QED
        BY <4>1, <4>2
    <3>2. Steady'
      BY <2>1, <2>3, <3>1 DEF Steady
    <3> QED
      BY <3>2
  <2> QED
    BY <2>2, <2>3
<1>3. CASE SendElement
  <2> USE <1>3 DEF SendElement
  <2>1. oldSize' = oldSize /\ Unwritten' = Unwritten /\ InHand' = InHand
    BY DEF oldSize, Unwritten, InHand
  <2> SUFFICES ASSUME overlap = "none", modCount = sExpected
               PROVE  (Steady \/ \E k \in 0..(oldSize - 1) : Torn(k))'
    BY DEF CopyInv
  <2>2. CASE Steady
    <3>1. CASE Len(sCopy) < size
      <4>1. elementData[Len(sCopy)] \in Tx
        <5>1. CASE Removing
          <6>1. PICK k \in 0..(lEnd - 1) :
                  /\ oldSize \in Nat /\ size = oldSize - 1 /\ Shifted(k) /\ k \in 0..(oldSize - 1)
                  /\ \A i \in 1..oldSize : before[i] \in Tx
            BY <2>2, <5>1, LoneRemoval DEF Steady
          <6>2. Len(sCopy) \in 0..(oldSize - 2)
            BY <2>2, <3>1, <6>1 DEF Steady
          <6> QED
            BY <6>1, <6>2 DEF Shifted, Left
        <5>2. CASE ~Removing
          <6>1. Clean /\ Older \in 0..MaxAdds
            BY <5>2, ListAssumption DEF RaceInv, Types, Older
          <6> QED
            BY <2>2, <3>1, <6>1, ListAssumption DEF Steady, Clean, Tx
        <5> QED
          BY <5>1, <5>2
      <4>2. /\ sCopy' \in Seq(Tx) /\ Len(sCopy') = Len(sCopy) + 1
            /\ \A j \in 1..Len(sCopy) : sCopy'[j] = sCopy[j]
            /\ sCopy'[Len(sCopy) + 1] = elementData[Len(sCopy)]
            /\ spc' = "element"
        <5>1. sCopy' = Append(sCopy, elementData[Len(sCopy)]) /\ sCopy \in Seq(Tx)
          BY <2>2, <3>1 DEF Steady
        <5>2. spc' = "element"
          BY <3>1
        <5> QED
          BY <4>1, <5>1, <5>2
      <4>3. \A j \in 1..Len(sCopy') : sCopy'[j] = elementData[j - 1]
        BY <2>2, <4>2 DEF Steady
      <4>4. Steady'
        BY <2>1, <2>2, <3>1, <4>2, <4>3 DEF Steady
      <4> QED
        BY <4>4
    <3>2. CASE ~(Len(sCopy) < size)
      BY <2>1, <2>2, <3>2 DEF Steady
    <3> QED
      BY <3>1, <3>2
  <2>3. ASSUME NEW k \in 0..(oldSize - 1), Torn(k) PROVE Torn(k)'
    <3>1. Shifted(k)' = Shifted(k)
      BY <2>1 DEF Shifted, Left
    <3>2. CASE Len(sCopy) < size
      <4>1. Unwritten => size = oldSize
        BY LoneRemoval DEF Unwritten
      <4>2. Len(sCopy) \in 0..(oldSize - 1) /\ (~Unwritten => Len(sCopy) \in 0..(oldSize - 2))
        BY <2>3, <3>2, <4>1 DEF Torn
      <4>3. \/ elementData[Len(sCopy)] = before[Len(sCopy) + 1]
            \/ /\ Len(sCopy) >= k /\ Len(sCopy) < oldSize - 1
               /\ elementData[Len(sCopy)] = before[Len(sCopy) + 2]
        <5>1. CASE Unwritten
          <6>1. PICK k2 \in 0..(lEnd - 1) :
                  /\ WellBefore(k2) /\ oldSize \in Nat
                  /\ \A i \in 0..(oldSize - 1) :
                       \/ elementData[i] = before[i + 1]
                       \/ i >= k2 /\ i < oldSize - 1 /\ elementData[i] = before[i + 2]
            BY <5>1, LoneRemoval DEF Unwritten
          <6>2. k = k2
            BY <2>3, <5>1, <6>1, SamePlace DEF Torn
          <6> QED
            BY <4>2, <6>1, <6>2
        <5>2. CASE ~Unwritten
          BY <2>3, <4>2, <5>2 DEF Torn, Shifted, Left
        <5> QED
          BY <5>1, <5>2
      <4>4. elementData[Len(sCopy)] \in Tx
        BY <2>3, <4>2, <4>3 DEF Torn
      <4>5. /\ sCopy' \in Seq(Tx) /\ Len(sCopy') = Len(sCopy) + 1
            /\ \A j \in 1..Len(sCopy) : sCopy'[j] = sCopy[j]
            /\ sCopy'[Len(sCopy) + 1] = elementData[Len(sCopy)]
            /\ sLen' = sLen
        BY <2>3, <3>2, <4>4 DEF Torn
      <4>6. ASSUME NEW j \in 1..Len(sCopy')
            PROVE  sCopy'[j] = before[j] \/ (j > k /\ j < oldSize /\ sCopy'[j] = before[j + 1])
        <5>1. CASE j \in 1..Len(sCopy)
          BY <2>3, <4>5, <5>1 DEF Torn
        <5>2. CASE j = Len(sCopy) + 1
          <6>1. j + 1 = Len(sCopy) + 2 /\ j >= 1 /\ Len(sCopy) = j - 1
            BY <4>2, <5>2
          <6> QED
            BY <2>3, <4>2, <4>3, <4>5, <5>2, <6>1 DEF Torn
        <5> QED
          BY <2>3, <4>2, <4>5, <5>1, <5>2
      <4>7. Len(sCopy') <= oldSize
        BY <2>3, <4>2, <4>5 DEF Torn
      <4> QED
        BY <2>1, <2>3, <3>1, <4>5, <4>6, <4>7 DEF Torn
    <3>3. CASE ~(Len(sCopy) < size)
      BY <2>1, <2>3, <3>1, <3>3 DEF Torn
    <3> QED
      BY <3>2, <3>3
  <2> QED
    BY <2>1, <2>2, <2>3 DEF CopyInv
<1> QED
  BY <1>1, <1>2, <1>3 DEF SchedulerThread

\* The invariant of what is copied holds at the start and after every step.
LEMMA CopyInductive ==
  /\ Init => CopyInv
  /\ RaceInv /\ CopyInv /\ [Next]_vars => CopyInv'
<1>1. Init => CopyInv
  BY DEF Init, CopyInv
<1>2. SUFFICES ASSUME RaceInv, CopyInv, [Next]_vars PROVE CopyInv'
  BY <1>1
<1>3. ASSUME UNCHANGED <<arrayVars, commandVars, schedulerVars, listenerVars, historyVars>>
      PROVE  CopyInv'
  <2>1. Unwritten' = Unwritten
    BY <1>3 DEF Unwritten
  <2>2. CASE Unwritten
    <3>1. UNCHANGED <<modCount, schedulerVars, before, overlap, message, place>>
      BY <1>3
    <3> QED
      BY <1>2, <2>1, <2>2, <3>1, CopyMoves
  <2>3. CASE ~Unwritten
    <3>1. UNCHANGED <<size, modCount, cpc, schedulerVars, before, overlap>>
          /\ elementData' = elementData
      BY <1>3
    <3> QED
      BY <1>2, <2>1, <2>3, <3>1, CopyStays
  <2> QED
    BY <2>2, <2>3
<1>4. CASE \E t \in Readers : Reader(t)
  BY <1>3, <1>4 DEF Reader, Start, Enter, Test, PrintBalance
<1>5. CASE UNCHANGED vars
  BY <1>3, <1>5 DEF vars
<1> QED
  BY <1>2, <1>4, <1>5, CopyCommand, CopyScheduler, CopyListener DEF Next

\* The step CopyOutcomes speaks of.
CopyStep ==
  SendMessage /\ overlap = "none" =>
    \/ Readable \in {List, Front(List), <<Null>>}
    \/ TornFrom(before, Readable)

\* From the two invariants: what a tick sends (210, 213).
LEMMA CopyFromInv == RaceInv /\ CopyInv => CopyStep
<1> SUFFICES ASSUME RaceInv, CopyInv, SendMessage, overlap = "none",
                    ~(Len(sCopy) < sLen)
             PROVE  Readable \in {List, Front(List)} \/ TornFrom(before, Readable)
  BY DEF CopyStep, Readable
<1>1. Steady \/ \E k \in 0..(oldSize - 1) : Torn(k)
  BY DEF SendMessage, CopyInv
<1>2. CASE Steady
  <2>1. /\ sCopy \in Seq(Tx) /\ size \in Nat /\ Len(sCopy) \in 0..size /\ sLen \in 0..Len(sCopy)
        /\ sLen = size \/ sLen = size - 1
        /\ \A j \in 1..Len(sCopy) : sCopy[j] = elementData[j - 1]
    BY <1>2 DEF Steady
  <2>2. Readable = [j \in 1..sLen |-> elementData[j - 1]]
    <3>1. Readable = SubSeq(sCopy, 1, sLen)
      BY <2>1 DEF Readable
    <3>2. /\ SubSeq(sCopy, 1, sLen) \in Seq(Tx) /\ Len(SubSeq(sCopy, 1, sLen)) = sLen
          /\ \A j \in 1..sLen : SubSeq(sCopy, 1, sLen)[j] = sCopy[j]
      BY <2>1
    <3>3. \A j \in 1..sLen : SubSeq(sCopy, 1, sLen)[j] = elementData[j - 1]
      BY <2>1, <3>2
    <3> QED
      BY <2>1, <3>1, <3>2, <3>3
  <2>3. CASE sLen = size
    BY <2>2, <2>3 DEF List
  <2>4. CASE sLen = size - 1
    <3>1. List \in Seq({elementData[j - 1] : j \in 1..size}) /\ Len(List) = size
      <4> DEFINE S == {elementData[j - 1] : j \in 1..size}
      <4>1. List \in [1..size -> S]
        BY DEF List
      <4> HIDE DEF S
      <4>2. List \in Seq(S) /\ Len(List) = size
        BY <2>1, <4>1
      <4> QED
        BY <4>2 DEF S
    <3>2. Front(List) = SubSeq(List, 1, sLen)
      BY <2>4, <3>1 DEF Front
    <3>3. SubSeq(List, 1, sLen) = [j \in 1..sLen |-> List[j]]
      BY <2>1, <2>4, <3>1
    <3>4. \A j \in 1..sLen : List[j] = elementData[j - 1]
      BY <2>1, <2>4 DEF List
    <3> QED
      BY <2>2, <3>2, <3>3, <3>4
  <2> QED
    BY <2>1, <2>3, <2>4
<1>3. ASSUME NEW k \in 0..(oldSize - 1), Torn(k) PROVE TornFrom(before, Readable)
  <2>1. /\ oldSize \in Nat /\ DOMAIN before = 1..oldSize /\ sLen = oldSize
        /\ sCopy \in Seq(Tx) /\ Len(sCopy) = oldSize
    BY <1>3 DEF Torn
  <2>2. Readable = SubSeq(sCopy, 1, Len(sCopy))
    BY <2>1 DEF Readable
  <2>3. SubSeq(sCopy, 1, Len(sCopy)) = sCopy
    BY <2>1
  <2>4. k + 1 \in DOMAIN before
    BY <2>1
  <2>5. \A j \in 1..oldSize :
          sCopy[j] = before[j] \/ (j >= k + 1 /\ j < oldSize /\ sCopy[j] = before[j + 1])
    BY <1>3, <2>1 DEF Torn
  <2>6. \A j \in DOMAIN before :
          \/ sCopy[j] = before[j]
          \/ j >= k + 1 /\ sCopy[j] = IF j < Len(before) THEN before[j + 1] ELSE Null
    BY <2>1, <2>5 DEF oldSize
  <2> QED
    BY <2>1, <2>2, <2>3, <2>4, <2>6 DEF TornFrom, oldSize
<1> QED
  BY <1>1, <1>2, <1>3

\* What a tick sends (210, 213) when no add has overlapped a removeIf (247) is
\* the list, but for one just added, or a message no receiver can read, or a
\* copy torn by one removeIf, for every number of transactions, readers and
\* messages.
THEOREM CopiesAsListed == Spec => CopyOutcomes
<1>1. Init => CopyInv
  BY CopyInductive
<1>2. RaceInv /\ CopyInv /\ [Next]_vars => CopyInv'
  BY CopyInductive
<1>3. RaceInv /\ CopyInv => CopyStep
  BY CopyFromInv
<1>4. Spec => [][CopyStep]_vars
  BY <1>1, <1>2, <1>3, ListInvariant, PTL DEF Spec
<1> QED
  BY <1>4 DEF CopyOutcomes, CopyStep
=============================================================================
