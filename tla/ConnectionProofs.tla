-------------------------- MODULE ConnectionProofs --------------------------
(***************************************************************************)
(* Proofs about one SpreadConnection, for messages of any number of pieces *)
(* and every value of the bounds.                                          *)
(***************************************************************************)
EXTENDS Connection, SequenceTheorems, TLAPS

Piece == [msg : Nat, part : 1..Pieces]

Holder ==
  IF epc = "join" THEN "command"
  ELSE IF lpc \in {"read", "callback", "buffered"} THEN "listener"
  ELSE "none"

ThreadsOK ==
  /\ lpc \in {"lock", "read", "callback", "buffered", "ended"}
  /\ epc \in {"running", "disconnect", "join", "systemExit", "exited"}
  /\ callingListeners \in BOOLEAN /\ connected \in BOOLEAN /\ cut \in BOOLEAN
  /\ epc # "exited" => monitor = Holder
  /\ epc = "exited" => lpc = "ended"
  /\ epc = "join" => lpc \in {"lock", "ended"}

StreamOK ==
  /\ wire \in Seq(Piece) /\ next \in Piece
  /\ got \in Seq(Piece) /\ Len(got) <= Pieces
  /\ expected \in 0..Pieces
  /\ callbacks \in Seq(Nat \cup {Garbled})
  /\ out \in [{"multicast", "kill"} -> Nat]

\* What the listener thread is kept from once the KILL message is written:
\* while disconnect waits for it (1483) it cannot have the monitor, and
\* disconnect goes on only when the thread has ended.
Stopped ==
  out["kill"] > 0 =>
    \/ epc = "join" /\ lpc \in {"lock", "ended"}
    \/ epc \in {"systemExit", "exited"} /\ lpc = "ended"

IInv == ThreadsOK /\ StreamOK /\ Stopped

\* The next piece of the stream the listener thread needs.
Needed ==
  IF lpc = "read" /\ Len(got) < Pieces
  THEN [msg |-> Len(callbacks) + 1, part |-> Len(got) + 1]
  ELSE [msg |-> Len(callbacks) + (IF lpc = "read" THEN 2 ELSE 1), part |-> 1]

\* The stream is in step: what has arrived begins with the piece needed and
\* goes on to the piece the daemon writes next.
WireInStep ==
  /\ wire = <<>> => next = Needed
  /\ wire # <<>> => Head(wire) = Needed /\ next = After(wire[Len(wire)])
  /\ \A i \in 1..(Len(wire) - 1) : wire[i + 1] = After(wire[i])

\* What is read is the beginning of the message after the last handed over.
GotInStep ==
  lpc = "read" =>
    /\ \A i \in 1..Len(got) : got[i] = [msg |-> Len(callbacks) + 1, part |-> i]
    /\ expected = IF Len(got) < HeaderPieces THEN HeaderPieces ELSE Pieces

InStep ==
  ~cut => /\ HandedOverInOrder
          /\ lpc # "ended" => WireInStep /\ GotInStep

-----------------------------------------------------------------------------
(* Types, the monitor, and the silence after the KILL message. *)

LEMMA PiecesType == Pieces \in Nat /\ Pieces > 0 /\ HeaderPieces \in 1..Pieces
  BY ConnectionAssumption DEF Pieces

LEMMA AfterType ==
  ASSUME NEW piece \in Piece PROVE After(piece) \in Piece
  BY PiecesType DEF Piece, After

LEMMA AnnouncedType ==
  ASSUME NEW header PROVE Announced(header) \subseteq HeaderPieces..Pieces
  BY PiecesType DEF Announced

LEMMA IInvInit == Init => IInv
<1> SUFFICES ASSUME Init PROVE IInv
  OBVIOUS
<1>1. ThreadsOK
  BY DEF Init, ThreadsOK, Holder
<1>2. StreamOK
  <2>1. next \in Piece
    BY PiecesType DEF Init, Piece
  <2>2. wire = <<>> /\ got = <<>> /\ callbacks = <<>> /\ expected = 0
    BY DEF Init
  <2>3. out \in [{"multicast", "kill"} -> Nat]
    BY DEF Init
  <2> QED
    BY <2>1, <2>2, <2>3, PiecesType, EmptySeq DEF StreamOK
<1>3. Stopped
  BY DEF Init, Stopped
<1> QED
  BY <1>1, <1>2, <1>3 DEF IInv

USE DEF listenerVars, streamVars

LEMMA StreamNext ==
  ASSUME IInv, [Next]_vars PROVE StreamOK'
<1> USE PiecesType
<1>1. CASE DaemonWrites
  <2>1. next \in Piece /\ After(next) \in Piece
    BY AfterType DEF IInv, StreamOK
  <2>2. wire' \in Seq(Piece)
    BY <1>1, <2>1, AppendProperties DEF DaemonWrites, IInv, StreamOK
  <2> QED
    BY <1>1, <2>1, <2>2 DEF DaemonWrites, IInv, StreamOK
<1>2. CASE Turn
  <2>1. HeaderPieces \in 0..Pieces
    OBVIOUS
  <2> QED
    BY <1>2, <2>1 DEF Turn, IInv, StreamOK
<1>3. CASE ReadPiece
  <2>1. Head(wire) \in Piece /\ Tail(wire) \in Seq(Piece)
    BY <1>3, HeadTailProperties DEF ReadPiece, IInv, StreamOK
  <2>2. got' \in Seq(Piece) /\ Len(got') = Len(got) + 1
    BY <1>3, <2>1, AppendProperties DEF ReadPiece, IInv, StreamOK
  <2>3. Len(got') <= Pieces
    BY <1>3, <2>2 DEF ReadPiece, IInv, StreamOK
  <2>4. expected' \in 0..Pieces
    BY <1>3, AnnouncedType DEF ReadPiece, IInv, StreamOK
  <2> QED
    BY <1>3, <2>1, <2>2, <2>3, <2>4 DEF ReadPiece, IInv, StreamOK
<1>4. CASE CallListeners
  <2>1. Message \in Nat \cup {Garbled}
    <3>1. CASE Len(got) = Pieces
      <4>1. got[1] \in Piece
        BY <3>1, ElementOfSeq DEF IInv, StreamOK
      <4> QED
        BY <4>1 DEF Message, Piece
    <3>2. CASE Len(got) # Pieces
      BY <3>2 DEF Message
    <3> QED
      BY <3>1, <3>2
  <2>2. callbacks' \in Seq(Nat \cup {Garbled})
    BY <1>4, <2>1, AppendProperties DEF CallListeners, IInv, StreamOK
  <2> QED
    BY <1>4, <2>2 DEF CallListeners, IInv, StreamOK
<1>5. CASE SchedulerMulticasts \/ Disconnect
  BY <1>5 DEF SchedulerMulticasts, Disconnect, Write, WriteFails, IInv, StreamOK
<1>6. CASE DaemonCloses \/ ReceiveFails \/ Timeout \/ CallbackReturns \/ CallbackThrows
           \/ BufferedCommands \/ CallExit \/ Joined \/ SystemExit \/ UNCHANGED vars
  BY <1>6 DEF DaemonCloses, ReceiveFails, Timeout, CallbackReturns, CallbackThrows, Ends,
              BufferedCommands, CallExit, Joined, SystemExit, vars, IInv, StreamOK
<1> QED
  BY <1>1, <1>2, <1>3, <1>4, <1>5, <1>6 DEF Next, ListenerThread, ExitThread

\* Whoever takes the monitor finds it free, and keeps it until it leaves.
LEMMA ThreadsNext ==
  ASSUME IInv, [Next]_vars PROVE ThreadsOK'
<1> USE DEF IInv, ThreadsOK, Holder
<1>1. CASE DaemonWrites \/ DaemonCloses \/ SchedulerMulticasts \/ UNCHANGED vars
  BY <1>1 DEF DaemonWrites, DaemonCloses, SchedulerMulticasts, vars
<1>2. CASE Turn
  BY <1>2 DEF Turn
<1>3. CASE ReadPiece
  BY <1>3 DEF ReadPiece
<1>4. CASE ReceiveFails
  BY <1>4 DEF ReceiveFails, Ends
<1>5. CASE Timeout
  BY <1>5 DEF Timeout
<1>6. CASE CallListeners
  BY <1>6 DEF CallListeners
<1>7. CASE CallbackReturns
  BY <1>7 DEF CallbackReturns
<1>8. CASE CallbackThrows
  BY <1>8 DEF CallbackThrows, Ends
<1>9. CASE BufferedCommands
  BY <1>9 DEF BufferedCommands
<1>10. CASE CallExit
  BY <1>10 DEF CallExit
<1>11. CASE Disconnect
  BY <1>11 DEF Disconnect, MayEnter
<1>12. CASE Joined
  BY <1>12 DEF Joined
<1>13. CASE SystemExit
  BY <1>13 DEF SystemExit
<1> QED
  BY <1>1, <1>2, <1>3, <1>4, <1>5, <1>6, <1>7, <1>8, <1>9, <1>10, <1>11, <1>12, <1>13
  DEF Next, ListenerThread, ExitThread

\* disconnect writes the KILL message with the monitor, and keeps it.
LEMMA StoppedNext ==
  ASSUME IInv, [Next]_vars PROVE Stopped'
<1> USE DEF IInv, Stopped
<1>1. CASE Disconnect
  <2>1. lpc \in {"lock", "ended"}
    BY <1>1 DEF Disconnect, MayEnter, ThreadsOK, Holder
  <2>2. out["kill"] = 0
    BY <1>1 DEF Disconnect, StreamOK
  <2> QED
    BY <1>1, <2>1, <2>2 DEF Disconnect, Write, WriteFails
<1>2. CASE SchedulerMulticasts
  BY <1>2 DEF SchedulerMulticasts, Write, StreamOK
<1>3. CASE Turn
  BY <1>3 DEF Turn, ThreadsOK, Holder
<1>4. CASE Joined \/ SystemExit \/ CallExit
  BY <1>4 DEF Joined, SystemExit, CallExit
<1>5. CASE DaemonWrites \/ DaemonCloses \/ UNCHANGED vars
  BY <1>5 DEF DaemonWrites, DaemonCloses, vars
<1>6. CASE ReadPiece \/ ReceiveFails \/ Timeout \/ CallListeners \/ CallbackReturns
           \/ CallbackThrows \/ BufferedCommands
  BY <1>6 DEF ReadPiece, ReceiveFails, Timeout, CallListeners, CallbackReturns,
              CallbackThrows, BufferedCommands
<1> QED
  BY <1>1, <1>2, <1>3, <1>4, <1>5, <1>6 DEF Next, ListenerThread, ExitThread

LEMMA Invariance == Spec => []IInv
<1>1. IInv /\ [Next]_vars => IInv'
  BY StreamNext, ThreadsNext, StoppedNext DEF IInv
<1> QED
  BY IInvInit, <1>1, PTL DEF Spec

\* Every variable has its type, and the monitor is where the code has it
\* (Listener.run, 1647; disconnect, 924), whatever the threads, the daemon and
\* the callbacks do.
THEOREM TypeCorrect == Spec => []TypeOK
<1>1. IInv => TypeOK
  BY DEF IInv, ThreadsOK, StreamOK, Holder, TypeOK
<1> QED
  BY Invariance, <1>1, PTL

\* Once disconnect (924-983) has written the KILL message, the program is not
\* called back any more and nothing of the stream is read.
THEOREM KillIsLast == Spec => QuietAfterKill
<1>1. IInv /\ [Next]_vars => [out["kill"] > 0 => UNCHANGED <<callbacks, got>>]_vars
  <2> SUFFICES ASSUME IInv, [Next]_vars, out["kill"] > 0
               PROVE  UNCHANGED <<callbacks, got>>
    OBVIOUS
  <2>1. CASE Turn
    BY <2>1 DEF Turn, IInv, Stopped, ThreadsOK, Holder
  <2>2. CASE ReadPiece \/ ReceiveFails \/ Timeout \/ CallListeners \/ CallbackReturns
             \/ CallbackThrows \/ BufferedCommands
    BY <2>2 DEF ReadPiece, ReceiveFails, Timeout, CallListeners, CallbackReturns,
                CallbackThrows, BufferedCommands, IInv, Stopped
  <2>3. CASE DaemonWrites \/ DaemonCloses \/ SchedulerMulticasts \/ UNCHANGED vars
    BY <2>3 DEF DaemonWrites, DaemonCloses, SchedulerMulticasts, vars
  <2>4. CASE CallExit \/ Disconnect \/ Joined \/ SystemExit
    BY <2>4 DEF CallExit, Disconnect, Joined, SystemExit
  <2> QED
    BY <2>1, <2>2, <2>3, <2>4 DEF Next, ListenerThread, ExitThread
<1> QED
  BY Invariance, <1>1, PTL DEF Spec, QuietAfterKill

-----------------------------------------------------------------------------
(* The stream: without a timeout in a message nothing is lost or displaced. *)

LEMMA InStepInit == Init => InStep
  BY PiecesType
  DEF Init, InStep, HandedOverInOrder, WireInStep, GotInStep, Needed

\* The daemon goes on where it stopped.
LEMMA InStepWrites ==
  ASSUME IInv, InStep, DaemonWrites, ~cut, lpc # "ended" PROVE WireInStep'
<1>1. wire \in Seq(Piece) /\ next \in Piece
  BY DEF IInv, StreamOK
<1>2. wire' = Append(wire, next) /\ next' = After(next) /\ Needed' = Needed
  BY DEF DaemonWrites, Needed
<1>3. /\ Len(wire') = Len(wire) + 1 /\ wire' # <<>>
      /\ wire'[Len(wire) + 1] = next
      /\ \A i \in 1..Len(wire) : wire'[i] = wire[i]
  BY <1>1, <1>2, AppendProperties
<1>4. WireInStep
  BY DEF InStep
<1>5. Head(wire') = Needed
  <2>1. CASE wire = <<>>
    BY <1>2, <1>4, <2>1 DEF WireInStep
  <2>2. CASE wire # <<>>
    BY <1>1, <1>2, <1>4, <2>2 DEF WireInStep
  <2> QED
    BY <2>1, <2>2
<1>6. ASSUME NEW i \in 1..(Len(wire') - 1) PROVE wire'[i + 1] = After(wire'[i])
  <2>1. CASE i = Len(wire)
    BY <1>1, <1>3, <1>4, <2>1 DEF WireInStep
  <2>2. CASE i # Len(wire)
    <3>1. i \in 1..(Len(wire) - 1)
      BY <1>1, <1>3, <2>2
    <3> QED
      BY <1>1, <1>3, <1>4, <3>1 DEF WireInStep
  <2> QED
    BY <2>1, <2>2
<1> QED
  BY <1>1, <1>2, <1>3, <1>5, <1>6 DEF WireInStep

\* A piece read is the piece needed, and the next of the stream is needed then.
LEMMA InStepReads ==
  ASSUME IInv, InStep, ReadPiece, ~cut PROVE WireInStep' /\ GotInStep'
<1> USE PiecesType
<1>1. /\ wire \in Seq(Piece) /\ wire # <<>> /\ next \in Piece
      /\ got \in Seq(Piece) /\ Len(got) \in Nat
      /\ callbacks \in Seq(Nat \cup {Garbled}) /\ Len(callbacks) \in Nat
  BY DEF IInv, StreamOK, ReadPiece
<1>2. lpc = "read" /\ Len(got) < expected /\ WireInStep /\ GotInStep
  BY DEF ReadPiece, InStep
<1>3. Len(got) < Pieces
  BY <1>1, <1>2 DEF GotInStep
<1>4. /\ Needed = [msg |-> Len(callbacks) + 1, part |-> Len(got) + 1]
      /\ Head(wire) = Needed
  BY <1>1, <1>2, <1>3 DEF Needed, WireInStep
<1>5. /\ got' = Append(got, Needed) /\ wire' = Tail(wire)
      /\ lpc' = "read" /\ callbacks' = callbacks /\ next' = next
  BY <1>2, <1>4 DEF ReadPiece
<1>6. Needed \in Piece
  BY <1>1, <1>3, <1>4 DEF Piece
<1>7. Len(got') = Len(got) + 1
  BY <1>1, <1>5, <1>6, AppendProperties
<1>8. \A i \in 1..Len(got') : got'[i] = [msg |-> Len(callbacks) + 1, part |-> i]
  BY <1>1, <1>2, <1>4, <1>5, <1>6, <1>7, AppendProperties DEF GotInStep
<1>9. expected' = IF Len(got') < HeaderPieces THEN HeaderPieces ELSE Pieces
  <2>1. CASE Len(got) + 1 = HeaderPieces
    <3>1. DOMAIN got' = 1..Len(got')
      BY <1>1, <1>5, <1>6, AppendProperties
    <3>2. IsHeader(got')
      BY <1>1, <1>7, <1>8, <3>1 DEF IsHeader
    <3>3. expected' \in Announced(got')
      BY <1>4, <1>5, <2>1 DEF ReadPiece
    <3> QED
      BY <1>1, <1>7, <2>1, <3>2, <3>3 DEF Announced
  <2>2. CASE Len(got) + 1 # HeaderPieces
    <3>1. expected' = expected
      BY <2>2 DEF ReadPiece
    <3> QED
      BY <1>1, <1>2, <1>7, <2>2, <3>1 DEF GotInStep
  <2> QED
    BY <2>1, <2>2
<1>10. Needed' = After(Needed)
  BY <1>1, <1>3, <1>4, <1>5, <1>7 DEF Needed, After
<1>11. /\ Len(wire') = Len(wire) - 1
       /\ \A i \in 1..Len(wire') : wire'[i] = wire[i + 1]
  BY <1>1, <1>5, HeadTailProperties
<1>12. WireInStep'
  <2>1. CASE Len(wire) = 1
    <3>1. wire' = <<>> /\ next = After(Needed)
      BY <1>1, <1>2, <1>4, <1>5, <1>11, <2>1 DEF WireInStep
    <3> QED
      BY <1>5, <1>10, <3>1 DEF WireInStep
  <2>2. CASE Len(wire) # 1
    <3>1. Len(wire) \in Nat /\ Len(wire) >= 2
      <4>1. Len(wire) \in Nat \ {0}
        BY <1>1, EmptySeq
      <4> QED
        BY <2>2, <4>1
    <3>2. wire' \in Seq(Piece) /\ Len(wire') \in Nat \ {0} /\ wire' # <<>>
      <4>1. wire' \in Seq(Piece)
        BY <1>1, <1>5, HeadTailProperties
      <4>2. Len(wire') \in Nat \ {0}
        BY <1>11, <3>1
      <4>3. Len(<<>>) = 0
        OBVIOUS
      <4> QED
        BY <4>1, <4>2, <4>3
    <3>3. Head(wire') = After(Needed)
      <4>1. Head(wire') = wire'[1] /\ wire'[1] = wire[1 + 1]
        BY <1>11, <3>2
      <4>2. 1 \in 1..(Len(wire) - 1)
        BY <3>1
      <4>3. wire[1 + 1] = After(wire[1])
        BY <1>2, <4>2 DEF WireInStep
      <4>4. wire[1] = Needed
        BY <1>1, <1>4
      <4> QED
        BY <4>1, <4>3, <4>4
    <3>4. next = After(wire'[Len(wire')])
      BY <1>1, <1>2, <1>11, <3>1, <3>2 DEF WireInStep
    <3>5. \A i \in 1..(Len(wire') - 1) : wire'[i + 1] = After(wire'[i])
      <4> SUFFICES ASSUME NEW i \in 1..(Len(wire') - 1)
                   PROVE  wire'[i + 1] = After(wire'[i])
        OBVIOUS
      <4>1. i \in 1..Len(wire') /\ i + 1 \in 1..Len(wire') /\ i + 1 \in 1..(Len(wire) - 1)
        BY <1>11, <3>1
      <4> QED
        BY <1>2, <1>11, <4>1 DEF WireInStep
    <3> QED
      BY <1>5, <1>10, <3>2, <3>3, <3>4, <3>5 DEF WireInStep
  <2> QED
    BY <2>1, <2>2
<1> QED
  BY <1>5, <1>8, <1>9, <1>12 DEF GotInStep

\* What is handed over is all of the message after the last.
LEMMA InStepCalls ==
  ASSUME IInv, InStep, CallListeners, ~cut
  PROVE  HandedOverInOrder' /\ WireInStep' /\ GotInStep'
<1> USE PiecesType
<1>1. /\ got \in Seq(Piece) /\ Len(got) \in Nat
      /\ callbacks \in Seq(Nat \cup {Garbled}) /\ Len(callbacks) \in Nat
  BY DEF IInv, StreamOK
<1>2. lpc = "read" /\ WireInStep /\ GotInStep /\ HandedOverInOrder
  BY DEF CallListeners, InStep
<1>3. Len(got) = Pieces
  BY <1>1, <1>2 DEF CallListeners, GotInStep
<1>4. \A i \in 1..Len(got) : got[i] = [msg |-> Len(callbacks) + 1, part |-> i]
  BY <1>2 DEF GotInStep
<1>5. Message = Len(callbacks) + 1
  <2>1. got[1] = [msg |-> Len(callbacks) + 1, part |-> 1]
    BY <1>3, <1>4
  <2>2. DOMAIN got = 1..Len(got)
    BY <1>1
  <2>3. IsHeader(got)
    BY <1>4, <2>1, <2>2 DEF IsHeader
  <2> QED
    BY <1>3, <2>1, <2>3 DEF Message
<1>6. callbacks' = Append(callbacks, Len(callbacks) + 1)
  BY <1>5 DEF CallListeners
<1>7. /\ Len(callbacks') = Len(callbacks) + 1
      /\ DOMAIN callbacks' = 1..(Len(callbacks) + 1)
      /\ callbacks'[Len(callbacks) + 1] = Len(callbacks) + 1
      /\ \A i \in 1..Len(callbacks) : callbacks'[i] = callbacks[i]
  BY <1>1, <1>6, AppendProperties
<1>8. HandedOverInOrder'
  BY <1>1, <1>2, <1>7 DEF HandedOverInOrder
<1>9. lpc' = "callback" /\ Needed' = Needed
  BY <1>1, <1>2, <1>3, <1>7 DEF CallListeners, Needed
<1> QED
  BY <1>2, <1>8, <1>9 DEF CallListeners, WireInStep, GotInStep

LEMMA InStepNext ==
  ASSUME IInv, InStep, [Next]_vars PROVE InStep'
<1> SUFFICES ASSUME ~cut' PROVE HandedOverInOrder' /\ (lpc' # "ended" => WireInStep' /\ GotInStep')
  BY DEF InStep
<1>1. ~cut
  BY DEF Next, ListenerThread, ExitThread, DaemonWrites, DaemonCloses, Turn, ReadPiece,
         ReceiveFails, Timeout, CallListeners, CallbackReturns, CallbackThrows,
         BufferedCommands, SchedulerMulticasts, CallExit, Disconnect, Joined, SystemExit,
         vars
<1>2. HandedOverInOrder /\ (lpc # "ended" => WireInStep /\ GotInStep)
  BY <1>1 DEF InStep
<1>3. CASE DaemonWrites
  BY <1>1, <1>2, <1>3, InStepWrites DEF DaemonWrites, HandedOverInOrder, GotInStep
<1>4. CASE Turn
  <2>1. HandedOverInOrder'
    BY <1>2, <1>4 DEF Turn, HandedOverInOrder
  <2>2. CASE lpc' = "read"
    <3>1. got' = <<>> /\ Len(got') = 0 /\ expected' = HeaderPieces
      BY <1>4 DEF Turn
    <3>2. Needed' = Needed
      BY <1>4, <2>2, <3>1, PiecesType DEF Turn, Needed
    <3> QED
      BY <1>2, <1>4, <2>1, <2>2, <3>1, <3>2, PiecesType DEF Turn, WireInStep, GotInStep
  <2> QED
    BY <1>4, <2>1, <2>2 DEF Turn
<1>5. CASE ReadPiece
  BY <1>1, <1>2, <1>5, InStepReads DEF ReadPiece, HandedOverInOrder
<1>6. CASE Timeout
  <2>1. got = <<>> /\ Len(got) = 0
    BY <1>6 DEF Timeout
  <2>2. Needed' = Needed
    BY <1>6, <2>1, PiecesType DEF Timeout, Needed
  <2> QED
    BY <1>2, <1>6, <2>2 DEF Timeout, HandedOverInOrder, WireInStep, GotInStep
<1>7. CASE CallListeners
  BY <1>1, <1>7, InStepCalls
<1>8. CASE ReceiveFails \/ CallbackThrows \/ SystemExit
  BY <1>2, <1>8 DEF ReceiveFails, CallbackThrows, Ends, SystemExit, HandedOverInOrder
<1>9. CASE CallbackReturns \/ BufferedCommands
  <2>1. Needed' = Needed
    BY <1>9 DEF CallbackReturns, BufferedCommands, Needed
  <2> QED
    BY <1>2, <1>9, <2>1
    DEF CallbackReturns, BufferedCommands, HandedOverInOrder, WireInStep, GotInStep
<1>10. CASE DaemonCloses \/ SchedulerMulticasts \/ CallExit \/ Disconnect \/ Joined
            \/ UNCHANGED vars
  <2>1. UNCHANGED <<listenerVars, streamVars>>
    BY <1>10 DEF DaemonCloses, SchedulerMulticasts, CallExit, Disconnect, Joined, vars
  <2> QED
    BY <1>2, <2>1 DEF HandedOverInOrder, WireInStep, GotInStep, Needed
<1> QED
  BY <1>3, <1>4, <1>5, <1>6, <1>7, <1>8, <1>9, <1>10 DEF Next, ListenerThread, ExitThread

\* As long as no timeout (1721) has fallen inside a message, whatever pieces
\* messages come in, they are handed over whole, in order and without gaps
\* (internal_receive, 1032-1283).
THEOREM InOrder == Spec => []HandedOverInOrder
<1>1. IInv /\ InStep /\ [Next]_vars => InStep'
  BY InStepNext
<1>2. InStep => HandedOverInOrder
  BY DEF InStep, HandedOverInOrder
<1> QED
  BY InStepInit, Invariance, <1>1, <1>2, PTL DEF Spec
=============================================================================
