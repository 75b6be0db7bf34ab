----------------------------- MODULE Connection -----------------------------
(***************************************************************************)
(* One SpreadConnection as the account client uses it: connected, with one *)
(* listener added before, so that its listener thread runs; callbacks into *)
(* Client; multicasts by the scheduler thread; and exit, on the command    *)
(* thread, which disconnects.                                              *)
(*                                                                         *)
(* The listener thread and disconnect synchronize on the connection.  The  *)
(* listener holds that monitor while it reads a message, at most 100 ms    *)
(* from one piece of it to the next, and while it calls back.              *)
(*                                                                         *)
(* The daemon writes messages 1, 2, ... into the session's TCP stream; they *)
(* arrive in pieces, the header in HeaderPieces, the rest in BodyPieces.   *)
(***************************************************************************)
EXTENDS Integers, Sequences

CONSTANTS
  HeaderPieces, BodyPieces,
  Garbled,           \* a message read from the wrong place of the stream
  MaxMessages,       \* bound: messages the daemon sends
  MaxMulticasts      \* bound: multicasts of the scheduler

ASSUME ConnectionAssumption ==
  /\ HeaderPieces \in Nat \ {0} /\ BodyPieces \in Nat
  /\ MaxMessages \in Nat /\ MaxMulticasts \in Nat
  /\ Garbled \notin Nat

Pieces == HeaderPieces + BodyPieces

VARIABLES
  monitor,           \* who holds the connection: "listener", "command", "none"
  \* the listener thread: where it is, the pieces read of the message in hand,
  \* and how many it takes from the header for the rest
  lpc, got, expected,
  signal,            \* Listener.signal
  callingListeners, listenerBuffer, connected,
  epc,               \* where the command thread is in exit
  socket,            \* "open", or "closed" by either end
  wire, next,        \* pieces that arrived and are not read; the next to come
  out,               \* how many messages of each kind the client wrote
  callbacks,         \* history: the messages handed to the callbacks
  cut                \* history: a timeout has dropped pieces of a message

listenerVars == <<lpc, got, expected, callbacks, cut>>
streamVars == <<wire, next>>
vars == <<monitor, listenerVars, signal, callingListeners, listenerBuffer, connected,
          epc, socket, streamVars, out>>

Init ==
  /\ monitor = "none"
  /\ lpc = "lock" /\ got = <<>> /\ expected = 0
  /\ signal = FALSE
  /\ callingListeners = FALSE /\ listenerBuffer = <<>> /\ connected = TRUE
  /\ epc = "running"
  /\ socket = "open" /\ wire = <<>> /\ next = [msg |-> 1, part |-> 1]
  /\ out = [kind \in {"multicast", "kill"} |-> 0]
  /\ callbacks = <<>> /\ cut = FALSE

-----------------------------------------------------------------------------
(* The daemon's end. *)

After(piece) ==
  IF piece.part < Pieces THEN [piece EXCEPT !.part = @ + 1]
                         ELSE [msg |-> piece.msg + 1, part |-> 1]

\* Sess_write and, when the socket would block, Sess_badger: the next piece.
DaemonWrites ==
  /\ socket = "open" /\ next.msg <= MaxMessages
  /\ wire' = Append(wire, next)
  /\ next' = After(next)
  /\ UNCHANGED <<monitor, listenerVars, signal, callingListeners, listenerBuffer,
                 connected, epc, socket, out>>

\* Sess_kill: after the client's KILL_MESS, or because the session is too slow.
DaemonCloses ==
  /\ socket = "open"
  /\ socket' = "closed"
  /\ UNCHANGED <<monitor, listenerVars, signal, callingListeners, listenerBuffer,
                 connected, epc, streamVars, out>>

-----------------------------------------------------------------------------
(* The listener thread: Listener.run and internal_receive. *)

\* The listener's turn of the loop begins: it is told to stop, or it reads.
Turn ==
  /\ lpc = "lock" /\ monitor = "none"
  /\ IF signal THEN lpc' = "ended" /\ UNCHANGED monitor
               ELSE lpc' = "read" /\ monitor' = "listener"
  /\ got' = <<>> /\ expected' = HeaderPieces
  /\ UNCHANGED <<signal, callingListeners, listenerBuffer, connected, epc, socket,
                 streamVars, out, callbacks, cut>>

\* The header of one message, and not pieces of several.
IsHeader(pieces) ==
  \A i \in DOMAIN pieces : pieces[i] = [msg |-> pieces[1].msg, part |-> i]

\* How much of the message there is in all, once its header is read: bytes
\* that are no header say anything.
MutantAnnounced(header) == {Pieces - 1}
Announced(header) == IF IsHeader(header) THEN {Pieces} ELSE HeaderPieces..Pieces

ReadPiece ==
  /\ lpc = "read" /\ wire # <<>> /\ Len(got) < expected
  /\ got' = Append(got, Head(wire)) /\ wire' = Tail(wire)
  /\ expected' \in IF Len(got) + 1 = HeaderPieces
                   THEN Announced(Append(got, Head(wire))) ELSE {expected}
  /\ UNCHANGED <<monitor, lpc, signal, callingListeners, listenerBuffer, connected, epc,
                 socket, next, out, callbacks, cut>>

\* The thread leaves run by an exception, and the monitor with it.
MutantEnds ==
  /\ lpc' = "ended" /\ UNCHANGED monitor
  /\ UNCHANGED <<got, expected>>
Ends ==
  /\ lpc' = "ended" /\ monitor' = "none"
  /\ UNCHANGED <<got, expected>>

\* SpreadException: the stream has ended, or bytes that are no header make an
\* illegal one ("Illegal Message").
ReceiveFails ==
  /\ lpc = "read"
  /\ \/ wire = <<>> /\ socket = "closed"
     \/ Len(got) = HeaderPieces /\ ~IsHeader(got)
  /\ Ends
  /\ UNCHANGED <<signal, callingListeners, listenerBuffer, connected, epc, socket,
                 streamVars, out, callbacks, cut>>

\* InterruptedIOException: nothing came for 100 ms.  What was read of the
\* message is dropped with internal_receive's arrays.
Timeout ==
  /\ lpc = "read" /\ wire = <<>> /\ socket = "open" /\ Len(got) < expected
  /\ cut' = (cut \/ got # <<>>)
  /\ lpc' = "buffered"
  /\ UNCHANGED <<monitor, got, expected, signal, callingListeners, listenerBuffer,
                 connected, epc, socket, streamVars, out, callbacks>>

\* The message read: all of one message, or something else.
Message ==
  IF Len(got) = Pieces /\ IsHeader(got) THEN got[1].msg ELSE Garbled

\* The callback is entered ...
CallListeners ==
  /\ lpc = "read" /\ Len(got) = expected
  /\ callingListeners' = TRUE
  /\ callbacks' = Append(callbacks, Message)
  /\ lpc' = "callback"
  /\ UNCHANGED <<monitor, got, expected, cut, signal, listenerBuffer, connected, epc,
                 socket, streamVars, out>>

\* ... and returns,
CallbackReturns ==
  /\ lpc = "callback"
  /\ callingListeners' = FALSE
  /\ lpc' = "buffered"
  /\ UNCHANGED <<monitor, got, expected, callbacks, cut, signal, listenerBuffer,
                 connected, epc, socket, streamVars, out>>

\* ... or throws a RuntimeException, which run does not catch.
CallbackThrows ==
  /\ lpc = "callback"
  /\ Ends
  /\ UNCHANGED <<signal, callingListeners, listenerBuffer, connected, epc, socket,
                 streamVars, out, callbacks, cut>>

\* The buffered commands: no callback of this program issues one, so the
\* buffer is empty while the thread runs.  The monitor is released.
BufferedCommands ==
  /\ lpc = "buffered" /\ listenerBuffer = <<>>
  /\ lpc' = "lock" /\ monitor' = "none"
  /\ UNCHANGED <<got, expected, callbacks, cut, signal, callingListeners, listenerBuffer,
                 connected, epc, socket, streamVars, out>>

-----------------------------------------------------------------------------
(* The scheduler thread and the command thread. *)

\* A write to a socket the daemon has closed may fail, or not yet.
Write(kind) == out' = [out EXCEPT ![kind] = @ + 1]
WriteFails == socket = "closed" /\ UNCHANGED out

\* sendOutstanding; a SpreadException is printed.
SchedulerMulticasts ==
  /\ connected /\ epc # "exited"
  /\ out["multicast"] < MaxMulticasts
  /\ Write("multicast")
  /\ UNCHANGED <<monitor, listenerVars, signal, callingListeners, listenerBuffer,
                 connected, epc, socket, streamVars>>

\* The user types exit.
CallExit ==
  /\ epc = "running"
  /\ epc' = "disconnect"
  /\ UNCHANGED <<monitor, listenerVars, signal, callingListeners, listenerBuffer,
                 connected, socket, streamVars, out>>

\* disconnect, up to the wait for the listener thread: in a callback, or what
\* looks like one, it is left to the listener thread; a SpreadException is
\* printed.
MutantMayEnter == TRUE
MayEnter == monitor = "none"

Disconnect ==
  /\ epc = "disconnect" /\ MayEnter
  /\ \/ /\ callingListeners
        /\ listenerBuffer' = Append(listenerBuffer, "disconnect")
        /\ epc' = "systemExit"
        /\ UNCHANGED <<monitor, signal, out>>
     \/ /\ ~callingListeners
        /\ Write("kill")
        /\ signal' = TRUE
        /\ epc' = "join" /\ monitor' = "command"
        /\ UNCHANGED listenerBuffer
     \/ /\ ~callingListeners
        /\ WriteFails
        /\ epc' = "systemExit"
        /\ UNCHANGED <<monitor, signal, listenerBuffer>>
  /\ UNCHANGED <<listenerVars, callingListeners, connected, socket, streamVars>>

\* stopListener's join, then the rest of disconnect.
Joined ==
  /\ epc = "join" /\ lpc = "ended"
  /\ socket' = "closed" /\ connected' = FALSE
  /\ monitor' = "none"
  /\ epc' = "systemExit"
  /\ UNCHANGED <<listenerVars, signal, callingListeners, listenerBuffer, streamVars, out>>

\* System.exit(0), which closes the socket too.
SystemExit ==
  /\ epc = "systemExit"
  /\ epc' = "exited" /\ lpc' = "ended" /\ socket' = "closed"
  /\ UNCHANGED <<monitor, got, expected, callbacks, cut, signal, callingListeners,
                 listenerBuffer, connected, streamVars, out>>

ListenerThread ==
  \/ Turn \/ ReadPiece \/ ReceiveFails \/ Timeout
  \/ CallListeners \/ CallbackReturns \/ CallbackThrows \/ BufferedCommands

ExitThread == CallExit \/ Disconnect \/ Joined \/ SystemExit

Next ==
  \/ DaemonWrites \/ DaemonCloses
  \/ ListenerThread \/ SchedulerMulticasts \/ ExitThread

Spec == Init /\ [][Next]_vars

\* The threads run; the monitor comes to one who asks for it again and again;
\* what the daemon has to send it sends.
FairSpec ==
  /\ Spec
  /\ WF_vars(ListenerThread) /\ SF_vars(Disconnect)
  /\ WF_vars(Joined \/ SystemExit)
  /\ WF_vars(DaemonWrites)

-----------------------------------------------------------------------------
(* Properties. *)

\* Every variable has its type; whoever is between entering and leaving a
\* synchronized block of Listener.run (1647) or disconnect (924) is the one the
\* connection's monitor belongs to, and nobody else is in such a block.
TypeOK ==
  /\ lpc \in {"lock", "read", "callback", "buffered", "ended"}
  /\ epc \in {"running", "disconnect", "join", "systemExit", "exited"}
  /\ expected \in 0..Pieces /\ Len(got) <= Pieces
  /\ callingListeners \in BOOLEAN /\ connected \in BOOLEAN /\ cut \in BOOLEAN
  /\ epc = "join" => lpc \in {"lock", "ended"}
  /\ epc # "exited" =>
       monitor = IF epc = "join" THEN "command"
                 ELSE IF lpc \in {"read", "callback", "buffered"} THEN "listener"
                 ELSE "none"

\* As long as no timeout (1637, 1721) has fallen inside a message, messages are
\* handed over whole, in order and without gaps (internal_receive, 1032-1283).
HandedOverInOrder ==
  ~cut => \A i \in DOMAIN callbacks : callbacks[i] = i

\* Once disconnect has sent the KILL message, the program is not called back
\* any more and the session's stream is not read (924-983).
QuietAfterKill ==
  [][out["kill"] > 0 => UNCHANGED <<callbacks, got>>]_vars

\* exit (472-479) ends the program when the listener thread has ended before:
\* an exception in a callback leaves no monitor behind and nothing to join.
ExitEndsWithoutListener ==
  epc = "disconnect" /\ lpc = "ended" ~> epc = "exited"

=============================================================================
