------------------------------- MODULE Events -------------------------------
(***************************************************************************)
(* daemon/events.c: the loop all of the daemon runs in.  Timers and file   *)
(* descriptors have handlers; a handler may queue and dequeue timers,      *)
(* attach and detach descriptors, and change the threshold below which     *)
(* descriptors are not looked at.  A source is a descriptor with its type, *)
(* a timer a function with its code and data.                              *)
(***************************************************************************)
EXTENDS Integers, Sequences, FiniteSets, SequencesExt

CONSTANTS
  Sources,
  Timers,
  NUM_PRIORITY,   \* priorities are 0 (low) .. NUM_PRIORITY - 1
  MAX_FD_EVENTS,
  Delays,         \* the delays of timers
  Second,         \* how many usec make a second
  Started,        \* bound: when the program starts
  MaxTime,        \* bound: the clock
  MaxCalls        \* bound: calls of one handler

VARIABLES
  Time_queue,       \* the timers, with the times they are due
  Fd_queue,         \* of each priority, the attached sources
  Fd_mask,          \* the sources select is to watch
  Active_priority,
  Round_robin,
  Exit_events,
  first,            \* no round without high events was seen yet
  loop,             \* where E_handle_events is: place, level i, place j, ...
  clock,            \* the clock of the machine
  calls,            \* calls left to the handler that runs, or to main before the loop
  revived,          \* history: the sources that were attached again while inactive
  due,              \* history: of each timer, when it was last told to run, 0 if not
  passed,           \* history: how often a ready low source was passed over
  owed              \* history: the ready sources of the level whose handlers run that
                    \* are still to be served and that no swap has moved

vars == <<Time_queue, Fd_queue, Fd_mask, Active_priority, Round_robin, Exit_events,
          first, loop, clock, calls, revived, due, passed, owed>>
tables == <<Time_queue, Fd_queue, Fd_mask, Active_priority, Exit_events, revived, due>>

LOW_PRIORITY == 0
Priorities == LOW_PRIORITY..(NUM_PRIORITY - 1)

-----------------------------------------------------------------------------
(* Times are pairs of seconds and usecs.                                   *)

E_get_time == [sec |-> clock \div Second, usec |-> clock % Second]

E_add_time(t, d) ==
  IF t.usec + d.usec > Second THEN [sec |-> t.sec + d.sec + 1, usec |-> t.usec + d.usec - Second]
  ELSE [sec |-> t.sec + d.sec, usec |-> t.usec + d.usec]

\* E_compare_time(t, u) < 0
Before(t, u) == t.sec < u.sec \/ (t.sec = u.sec /\ t.usec < u.usec)

Delay(d) == [sec |-> d \div Second, usec |-> d % Second]

\* A later moment of the clock is E_add_time's, whose usecs may be a whole second.
Moment(t) == t.sec * Second + t.usec

-----------------------------------------------------------------------------
(* The tables.                                                             *)

At(p) == {Fd_queue[p][k].src : k \in DOMAIN Fd_queue[p]}
Where(queue, src) == CHOOSE k \in DOMAIN queue : queue[k].src = src

\* The sources to watch, from a threshold on.
Watched(queues, threshold) ==
  {src \in Sources : \E p \in threshold..(NUM_PRIORITY - 1) : \E k \in DOMAIN queues[p] :
     queues[p][k].src = src /\ queues[p][k].active}

\* E_queue: an earlier one of the same timer goes, the new one stands before
\* the first that is due later.
Queued(queue, id, t) ==
  LET rest == SelectSeq(queue, LAMBDA e : e.id # id)
      place == Cardinality({k \in DOMAIN rest : ~Before(t, rest[k].t)})
  IN SubSeq(rest, 1, place) \o <<[id |-> id, t |-> t]>> \o SubSeq(rest, place + 1, Len(rest))

E_queue(id, d) ==
  /\ Time_queue' = Queued(Time_queue, id, E_add_time(E_get_time, Delay(d)))
  /\ due' = [due EXCEPT ![id] = clock + d + 1]
  /\ UNCHANGED <<Fd_queue, Fd_mask, Active_priority, Exit_events, revived, passed, owed>>

E_dequeue(id) ==
  /\ \E k \in DOMAIN Time_queue : Time_queue[k].id = id
  /\ Time_queue' = SelectSeq(Time_queue, LAMBDA e : e.id # id)
  /\ due' = [due EXCEPT ![id] = 0]
  /\ UNCHANGED <<Fd_queue, Fd_mask, Active_priority, Exit_events, revived, passed, owed>>

\* E_attach_fd: one that is there is not put into the mask.
E_attach_fd(src, p) ==
  /\ IF src \in At(p)
     THEN /\ Fd_queue' = [Fd_queue EXCEPT ![p][Where(Fd_queue[p], src)].active = TRUE]
          /\ revived' = IF src \in Watched(Fd_queue, p) THEN revived ELSE revived \cup {src}
          /\ UNCHANGED Fd_mask
     ELSE /\ Len(Fd_queue[p]) < MAX_FD_EVENTS
          /\ Fd_queue' = [Fd_queue EXCEPT ![p] = Append(@, [src |-> src, active |-> TRUE])]
          /\ Fd_mask' = IF Active_priority <= p THEN Fd_mask \cup {src} ELSE Fd_mask
          /\ UNCHANGED revived
  /\ passed' = IF p = LOW_PRIORITY THEN [s \in Sources |-> 0] ELSE passed
  /\ UNCHANGED <<Time_queue, Active_priority, Exit_events, due, owed>>

\* The source that takes the place of this one, when the loop is past that place.
Skipped(src) ==
  {Last(Fd_queue[p]).src :
     p \in {q \in Priorities \cap {loop.i} : src \in At(q) /\ Where(Fd_queue[q], src) < loop.j}}

\* E_detach_fd: from every priority; the last of the queue takes the place.
E_detach_fd(src) ==
  /\ \E p \in Priorities : src \in At(p)
  /\ Fd_queue' = [p \in Priorities |->
       IF src \notin At(p) THEN Fd_queue[p]
       ELSE SubSeq([Fd_queue[p] EXCEPT ![Where(Fd_queue[p], src)] = Last(Fd_queue[p])],
                   1, Len(Fd_queue[p]) - 1)]
  /\ Fd_mask' = Fd_mask \ {src}
  /\ revived' = revived \ {src}
  /\ passed' = [s \in Sources |-> 0]
  /\ owed' = owed \ ({src} \cup Skipped(src))
  /\ UNCHANGED <<Time_queue, Active_priority, Exit_events, due>>

\* Its entries are switched on or off.
Switched(src, active) ==
  [p \in Priorities |-> [k \in DOMAIN Fd_queue[p] |->
     IF Fd_queue[p][k].src = src THEN [src |-> src, active |-> active] ELSE Fd_queue[p][k]]]

E_deactivate_fd(src) ==
  /\ \E p \in Priorities : src \in At(p)
  /\ Fd_queue' = Switched(src, FALSE)
  /\ Fd_mask' = Fd_mask \ {src}
  /\ revived' = revived \ {src}
  /\ UNCHANGED <<Time_queue, Active_priority, Exit_events, due, passed, owed>>

E_activate_fd(src) ==
  /\ \E p \in Priorities : src \in At(p)
  /\ Fd_queue' = Switched(src, TRUE)
  /\ Fd_mask' = IF \E p \in Priorities : p >= Active_priority /\ src \in At(p)
                THEN Fd_mask \cup {src} ELSE Fd_mask
  /\ revived' = revived \ {src}
  /\ UNCHANGED <<Time_queue, Active_priority, Exit_events, due, passed, owed>>

E_set_active_threshold(p) ==
  /\ p # Active_priority
  /\ Active_priority' = p
  /\ Fd_mask' = Watched(Fd_queue, p)
  /\ revived' = {}
  /\ UNCHANGED <<Time_queue, Fd_queue, Exit_events, due, passed, owed>>

E_exit_events ==
  /\ Exit_events' = TRUE
  /\ UNCHANGED <<Time_queue, Fd_queue, Fd_mask, Active_priority, revived, due, passed, owed>>

\* A call of main before the loop, or of the handler that runs.
Call ==
  /\ loop.at \in {"main", "handler"} /\ calls > 0
  /\ calls' = calls - 1
  /\ \/ \E id \in Timers : E_dequeue(id) \/ \E d \in Delays : E_queue(id, d)
     \/ \E src \in Sources :
          E_detach_fd(src) \/ E_deactivate_fd(src) \/ E_activate_fd(src)
          \/ \E p \in Priorities : E_attach_fd(src, p)
     \/ \E p \in Priorities : E_set_active_threshold(p)
     \/ E_exit_events
  /\ UNCHANGED <<Round_robin, first, loop, clock>>

-----------------------------------------------------------------------------
(* E_handle_events.                                                        *)

Idle == [at |-> "main", i |-> 0, j |-> 1, ready |-> {}, num_set |-> 0, treated |-> FALSE, back |-> "time"]

Start ==
  /\ loop.at = "main"
  /\ loop' = [loop EXCEPT !.at = "time"]
  /\ Exit_events' = FALSE
  /\ UNCHANGED <<Time_queue, Fd_queue, Fd_mask, Active_priority, Round_robin, first, clock, calls, revived, due, passed, owed>>

TimerRuns == Time_queue # <<>> /\ ~first /\ ~Before(E_get_time, Head(Time_queue).t)

\* The handler of a time event; the event is out of the queue before it runs.
RunTimer ==
  /\ loop.at = "time"
  /\ TimerRuns
  /\ Time_queue' = Tail(Time_queue)
  /\ due' = [due EXCEPT ![Head(Time_queue).id] = 0]
  /\ loop' = [loop EXCEPT !.at = "handler", !.back = "time"]
  /\ calls' = MaxCalls
  /\ UNCHANGED <<Fd_queue, Fd_mask, Active_priority, Round_robin, Exit_events, first, clock, revived, passed, owed>>

\* select, polled and then with the time to the first timer.  No sources: it is
\* time.  With no timer it waits until there is a source.
Select ==
  /\ loop.at = "time"
  /\ ~TimerRuns
  /\ \E ready \in SUBSET Fd_mask, now \in clock..MaxTime :
       /\ ready = {} => Time_queue # <<>> /\ Moment(Head(Time_queue).t) <= now
       /\ clock' = now
       /\ loop' = [loop EXCEPT !.at = "high", !.i = NUM_PRIORITY - 1, !.j = 1, !.ready = ready,
                               !.num_set = Cardinality(ready), !.treated = FALSE]
  /\ UNCHANGED <<tables, Round_robin, first, calls, passed, owed>>

\* The places of a queue, from j on, whose bit select has set.
Set(p, j) == {k \in j..Len(Fd_queue[p]) : Fd_queue[p][k].src \in loop.ready}
Least(S) == CHOOSE k \in S : \A j \in S : k <= j

\* The levels at which the next handler is looked for: the rest of this one,
\* and those below it if no handler was run at this one.
Levels == {p \in 1..loop.i : (p < loop.i => ~loop.treated) /\ Set(p, IF p = loop.i THEN loop.j ELSE 1) # {}}

RunHigh ==
  /\ loop.at = "high" /\ loop.num_set > 0 /\ Levels # {}
  /\ LET i == CHOOSE p \in Levels : \A q \in Levels : q <= p
         j == Least(Set(i, IF i = loop.i THEN loop.j ELSE 1))
     IN /\ loop' = [loop EXCEPT !.at = "handler", !.back = "high", !.i = i, !.j = j + 1,
                                !.treated = TRUE, !.num_set = @ - 1]
        /\ owed' = (IF loop.treated THEN owed ELSE loop.ready \cap At(i)) \ {Fd_queue[i][j].src}
  /\ calls' = MaxCalls
  /\ UNCHANGED <<tables, Round_robin, first, clock, passed>>

HighDone ==
  /\ loop.at = "high" /\ (loop.num_set = 0 \/ Levels = {})
  /\ loop' = [loop EXCEPT !.at = "low"]
  /\ first' = (first /\ loop.treated)
  /\ UNCHANGED <<tables, Round_robin, clock, calls, passed, owed>>

\* One low source, from the one after the last on; none when the threshold is
\* above them by now.
Turn == LET n == Len(Fd_queue[LOW_PRIORITY])
            Place(i) == (i + Round_robin) % n
            turns == {i \in 0..(n - 1) : Fd_queue[LOW_PRIORITY][Place(i) + 1].src \in loop.ready}
        IN IF turns = {} THEN {} ELSE {Place(Least(turns))}

LowAllowed == loop.num_set > 0 /\ Active_priority = LOW_PRIORITY

MutantRunLow ==
  /\ loop.at = "low" /\ LowAllowed /\ Turn # {}
  /\ LET j == CHOOSE k \in Turn : TRUE
         low == Fd_queue[LOW_PRIORITY]
     IN /\ Round_robin' = j
        /\ passed' = [s \in Sources |-> IF s = low[j + 1].src THEN 0
                                        ELSE IF s \in loop.ready \cap At(LOW_PRIORITY) THEN passed[s] + 1
                                        ELSE 0]
  /\ loop' = [loop EXCEPT !.at = "handler", !.back = "time"]
  /\ calls' = MaxCalls
  /\ owed' = {}
  /\ UNCHANGED <<tables, first, clock>>
RunLow ==
  /\ loop.at = "low" /\ LowAllowed /\ Turn # {}
  /\ LET j == CHOOSE k \in Turn : TRUE
         low == Fd_queue[LOW_PRIORITY]
     IN /\ Round_robin' = (j + 1) % Len(low)
        /\ passed' = [s \in Sources |-> IF s = low[j + 1].src THEN 0
                                        ELSE IF s \in loop.ready \cap At(LOW_PRIORITY) THEN passed[s] + 1
                                        ELSE 0]
  /\ loop' = [loop EXCEPT !.at = "handler", !.back = "time"]
  /\ calls' = MaxCalls
  /\ owed' = {}
  /\ UNCHANGED <<tables, first, clock>>

LowDone ==
  /\ loop.at = "low" /\ ~(LowAllowed /\ Turn # {})
  /\ loop' = [Idle EXCEPT !.at = "time"]
  /\ owed' = {}
  /\ UNCHANGED <<tables, Round_robin, first, clock, calls, passed>>

\* A handler returns; time may have passed.
Return ==
  /\ loop.at = "handler"
  /\ clock' \in clock..MaxTime
  /\ calls' = 0
  /\ loop' = IF Exit_events THEN [Idle EXCEPT !.at = "end"]
             ELSE IF loop.back = "time" THEN [Idle EXCEPT !.at = "time"] ELSE [loop EXCEPT !.at = "high"]
  /\ owed' = IF Exit_events THEN {} ELSE owed
  /\ UNCHANGED <<tables, Round_robin, first, passed>>

Init ==
  /\ Time_queue = <<>> /\ Fd_queue = [p \in Priorities |-> <<>>] /\ Fd_mask = {}
  /\ Active_priority = LOW_PRIORITY /\ Round_robin = 0 /\ Exit_events = FALSE /\ first = TRUE
  /\ loop = Idle /\ clock = Started /\ calls = MaxCalls + 1
  /\ revived = {} /\ due = [id \in Timers |-> 0] /\ passed = [src \in Sources |-> 0] /\ owed = {}

Next ==
  \/ Call \/ Start \/ RunTimer \/ Select \/ RunHigh \/ HighDone \/ RunLow \/ LowDone \/ Return

Spec == Init /\ [][Next]_vars

-----------------------------------------------------------------------------
\* The timers told to run are in the queue, each once, at their times and in
\* their order; select watches the active sources above the threshold, except
\* ones that were attached again while inactive.  When the handlers of a high level
\* have run, each source of it that was ready has been served, or a handler has
\* detached it, or detached one that was served and so moved it to that one's place
\* (events.c:434): it stays among those watched, and is served in the first round in
\* which it is ready and not moved.
\* And as long as none comes or goes, a low source that is ready waits for each
\* other one at most once.
LoopSound ==
  /\ \A id \in Timers :
       LET at == {k \in DOMAIN Time_queue : Time_queue[k].id = id}
       IN IF due[id] = 0 THEN at = {}
          ELSE Cardinality(at) = 1 /\ \A k \in at : Moment(Time_queue[k].t) = due[id] - 1
  /\ \A k \in 1..(Len(Time_queue) - 1) : Moment(Time_queue[k].t) <= Moment(Time_queue[k + 1].t)
  /\ Fd_mask \subseteq Watched(Fd_queue, Active_priority)
  /\ Watched(Fd_queue, Active_priority) \subseteq Fd_mask \cup revived
  /\ loop.at = "low" => owed = {}
  /\ \A src \in Sources : passed[src] < MAX_FD_EVENTS
=============================================================================
