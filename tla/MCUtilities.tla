---------------------------- MODULE MCUtilities ----------------------------
(***************************************************************************)
(* What the daemon and libspread stand on, the containers of stdutil, the  *)
(* event loop and the memory pools, and the flush layer above libspread.   *)
(* They share nothing, so each behaviour is one of one of them.            *)
(***************************************************************************)
EXTENDS Flush, TLC

CONSTANTS
  a, b, c,                                 \* connections
  Junk, Empty, Keys, Vals, HcodeBits, MIN_AUTO_ALLOC, TableMin, STDSKL_MAX_HEIGHT, FirstHeight,
  STDSIZE_BITS, VSizes,
  ArraySize, RingSize, MapSize, MaxAtOnce, HashAtOnce,
  Sources, Timers, NUM_PRIORITY, MAX_FD_EVENTS, Delays, Second, Started, MaxTime, MaxCalls,
  ObjTypes, BLOCK_OBJECT, ObjSize, Header, Thresholds, MaxInitial, MaxObjects, MaxLength

VARIABLES
  which,                                   \* the one of this behaviour
  carr, carrSeq, carrTold,
  arr, arrSeq,
  dll, dllSeq, dllTold, dllAstray,
  hash, hashPairs, hashAstray, hashTold,
  skl, sklPairs, sklAstray, sklTold,
  Time_queue, Fd_queue, Fd_mask, Active_priority, Round_robin, Exit_events, first, loop,
  clock, calls, revived, due, passed, owed,
  heap, Mem, total, used, over

Carr == INSTANCE StdCarr WITH seq <- carrSeq, told <- carrTold, MaxSize <- ArraySize,
                              STDCARR_MIN_AUTO_ALLOC <- MIN_AUTO_ALLOC
Arr == INSTANCE StdArr WITH seq <- arrSeq, MaxSize <- ArraySize, STDARR_MIN_AUTO_ALLOC <- MIN_AUTO_ALLOC
Dll == INSTANCE StdDll WITH seq <- dllSeq, told <- dllTold, astray <- dllAstray, MaxSize <- RingSize

\* Hash codes: two keys of one code (0 counts as 1), and a third whose search
\* starts at the same place and goes on elsewhere.
Codes == [key \in Keys \cup {3} |-> IF key = 3 THEN 9 ELSE key - 1]
Hash == INSTANCE StdHash WITH MaxAtOnce <- HashAtOnce, pairs <- hashPairs, astray <- hashAstray, told <- hashTold,
                              MaxSize <- MapSize, Keys <- Keys \cup {3}, Hcode_fcn <- Codes, STDHASH_MIN_AUTO_ALLOC <- TableMin
Skl == INSTANCE StdSkl WITH pairs <- sklPairs, astray <- sklAstray, told <- sklTold, MaxSize <- MapSize
\* The loop, once with two timers and one source and once with one timer and two.
Timing == INSTANCE Events WITH Sources <- {CHOOSE src \in Sources : TRUE}
Polling == INSTANCE Events WITH Timers <- {CHOOSE id \in Timers : TRUE}, MaxTime <- Started + 1
Pools == INSTANCE Memory

carrVars == <<carr, carrSeq, carrTold>>
arrVars == <<arr, arrSeq>>
dllVars == <<dll, dllSeq, dllTold, dllAstray>>
hashVars == <<hash, hashPairs, hashAstray, hashTold>>
sklVars == <<skl, sklPairs, sklAstray, sklTold>>
evVars == <<Time_queue, Fd_queue, Fd_mask, Active_priority, Round_robin, Exit_events, first, loop,
            clock, calls, revived, due, passed, owed>>
memVars == <<heap, Mem, total, used, over>>

UtilitiesInit ==
  /\ which \in {"carr", "arr", "dll", "hash", "skl", "timing", "polling", "memory", "flush"}
  /\ Carr!Init /\ Arr!Init /\ Dll!Init /\ Hash!Init /\ Skl!Init /\ Pools!Init /\ Init
  /\ IF which = "timing" THEN Timing!Init ELSE Polling!Init
  /\ which # "carr" => carr.grow /\ carr.shrink
  /\ which # "arr" => arr.grow /\ arr.shrink
  /\ which # "hash" => hash.grow /\ hash.shrink

UtilitiesNext ==
  /\ UNCHANGED which
  /\ \/ which = "carr" /\ Carr!Next /\ UNCHANGED <<arrVars, dllVars, hashVars, sklVars, evVars, memVars, vars>>
     \/ which = "arr" /\ Arr!Next /\ UNCHANGED <<carrVars, dllVars, hashVars, sklVars, evVars, memVars, vars>>
     \/ which = "dll" /\ Dll!Next /\ UNCHANGED <<carrVars, arrVars, hashVars, sklVars, evVars, memVars, vars>>
     \/ which = "hash" /\ Hash!Next /\ UNCHANGED <<carrVars, arrVars, dllVars, sklVars, evVars, memVars, vars>>
     \/ which = "skl" /\ Skl!Next /\ UNCHANGED <<carrVars, arrVars, dllVars, hashVars, evVars, memVars, vars>>
     \/ which = "timing" /\ Timing!Next /\ UNCHANGED <<carrVars, arrVars, dllVars, hashVars, sklVars, memVars, vars>>
     \/ which = "polling" /\ Polling!Next /\ UNCHANGED <<carrVars, arrVars, dllVars, hashVars, sklVars, memVars, vars>>
     \/ which = "memory" /\ Pools!Next /\ UNCHANGED <<carrVars, arrVars, dllVars, hashVars, sklVars, evVars, vars>>
     \/ which = "flush" /\ Next /\ UNCHANGED <<carrVars, arrVars, dllVars, hashVars, sklVars, evVars, memVars>>

UtilitiesSpec == UtilitiesInit /\ [][UtilitiesNext]_<<which, carrVars, arrVars, dllVars, hashVars, sklVars, evVars, memVars, vars>>

-----------------------------------------------------------------------------
\* stdcarr, stdarr, stddll: whatever is inserted, erased, resized, reserved or
\* shrunk, and whenever an allocation fails, a container holds the sequence its
\* calls have made, and its iterators lead to the elements; a stddll unless a call
\* went by its size after that was wrong (stddll_low_rerase).
SequencesRight ==
  /\ which = "carr" => Carr!IsSequence
  /\ which = "arr" => Arr!IsSequence
  /\ which = "dll" => Dll!IsSequence

\* stdhash, stdskl: a container holds the pairs its calls have put there, unless a
\* put was given a hint, and every search, walk and level of it leads to them and
\* to nothing else; its size counts them until a stdhash_put overwrites or a
\* stdskl_erase_seq erases.
MapsRight ==
  /\ which = "hash" => Hash!IsMap
  /\ which = "skl" => Skl!IsMap

\* events.c, memory.c: timers run once and in order, select watches what it
\* should, ready daemons are all served and ready clients take turns; and no memory
\* is lost or given out twice.
LoopAndPoolsRight ==
  /\ which = "timing" => Timing!LoopSound
  /\ which = "polling" => Polling!LoopSound
  /\ which = "memory" => Pools!PoolsSound
=============================================================================
