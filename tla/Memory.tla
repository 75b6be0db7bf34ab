------------------------------- MODULE Memory -------------------------------
(***************************************************************************)
(* daemon/memory.c: objects of registered types, which go back to a pool   *)
(* of their type up to its threshold, and blocks of any length, which do   *)
(* not.  Memory that calloc gives is a number, the least that is free.     *)
(* The maxima that are kept for reports are left out.                      *)
(***************************************************************************)
EXTENDS Integers, Sequences, FiniteSets, SequencesExt, FiniteSetsExt, TLC

CONSTANTS
  ObjTypes,      \* the types besides BLOCK_OBJECT
  BLOCK_OBJECT,
  ObjSize,       \* the size of a type's objects
  Header,        \* sizeof(mem_header)
  Thresholds,
  MaxInitial,    \* bound: initial objects of a type
  MaxObjects,    \* bound: memory
  MaxLength      \* bound: the length of a block

VARIABLES
  heap,   \* what calloc gave and free has not taken: the mem_header of each
  Mem,    \* the mem_info of each type
  total,  \* Mem_Bytes_Allocated, Mem_Obj_Allocated, Mem_Obj_Inuse
  used,   \* history: what the program holds
  over    \* history: the bytes of blocks that were given back but not taken off

vars == <<heap, Mem, total, used, over>>

Types == ObjTypes \cup {BLOCK_OBJECT}

Sizeobj(type) == IF type = BLOCK_OBJECT THEN 0 ELSE ObjSize

\* The least n numbers that are free.
Calloc(n) == SubSeq(SetToSortSeq((1..MaxObjects) \ DOMAIN heap, <), 1, n)

\* n more objects of a type in the counters of the type, and of all types.
Counted(type, n, length) ==
  [Mem EXCEPT ![type].num_obj = @ + n, ![type].bytes_allocated = @ + n * (length + Header)]

\* Mem_init_object; calloc may fail before all of the initial objects are there.
Mem_init_object(type, threshold, initial) ==
  /\ ~Mem[type].exist
  /\ type = BLOCK_OBJECT => threshold = 0 /\ initial = 0
  /\ \E n \in 0..initial :
       LET made == Calloc(n)
       IN /\ Cardinality(DOMAIN heap) + n <= MaxObjects
          /\ heap' = heap @@ [x \in Range(made) |-> [obj_type |-> type, block_len |-> Sizeobj(type)]]
          /\ Mem' = [Counted(type, n, Sizeobj(type)) EXCEPT
                       ![type].exist = TRUE, ![type].threshold = threshold,
                       ![type].list = Reverse(made), ![type].num_obj_inpool = n]
          /\ total' = [total EXCEPT !.bytes = @ + n * (Sizeobj(type) + Header), !.obj = @ + n]
  /\ UNCHANGED <<used, over>>

\* Memory from calloc for the program.
Fresh(type, length) ==
  LET x == Calloc(1)[1]
  IN /\ Cardinality(DOMAIN heap) < MaxObjects
     /\ heap' = heap @@ (x :> [obj_type |-> type, block_len |-> length])
     /\ Mem' = [Counted(type, 1, length) EXCEPT ![type].exist = TRUE, ![type].num_obj_inuse = @ + 1]
     /\ total' = [bytes |-> total.bytes + length + Header, obj |-> total.obj + 1, inuse |-> total.inuse + 1]
     /\ used' = used \cup {x}

\* new; when calloc fails there is no object.
new(type) ==
  /\ Mem[type].exist
  /\ IF Mem[type].list = <<>> THEN Fresh(type, Sizeobj(type))
     ELSE /\ Mem' = [Mem EXCEPT ![type].list = Tail(@), ![type].num_obj_inpool = @ - 1,
                                ![type].num_obj_inuse = @ + 1]
          /\ total' = [total EXCEPT !.inuse = @ + 1]
          /\ used' = used \cup {Head(Mem[type].list)}
          /\ UNCHANGED heap
  /\ UNCHANGED over

\* Mem_alloc
Mem_alloc(length) == length > 0 /\ Fresh(BLOCK_OBJECT, length) /\ UNCHANGED over

\* dispose: into the pool, or freed when that is at its threshold.  What is taken
\* off the bytes is the size of the type, for a block 0.
Mutantdispose(x) ==
  LET type == heap[x].obj_type
      size == Sizeobj(type) + Header
      freed == Mem[type].num_obj_inpool >= Mem[type].threshold
  IN /\ Mem' = IF freed
               THEN [Mem EXCEPT ![type].num_obj_inuse = @ - 1, ![type].num_obj = @ - 1,
                                ![type].bytes_allocated = @ - size]
               ELSE [Mem EXCEPT ![type].num_obj_inuse = @ - 1, ![type].list = <<x>> \o @]
     /\ total' = IF freed THEN [bytes |-> total.bytes - size, obj |-> total.obj - 1, inuse |-> total.inuse - 1]
                 ELSE [total EXCEPT !.inuse = @ - 1]
     /\ heap' = IF freed THEN [y \in DOMAIN heap \ {x} |-> heap[y]] ELSE heap
     /\ over' = IF freed THEN over + heap[x].block_len - Sizeobj(type) ELSE over
     /\ used' = used \ {x}
dispose(x) ==
  LET type == heap[x].obj_type
      size == Sizeobj(type) + Header
      freed == Mem[type].num_obj_inpool >= Mem[type].threshold
  IN /\ Mem' = IF freed
               THEN [Mem EXCEPT ![type].num_obj_inuse = @ - 1, ![type].num_obj = @ - 1,
                                ![type].bytes_allocated = @ - size]
               ELSE [Mem EXCEPT ![type].num_obj_inuse = @ - 1, ![type].list = <<x>> \o @,
                                ![type].num_obj_inpool = @ + 1]
     /\ total' = IF freed THEN [bytes |-> total.bytes - size, obj |-> total.obj - 1, inuse |-> total.inuse - 1]
                 ELSE [total EXCEPT !.inuse = @ - 1]
     /\ heap' = IF freed THEN [y \in DOMAIN heap \ {x} |-> heap[y]] ELSE heap
     /\ over' = IF freed THEN over + heap[x].block_len - Sizeobj(type) ELSE over
     /\ used' = used \ {x}

\* Mem_copy: of a block as long, of an object of its type.
Mem_copy(x) ==
  IF heap[x].obj_type = BLOCK_OBJECT THEN Mem_alloc(heap[x].block_len) ELSE new(heap[x].obj_type)

Init ==
  /\ heap = <<>>
  /\ Mem = [type \in Types |-> [exist |-> FALSE, threshold |-> 0, num_obj |-> 0, bytes_allocated |-> 0,
                                num_obj_inuse |-> 0, num_obj_inpool |-> 0, list |-> <<>>]]
  /\ total = [bytes |-> 0, obj |-> 0, inuse |-> 0]
  /\ used = {}
  /\ over = 0

\* Bound: blocks given back.
Next ==
  \/ \E type \in Types :
       new(type) \/ \E threshold \in Thresholds, initial \in 0..MaxInitial :
                      Mem_init_object(type, threshold, initial)
  \/ \E length \in 0..MaxLength : Mem_alloc(length)
  \/ \E x \in used : Mem_copy(x) \/ (over <= MaxLength /\ dispose(x))

Spec == Init /\ [][Next]_vars

-----------------------------------------------------------------------------
\* Nothing is in the pool twice, or there and with the program, or in neither;
\* a pool is no longer than it may be; the counters are right for what exists,
\* but for the blocks given back.
PoolsSound ==
  LET Of(type, S) == {x \in S : heap[x].obj_type = type}
      Pooled(type) == Range(Mem[type].list)
      Bytes(S) == MapThenSumSet(LAMBDA x : heap[x].block_len + Header, S)
      All(f) == MapThenSumSet(LAMBDA type : f[type], Types)
  IN /\ \A type \in Types :
          /\ Of(type, DOMAIN heap) = Of(type, used) \cup Pooled(type)
          /\ Of(type, used) \cap Pooled(type) = {}
          /\ Len(Mem[type].list) = Cardinality(Pooled(type))
          /\ Mem[type].num_obj_inpool = Len(Mem[type].list)
          /\ Mem[type].num_obj_inpool <= Max({Mem[type].threshold, MaxInitial})
          /\ Mem[type].num_obj_inuse = Cardinality(Of(type, used))
          /\ Mem[type].num_obj = Cardinality(Of(type, DOMAIN heap))
          /\ Mem[type].bytes_allocated =
               Bytes(Of(type, DOMAIN heap)) + (IF type = BLOCK_OBJECT THEN over ELSE 0)
     /\ total = [bytes |-> All([type \in Types |-> Mem[type].bytes_allocated]),
                 obj |-> All([type \in Types |-> Mem[type].num_obj]),
                 inuse |-> All([type \in Types |-> Mem[type].num_obj_inuse])]
=============================================================================
