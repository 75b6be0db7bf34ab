------------------------------- MODULE StdArr -------------------------------
(***************************************************************************)
(* stdutil/src/stdarr.c: a sequence in an array that grows and shrinks by  *)
(* realloc.  begin is 0; an element is one cell.                           *)
(***************************************************************************)
EXTENDS Containers

CONSTANTS
  Vals,
  STDARR_MIN_AUTO_ALLOC,
  MaxSize,       \* bound: elements
  MaxAtOnce      \* bound: elements of one insertion

VARIABLES
  arr,   \* the stdarr
  seq    \* history: the sequence the calls so far should have made

vars == <<arr, seq>>


Cap(a) == Cardinality(DOMAIN a.cells)
Constructed(grow, shrink) == [cells |-> Fresh(0), size |-> 0, grow |-> grow, shrink |-> shrink]
Low_capacity(a) == Cap(a) \div 4
Contents(a) == [k \in 1..a.size |-> a.cells[k - 1]]
AtLeast(n) == IF n < STDARR_MIN_AUTO_ALLOC THEN STDARR_MIN_AUTO_ALLOC ELSE n

\* realloc keeps what fits.
Realloc(cells, cap) ==
  [k \in 0..(cap - 1) |-> IF k \in DOMAIN cells THEN cells[k] ELSE Junk]

\* stdarr_low_insert_space: n unwritten cells at place i.
Insert_space(a, i, n, nomem) ==
  LET size == a.size + n
      short == size > Cap(a)
      cells == IF short THEN Realloc(a.cells, AtLeast(2 * size)) ELSE a.cells
  IN IF short /\ (~a.grow \/ nomem) THEN [a |-> a, done |-> FALSE]
     ELSE [a |-> [a EXCEPT !.cells = Move(cells, i + n, i, a.size - i), !.size = size],
           done |-> TRUE]

\* stdarr_low_remove_space: the shift comes before the array shrinks.
Remove_space(a, i, n, nomem) ==
  LET size == a.size - n
      few == a.shrink /\ size <= Low_capacity(a) /\ Cap(a) # STDARR_MIN_AUTO_ALLOC /\ ~nomem
      cells == Move(a.cells, i, i + n, a.size - i - n)
  IN [a EXCEPT !.size = size,
               !.cells = IF few THEN Realloc(cells, AtLeast(2 * size)) ELSE cells]

\* What lies behind the elements is never read again.
Tidy(a) == [a EXCEPT !.cells = [k \in DOMAIN @ |-> IF k < a.size THEN @[k] ELSE Junk]]
Becomes(a, s) == arr' = Tidy(a) /\ seq' = s

-----------------------------------------------------------------------------
\* stdarr_insert_n, _seq_n, _rep
Insert(i, xs) ==
  \E nomem \in BOOLEAN :
    LET r == Insert_space(arr, i, Len(xs), nomem)
    IN /\ arr.size + Len(xs) <= MaxSize
       /\ IF r.done
          THEN Becomes([r.a EXCEPT !.cells = Written(@, i, xs)], Spliced(seq, i, 0, xs))
          ELSE UNCHANGED vars

Push_back(xs) == Insert(arr.size, xs)

Erase(i, n) ==
  \E nomem \in BOOLEAN :
    /\ i + n <= arr.size
    /\ Becomes(Remove_space(arr, i, n, nomem), Spliced(seq, i, n, <<>>))

Pop_back(n) == n <= arr.size /\ Erase(arr.size - n, n)

Resized(a, n, nomem) ==
  IF n > a.size THEN Insert_space(a, a.size, n - a.size, nomem)
  ELSE IF n < a.size THEN [a |-> Remove_space(a, n, a.size - n, nomem), done |-> TRUE]
  ELSE [a |-> a, done |-> TRUE]

\* stdarr_resize, stdarr_clear; the user writes what is new at once.
Resize(n, x) ==
  \E nomem \in BOOLEAN :
    LET r == Resized(arr, n, nomem)
    IN /\ IF r.done
          THEN Becomes([r.a EXCEPT !.cells = [k \in DOMAIN @ |-> IF k >= arr.size THEN x ELSE @[k]]],
                       [k \in 1..n |-> IF k <= Len(seq) THEN seq[k] ELSE x])
          ELSE UNCHANGED vars

Set_capacity(n) ==
  LET size == IF arr.size < n THEN arr.size ELSE n
  IN /\ n # Cap(arr)
     /\ Becomes([arr EXCEPT !.cells = Realloc(@, n), !.size = size], SubSeq(seq, 1, size))
Reserve(n) == n > Cap(arr) /\ Set_capacity(n)
Shrink_fit == Set_capacity(arr.size)

\* stdarr_set_eq from an array with the elements xs.
Set_eq(xs) ==
  \E nomem \in BOOLEAN :
    LET r == Resized(arr, Len(xs), nomem)
    IN /\ IF r.done THEN Becomes([r.a EXCEPT !.cells = Written(@, 0, xs)], xs)
          ELSE UNCHANGED vars

\* stdarr_set_opts
Set_opts(grow, shrink) ==
  /\ arr' = [arr EXCEPT !.grow = grow, !.shrink = shrink]
  /\ UNCHANGED seq

Few == Strings(Vals, MaxAtOnce)

Init ==
  /\ arr \in {Constructed(grow, shrink) : grow, shrink \in BOOLEAN}
  /\ seq = <<>>

Next ==
  \/ \E xs \in Few : Push_back(xs) \/ Set_eq(xs) \/ \E i \in 0..arr.size : Insert(i, xs)
  \/ \E n \in 0..MaxSize :
       \/ Pop_back(n) \/ (\E i \in 0..arr.size : Erase(i, n))
       \/ (\E x \in Vals : Resize(n, x)) \/ Set_capacity(n) \/ Reserve(n)
  \/ Shrink_fit
  \/ \E grow, shrink \in BOOLEAN : Set_opts(grow, shrink)

Spec == Init /\ [][Next]_vars

-----------------------------------------------------------------------------
\* STDARR_IS_LEGAL, and the array holds the sequence its calls have made.
IsSequence ==
  /\ arr.size <= Cap(arr)
  /\ Contents(arr) = seq
=============================================================================
