------------------------------ MODULE StdCarr ------------------------------
(***************************************************************************)
(* stdutil/src/stdcarr.c: a sequence in a circular array.  Pointers are    *)
(* places in the array, base is 0 and endbase its size; an element is one  *)
(* cell, vsize bytes (every offset in the code is a multiple of it).  A    *)
(* cell that is not in use is Junk, so an operation that reads one shows.  *)
(***************************************************************************)
EXTENDS Containers

CONSTANTS
  Vals,
  STDCARR_MIN_AUTO_ALLOC,
  STDSIZE_BITS,  \* the width of stdsize and stdssize
  VSizes,        \* bound: sizes of an element
  MaxSize,       \* bound: elements
  MaxAtOnce      \* bound: elements of one insertion or erasure

VARIABLES
  carr,  \* the stdcarr
  seq,   \* history: the sequence the calls so far should have made
  told   \* the last iterator was set to the right place

vars == <<carr, seq, told>>

Cap(c) == Cardinality(DOMAIN c.cells)
Constructed(grow, shrink) ==
  [cells |-> Fresh(0), begin |-> 0, end |-> 0, size |-> 0, grow |-> grow, shrink |-> shrink]

High_capacity(c) == IF Cap(c) # 0 THEN Cap(c) - 1 ELSE 0
Low_capacity(c) == Cap(c) \div 4

Forward(c, p, n) == IF p + n < Cap(c) THEN p + n ELSE p + n - Cap(c)
MutantBackward(c, p, n) == IF p - n > 0 THEN p - n ELSE Cap(c) - (n - p)
Backward(c, p, n) == IF p - n >= 0 THEN p - n ELSE Cap(c) - (n - p)

\* stdcarr_low_copy_to_buf
Between(c, b, e) ==
  IF b <= e THEN [k \in 1..(e - b) |-> c.cells[b + k - 1]]
  ELSE [k \in 1..(Cap(c) - b + e) |-> c.cells[Forward(c, b, k - 1)]]

Contents(c) == Between(c, c.begin, c.end)

\* What lies outside is never read again.
Tidy(c) ==
  [c EXCEPT !.cells = [k \in DOMAIN @ |->
     IF (IF c.begin <= c.end THEN k >= c.begin /\ k < c.end ELSE k >= c.begin \/ k < c.end)
     THEN @[k] ELSE Junk]]

-----------------------------------------------------------------------------
(* Making room and closing gaps of d cells at place `it'.                  *)

Insert_shift_right(c, it, d) ==
  LET m == c.cells
      over == c.end + d - Cap(c)
      tail == c.end - it
      high == Cap(c) - it
      low == Move(m, d, 0, c.end)
  IN [c EXCEPT !.size = @ + d, !.end = Forward(c, @, d), !.cells =
        IF c.begin <= c.end
        THEN IF over <= 0 THEN Move(m, it + d, it, tail)
             ELSE IF tail <= over THEN Copy(m, over - tail, it, tail)
             ELSE Move(Copy(m, 0, c.end - over, over), it + d, it, tail - over)
        ELSE IF tail >= 0 THEN Move(m, it + d, it, tail)
        ELSE IF high <= d THEN Copy(low, d - high, it, high)
        ELSE Move(Copy(low, 0, Cap(c) - d, d), it + d, it, high - d)]

Insert_shift_left(c, it, d) ==
  LET m == c.cells
      under == d - c.begin
      head == it - c.begin
      high == Move(m, c.begin - d, c.begin, Cap(c) - c.begin)
  IN [c EXCEPT !.size = @ + d, !.begin = Backward(c, @, d), !.cells =
        IF c.begin <= c.end
        THEN IF under <= 0 THEN Move(m, c.begin - d, c.begin, head)
             ELSE IF head <= under THEN Copy(m, Cap(c) - under, c.begin, head)
             ELSE Move(Copy(m, Cap(c) - under, c.begin, under), 0, c.begin + under, head - under)
        ELSE IF it >= c.begin THEN Move(m, c.begin - d, c.begin, head)
        ELSE IF it <= d THEN Copy(high, Cap(c) - d, 0, it)
        ELSE Move(Copy(high, Cap(c) - d, 0, d), 0, d, it - d)]

Erase_shift_left(c, erase_end, d) ==
  LET m == c.cells
      tail == c.end - erase_end
      under == d - erase_end
      high == Cap(c) - erase_end
      m1 == Move(m, erase_end - d, erase_end, high)
      to == erase_end - d + high
  IN [c EXCEPT !.size = @ - d, !.end = Backward(c, @, d), !.cells =
        IF tail >= 0
        THEN IF under <= 0 THEN Move(m, erase_end - d, erase_end, tail)
             ELSE IF tail <= under THEN Copy(m, Cap(c) - under, erase_end, tail)
             ELSE Move(Copy(m, Cap(c) - under, erase_end, under), 0, erase_end + under, tail - under)
        ELSE IF c.end <= d THEN Copy(m1, to, 0, c.end)
        ELSE Move(Copy(m1, to, 0, d), 0, d, c.end - d)]

Erase_shift_right(c, erase_begin, d) ==
  LET m == c.cells
      head == erase_begin - c.begin
      over == erase_begin + d - Cap(c)
      high == Cap(c) - c.begin
      m1 == Move(m, d, 0, erase_begin)
  IN [c EXCEPT !.size = @ - d, !.begin = Forward(c, @, d), !.cells =
        IF head >= 0
        THEN IF over <= 0 THEN Move(m, c.begin + d, c.begin, head)
             ELSE IF over >= head THEN Copy(m, over - head, c.begin, head)
             ELSE Move(Copy(m, 0, erase_begin - over, over), c.begin + d, c.begin, head - over)
        ELSE IF high <= d THEN Copy(m1, d - high, c.begin, high)
        ELSE Move(Copy(m1, 0, Cap(c) - d, d), c.begin + d, c.begin, high - d)]

\* A new table of so many cells with the elements xs.
Table(c, cap, xs) ==
  [c EXCEPT !.cells = Written(Fresh(cap), 0, xs), !.begin = 0, !.end = Len(xs), !.size = Len(xs)]

AtLeast(n) == IF n < STDCARR_MIN_AUTO_ALLOC THEN STDCARR_MIN_AUTO_ALLOC ELSE n

\* The array with the gap, the place of the gap, and whether it was made; malloc
\* may fail.
Insert_shift(c, it, d, shift_right, nomem) ==
  IF d = 0 THEN [c |-> c, it |-> it, done |-> TRUE]
  ELSE IF c.size + d <= High_capacity(c)
  THEN IF shift_right
       THEN [c |-> Insert_shift_right(c, it, d), it |-> it, done |-> TRUE]
       ELSE [c |-> Insert_shift_left(c, it, d), it |-> Backward(c, it, d), done |-> TRUE]
  ELSE IF ~c.grow \/ nomem THEN [c |-> c, it |-> it, done |-> FALSE]
  ELSE LET before == Between(c, c.begin, it)
           gap == [k \in 1..d |-> Junk]
       IN [c |-> Table(c, AtLeast(2 * (c.size + d)), before \o gap \o Between(c, it, c.end)),
           it |-> Len(before), done |-> TRUE]

\* Where the iterator is after an erasure is not modelled: nothing says, and after
\* Erase_shift_left it is d elements past the gap.
Erase_shift(c, it, d, shift_right, nomem) ==
  LET left == c.size - d
      shrinks == c.shrink /\ left <= Low_capacity(c) /\ Cap(c) # STDCARR_MIN_AUTO_ALLOC
      from == IF shift_right THEN it ELSE Backward(c, it, d)
      to == IF shift_right THEN Forward(c, it, d) ELSE it
  IN IF d = 0 THEN c
     ELSE IF shrinks /\ ~nomem
     THEN Table(c, AtLeast(2 * left), Between(c, c.begin, from) \o Between(c, to, c.end))
     ELSE IF shift_right THEN Erase_shift_right(c, it, d) ELSE Erase_shift_left(c, it, d)

\* STDCARR_INS_SHIFT_RIGHT and STDCARR_ERS_SHIFT_RIGHT
Ins_shift_right(c, p) ==
  IF p >= c.begin THEN p - c.begin > c.size \div 2 ELSE c.end - p <= c.size \div 2
Ers_shift_right(c, p, n) ==
  IF p >= c.begin THEN p - c.begin < (c.size - n) \div 2 ELSE c.end - p >= (c.size + n) \div 2

-----------------------------------------------------------------------------
(* Iterators. *)

It(c, i) == Forward(c, c.begin, i)
It_back(c, i) == Backward(c, c.end, c.size - i)

Rank(c, p) == IF p >= c.begin THEN p - c.begin ELSE Cap(c) - c.begin + p

\* A stdssize divided by a stdsize, which makes it unsigned first.
Quotient(bytes, vsize) ==
  LET q == (bytes % 2 ^ STDSIZE_BITS) \div vsize
  IN IF q < 2 ^ (STDSIZE_BITS - 1) THEN q ELSE q - 2 ^ STDSIZE_BITS

It_cmp(c, p, q, vsize) ==
  Quotient(vsize * (IF p >= c.begin
                    THEN IF q >= c.begin THEN p - q ELSE p - Cap(c) - q
                    ELSE IF q < c.begin THEN p - q ELSE Cap(c) - q + p),
           vsize)

-----------------------------------------------------------------------------
(* The operations. *)

Becomes(c, s) == carr' = Tidy(c) /\ seq' = s

\* stdcarr_insert_n, _seq_n, _rep
Insert(i, xs) ==
  \E nomem \in BOOLEAN :
    LET it == It(carr, i)
        r == Insert_shift(carr, it, Len(xs), Ins_shift_right(carr, it), nomem)
        room == Cap(r.c) - r.it
        cells == IF room >= Len(xs) THEN Written(r.c.cells, r.it, xs)
                 ELSE Written(Written(r.c.cells, r.it, SubSeq(xs, 1, room)), 0,
                              SubSeq(xs, room + 1, Len(xs)))
    IN /\ Len(seq) + Len(xs) <= MaxSize
       /\ IF r.done
          THEN /\ Becomes([r.c EXCEPT !.cells = cells], Spliced(seq, i, 0, xs))
               /\ told' = (r.c.size = 0 \/ Rank(r.c, r.it) = i)
          ELSE UNCHANGED vars

Push_front(xs) == Insert(0, xs)
Push_back(xs) == Insert(carr.size, xs)

Erased(i, n, it, shift_right) ==
  \E nomem \in BOOLEAN :
    Becomes(Erase_shift(carr, it, n, shift_right, nomem), Spliced(seq, i, n, <<>>))
    /\ UNCHANGED told

Erase(i, n) ==
  /\ i + n <= carr.size
  /\ LET it == It(carr, i)
         shift_right == Ers_shift_right(carr, it, n)
     IN Erased(i, n, IF shift_right THEN it ELSE Forward(carr, it, n), shift_right)

Pop_front(n) == n <= carr.size /\ Erased(0, n, carr.begin, TRUE)
Pop_back(n) == n <= carr.size /\ Erased(carr.size - n, n, carr.end, FALSE)

\* The result of stdcarr_resize, for c.
Resized(c, n, nomem) ==
  IF n > c.size THEN Insert_shift(c, c.end, n - c.size, TRUE, nomem)
  ELSE [c |-> Erase_shift(c, c.end, c.size - n, FALSE, nomem), done |-> TRUE]

\* stdcarr_resize, stdcarr_clear; what is new is left unwritten, so the next
\* call of the user writes it: here it is filled at once.
Resize(n, x) ==
  \E nomem \in BOOLEAN :
    LET r == Resized(carr, n, nomem)
        filled == [r.c EXCEPT !.cells = [k \in DOMAIN @ |->
                     IF @[k] = Junk /\ Rank(r.c, k) < r.c.size THEN x ELSE @[k]]]
    IN IF r.done
       THEN Becomes(filled, [k \in 1..n |-> IF k <= Len(seq) THEN seq[k] ELSE x])
            /\ UNCHANGED told
       ELSE UNCHANGED vars

\* stdcarr_set_capacity: cuts off what does not fit.
Set_capacity(c, n) ==
  IF n = High_capacity(c) THEN c
  ELSE IF n = 0 THEN Constructed(c.grow, c.shrink)
  ELSE LET end == IF n < c.size THEN Forward(c, c.begin, n) ELSE c.end
       IN Table(c, n + 1, Between(c, c.begin, end))

SetCapacity(n) ==
  Becomes(Set_capacity(carr, n), SubSeq(seq, 1, IF n < Len(seq) THEN n ELSE Len(seq))) /\ UNCHANGED told
Reserve(n) ==
  n > High_capacity(carr) /\ SetCapacity(n)
Shrink_fit == SetCapacity(carr.size)

\* stdcarr_set_eq from another array, however that lies in its memory.
Set_eq(src) ==
  \E nomem \in BOOLEAN :
    LET r == Resized(carr, src.size, nomem)
        xs == Contents(src)
    IN IF r.done
       THEN Becomes([r.c EXCEPT !.cells = Written(@, 0, xs), !.begin = 0, !.end = Len(xs)], xs)
            /\ UNCHANGED told
       ELSE UNCHANGED vars

\* stdcarr_copy_construct, and the original destructed.
Copy_construct ==
  /\ Becomes(Table(carr, Cap(carr), Contents(carr)), seq)
  /\ UNCHANGED told

\* stdcarr_set_opts
Set_opts(grow, shrink) ==
  /\ carr' = [carr EXCEPT !.grow = grow, !.shrink = shrink]
  /\ UNCHANGED <<seq, told>>

Few == Strings(Vals, MaxAtOnce)

Others ==
  {[Table(Constructed(TRUE, TRUE), 3, <<>>) EXCEPT
      !.begin = 2, !.end = 1, !.size = 2, !.cells = (0 :> x @@ 1 :> Junk @@ 2 :> y)]
     : x, y \in Vals}

Init ==
  /\ carr \in {Constructed(grow, shrink) : grow, shrink \in BOOLEAN}
  /\ seq = <<>>
  /\ told = TRUE

Next ==
  \/ \E xs \in Few : Push_front(xs) \/ Push_back(xs) \/ \E i \in 0..carr.size : Insert(i, xs)
  \/ \E n \in 0..MaxAtOnce : Pop_front(n) \/ Pop_back(n) \/ \E i \in 0..carr.size : Erase(i, n)
  \/ \E n \in 0..MaxSize : (\E x \in Vals : Resize(n, x)) \/ SetCapacity(n) \/ Reserve(n)
  \/ Shrink_fit \/ Copy_construct
  \/ \E src \in Others : Set_eq(src)
  \/ \E grow, shrink \in BOOLEAN : Set_opts(grow, shrink)

Spec == Init /\ [][Next]_vars

-----------------------------------------------------------------------------
\* STDCARR_IS_LEGAL, and the array holds the sequence its calls have made, also
\* where it wraps around; whatever way an element is reached (advance from the
\* front, retreat from the end) it is the same place.  Places compare as their
\* ranks do (stdcarr_it_cmp) if the first is not before the second, or if an
\* element is one byte: otherwise a negative difference is divided as unsigned
\* (stdcarr.c:1377) and the first place counts as far behind the second.
IsSequence ==
  /\ carr.size < Cap(carr) \/ (carr.size = 0 /\ Cap(carr) = 0)
  /\ Cap(carr) > 0 => carr.begin < Cap(carr) /\ carr.end < Cap(carr)
  /\ carr.size = Len(seq)
  /\ Contents(carr) = seq
  /\ told
  /\ Cap(carr) > 0 =>
     \A i, j \in 0..carr.size :
       /\ It(carr, i) = It_back(carr, i)
       /\ \A vsize \in VSizes : i >= j \/ vsize = 1 =>
            It_cmp(carr, It(carr, i), It(carr, j), vsize) = i - j
=============================================================================
