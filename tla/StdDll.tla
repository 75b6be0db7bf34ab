------------------------------- MODULE StdDll -------------------------------
(***************************************************************************)
(* stdutil/src/stddll.c: a sequence in a doubly linked ring of nodes, the  *)
(* end node among them.  A node is a number, 0 the end node; malloc gives  *)
(* the least number that is free.                                          *)
(***************************************************************************)
EXTENDS Containers

CONSTANTS
  Vals,
  MaxSize,       \* bound: elements
  MaxAtOnce      \* bound: elements of one insertion

VARIABLES
  dll,   \* the stddll: next, prev and val of the allocated nodes, and size
  seq,   \* history: the sequence the calls so far should have made
  told,  \* the last iterator was set to the right place
  astray \* history: "size", the size is no longer counted right; "list", a call went
         \* by such a size; "ended", a call read a null pointer or freed the end node

vars == <<dll, seq, told, astray>>

Constructed == [next |-> (0 :> 0), prev |-> (0 :> 0), val |-> (0 :> Junk), size |-> 0]

\* The node n steps on from a node, along next or prev.
Steps(link, node, n) ==
  LET f[k \in 0..n] == IF k = 0 THEN node ELSE link[f[k - 1]] IN f[n]

\* How many elements there are, and where the one at i is.
Length(l) == Cardinality(DOMAIN l.val) - 1
At(l, i) == Steps(l.next, l.next[0], i)

\* stddll_get: from the nearer end, by the size.
Get(l, i) ==
  IF i < l.size \div 2 THEN Steps(l.next, l.next[0], i) ELSE Steps(l.prev, 0, l.size - i)

\* stddll_low_insert with the chain of stddll_low_alloc_chain, before `next'.
Insert_chain(l, xs, next) ==
  LET free == (1..MaxSize) \ DOMAIN l.val
      first == SetToSortSeq(free, <)[1]
      node == SubSeq(SetToSortSeq(free, <), 1, Len(xs))
      last == node[Len(xs)]
      prev == l.prev[next]
      Place(x) == CHOOSE k \in DOMAIN node : node[k] = x
      chain == Range(node)
  IN [next |-> [[x \in DOMAIN l.next \cup chain |->
                   IF x \in chain \ {last} THEN node[Place(x) + 1] ELSE IF x = last THEN next
                   ELSE l.next[x]] EXCEPT ![prev] = first],
      prev |-> [[x \in DOMAIN l.prev \cup chain |->
                   IF x \in chain \ {first} THEN node[Place(x) - 1] ELSE IF x = first THEN prev
                   ELSE l.prev[x]] EXCEPT ![next] = last],
      val  |-> [x \in DOMAIN l.val \cup chain |-> IF x \in chain THEN xs[Place(x)] ELSE l.val[x]],
      size |-> l.size + Len(xs)]

Without(f, S) == [x \in DOMAIN f \ S |-> f[x]]

\* The nodes between two are freed and those two linked: what all three loops
\* that erase come to (low_erase, low_erase_seq, low_rerase).
Unlinked(l, before, after, gone, size) ==
  [next |-> [Without(l.next, gone) EXCEPT ![before] = after],
   prev |-> [Without(l.prev, gone) EXCEPT ![after] = before],
   val |-> Without(l.val, gone),
   size |-> size]

\* stddll_low_erase, stddll_low_erase_seq
Low_erase(l, node, n) ==
  Unlinked(l, l.prev[node], Steps(l.next, node, n), {Steps(l.next, node, k) : k \in 0..(n - 1)},
           l.size - n)

\* stddll_low_rerase: backwards.  The loop counts num_erase down to -1, and that
\* is what the size loses.
Low_rerase(l, node, n) ==
  Unlinked(l, Steps(l.prev, node, n + 1), node, {Steps(l.prev, node, k) : k \in 1..n}, l.size + 1)

Becomes(l, s) == dll' = l /\ seq' = s

-----------------------------------------------------------------------------
\* stddll_insert_n, _seq, _rep; a malloc that fails frees the chain again.
Insert(i, xs) ==
  /\ Len(seq) + Len(xs) <= MaxSize
  /\ IF xs = <<>> THEN UNCHANGED vars
     ELSE \/ UNCHANGED vars
          \/ LET l == Insert_chain(dll, xs, At(dll, i))
             IN /\ Becomes(l, Spliced(seq, i, 0, xs))
                /\ told' = (At(l, i) = SetToSortSeq((1..MaxSize) \ DOMAIN dll.val, <)[1])
                /\ UNCHANGED astray

Push_front(xs) == Insert(0, xs)
Push_back(xs) == Insert(Len(seq), xs)

Erase(i, n) ==
  /\ i + n <= Len(seq)
  /\ LET l == Low_erase(dll, At(dll, i), n)
     IN /\ Becomes(l, Spliced(seq, i, n, <<>>))
        /\ told' = (At(l, i) = Steps(dll.next, At(dll, i), n))
  /\ UNCHANGED astray

Pop_front(n) == Erase(0, n)
Pop_back(n) ==
  /\ n <= Len(seq)
  /\ Becomes(Low_rerase(dll, 0, n), SubSeq(seq, 1, Len(seq) - n))
  /\ astray' = astray \cup {"size"}
  /\ UNCHANGED told

\* The result of stddll_resize; what is new is left unwritten.
Resized(l, n) ==
  IF n > l.size THEN Insert_chain(l, [k \in 1..(n - l.size) |-> Junk], 0)
  ELSE IF n < l.size THEN Low_rerase(l, 0, l.size - n)
  ELSE l

\* A resize that erases more than there is frees the end node; one that grows the
\* list reads through a null pointer (src_it), which may end the program.
Past(l, n) == l.size - n > Length(l)
Ends(n) ==
  /\ Past(dll, n) \/ n > dll.size
  /\ astray' = astray \cup {"ended"}
  /\ UNCHANGED <<dll, seq, told>>

\* What it comes to otherwise.
Strays(n) ==
  /\ ~Past(dll, n)
  /\ astray' = astray \cup (IF n < dll.size THEN {"size"} ELSE {})
                      \cup (IF dll.size # Length(dll) THEN {"list"} ELSE {})

\* stddll_resize, stddll_clear; the user writes what is new at once.
Resize(n, x) ==
  /\ Strays(n)
  /\ Becomes([Resized(dll, n) EXCEPT !.val = [k \in DOMAIN @ |->
                IF k # 0 /\ @[k] = Junk THEN x ELSE @[k]]],
             [k \in 1..n |-> IF k <= Len(seq) THEN seq[k] ELSE x])
  /\ UNCHANGED told

\* stddll_set_eq from a list with the elements xs: nodes are kept.
Set_eq(xs) ==
  LET l == Resized(dll, Len(xs))
      Rank(x) == CHOOSE i \in 0..Length(l) : Steps(l.next, 0, i) = x
      From(x) == IF Rank(x) \in DOMAIN xs THEN xs[Rank(x)] ELSE Junk
  IN /\ Strays(Len(xs))
     /\ Becomes([l EXCEPT !.val = [x \in DOMAIN @ |-> IF x = 0 THEN Junk ELSE From(x)]], xs)
     /\ UNCHANGED told

Few == Strings(Vals, MaxAtOnce)

Init == dll = Constructed /\ seq = <<>> /\ told = TRUE /\ astray = {}

\* Bounds: a list that has strayed, and one whose size is two too many, is left alone.
Next ==
  /\ astray \subseteq {"size"} /\ dll.size <= Length(dll) + 2
  /\ \/ \E xs \in Few : \/ Push_front(xs) \/ Push_back(xs) \/ Set_eq(xs)
                         \/ \E i \in 0..Len(seq) : Insert(i, xs)
     \/ \E n \in 0..MaxSize :
          \/ Pop_front(n) \/ Pop_back(n) \/ Ends(n) \/ (\E i \in 0..Len(seq) : Erase(i, n))
          \/ \E x \in Vals : Resize(n, x)

Spec == Init /\ [][Next]_vars

-----------------------------------------------------------------------------
\* The list is the sequence its calls have made, from the front and from the
\* back the same nodes, no node is lost, and an iterator that is set by a call is
\* at the element it should be: unless a call went by a size that was wrong.  The
\* size is right, and stddll_get with it, until an erasure from the back.
IsSequence ==
  /\ "list" \notin astray =>
       /\ \A i \in DOMAIN seq : dll.val[At(dll, i - 1)] = seq[i]
       /\ \A i \in 0..Len(seq) : Steps(dll.next, 0, i + 1) = Steps(dll.prev, 0, Len(seq) - i)
       /\ Length(dll) = Len(seq)
       /\ told
  /\ astray = {} => dll.size = Len(seq) /\ \A i \in 0..dll.size : Get(dll, i) = At(dll, i)

\* What the comments of stddll_size and stddll_clear say (stddll.c:447, 517).  Refuted:
\* two elements, and stddll_pop_back_n of both, which leaves a size of 3.
SizeIsNumberOfElements == astray \subseteq {"size"} => dll.size = Length(dll)
=============================================================================
