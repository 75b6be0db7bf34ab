------------------------------ MODULE StdHash ------------------------------
(***************************************************************************)
(* stdutil/src/stdhash.c: a multimap in a table with open addressing and   *)
(* double hashing.  A position is Empty or holds a node; a node that was   *)
(* erased stays, with hash code 0, until the table is made anew.           *)
(***************************************************************************)
EXTENDS Containers

CONSTANTS
  Keys,
  Vals,
  Hcode_fcn,     \* the hash code of every key
  HcodeBits,     \* the width of a hash code
  STDHASH_MIN_AUTO_ALLOC,
  Empty,
  MaxSize,       \* bound: pairs
  MaxAtOnce      \* bound: pairs of one call

VARIABLES
  hash,   \* the stdhash
  pairs,  \* history: how often a pair should be in the table
  astray, \* history: a put that only overwrote has counted in size
  told    \* the last put found its key, the last iterator was set right

vars == <<hash, pairs, astray, told>>

Pairs == Keys \X Vals
Inactive == 0

\* What is left in an erased node is never read.
Erased_node == [hcode |-> Inactive, key |-> Junk, val |-> Junk]

Constructed(grow, shrink) ==
  [table |-> Fresh(0), begin |-> 0, num_nodes |-> 0, size |-> 0, grow |-> grow, shrink |-> shrink]

\* A null pointer table has cap_min1 of -1: no positions.
Cap(h) == Cardinality(DOMAIN h.table)
High_thresh(h) == Cap(h) \div 2
Low_thresh(h) == Cap(h) \div 8

\* stdhash_low_hcode: 0 is kept for inactive nodes.
Hcode(key) == IF Hcode_fcn[key] = Inactive THEN 1 ELSE Hcode_fcn[key]

Up_pow2(x) == CHOOSE p \in {1, 2, 4, 8, 16, 32} : p >= x /\ (p = 1 \/ p \div 2 < x)

\* stdpow2_cap, with the shift of stdhash_low_rehash.
Good_cap(request) ==
  LET least == IF request < STDHASH_MIN_AUTO_ALLOC THEN STDHASH_MIN_AUTO_ALLOC ELSE request
      p == Up_pow2(least)
  IN 2 * (IF p < least + least \div 2 THEN 2 * p ELSE p)

\* stdhash_low_hash: the low bits of the hash code are the first place, the high
\* ones the step, made odd.
Lg(cap) == CHOOSE k \in 0..HcodeBits : 2 ^ k = cap
H1(hcode, cap) == hcode % cap
H2(hcode, cap) == LET high == hcode \div 2 ^ (HcodeBits - Lg(cap))
                  IN IF high % 2 = 0 THEN high + 1 ELSE high

\* The n-th place of the search for a hash code.
Probe(hcode, cap, n) == (H1(hcode, cap) + n * H2(hcode, cap)) % cap

Active(node) == node # Empty /\ node.hcode # Inactive

\* stdhash_low_next; the end of the table is its capacity.
Next_pos(table, p) ==
  LET n == Cardinality(DOMAIN table)
  IN CHOOSE q \in (p + 1)..n : /\ q = n \/ Active(table[q])
                               /\ \A r \in (p + 1)..(q - 1) : ~Active(table[r])

\* stdhash_low_prev
Prev_pos(table, p) ==
  CHOOSE q \in 0..(p - 1) : Active(table[q]) /\ \A r \in (q + 1)..(p - 1) : ~Active(table[r])

\* stdhash_get: from the nearer end.
Get(h, i) ==
  LET right[k \in 0..i] == IF k = 0 THEN h.begin ELSE Next_pos(h.table, right[k - 1])
      left[k \in 0..(h.size - i)] == IF k = 0 THEN Cap(h) ELSE Prev_pos(h.table, left[k - 1])
  IN IF i <= h.size \div 2 THEN right[i] ELSE left[h.size - i]

\* The first place of a search that is empty or where it stops; the load is
\* below the capacity, so there is one.
Search(table, hcode, Stop) ==
  LET cap == Cardinality(DOMAIN table)
      n == CHOOSE k \in 0..(cap - 1) :
             /\ Probe(hcode, cap, k) \in Stop
             /\ \A j \in 0..(k - 1) : Probe(hcode, cap, j) \notin Stop
  IN Probe(hcode, cap, n)

Empties(table) == {p \in DOMAIN table : table[p] = Empty}
Matches(table, key) == {p \in DOMAIN table : table[p] # Empty /\ table[p].hcode = Hcode(key) /\ table[p].key = key}

\* stdhash_low_find: for a match, or for a hole.
Low_find(h, find_match, key) ==
  Search(h.table, Hcode(key), Empties(h.table) \cup
         (IF find_match THEN Matches(h.table, key)
          ELSE {p \in DOMAIN h.table : ~Active(h.table[p])}))

\* stdhash_find
Found(h, key) ==
  IF h.size = 0 THEN Cap(h)
  ELSE LET p == Low_find(h, TRUE, key) IN IF h.table[p] = Empty THEN Cap(h) ELSE p

\* stdhash_keyed_next, stdhash_keyed_prev: along the search of the key, the next
\* match, and the one before; the end when there is none.
Rank(h, p) ==
  CHOOSE n \in 0..(Cap(h) - 1) : Probe(h.table[p].hcode, Cap(h), n) = p
Keyed_next(h, p) ==
  LET At(n) == Probe(h.table[p].hcode, Cap(h), n)
      n == CHOOSE k \in (Rank(h, p) + 1)..(Rank(h, p) + Cap(h)) :
             LET Stop(j) == h.table[At(j)] = Empty \/ At(j) \in Matches(h.table, h.table[p].key)
             IN Stop(k) /\ \A j \in (Rank(h, p) + 1)..(k - 1) : ~Stop(j)
  IN IF h.table[At(n)] = Empty THEN Cap(h) ELSE At(n)
Keyed_prev(h, p) ==
  LET At(n) == Probe(h.table[p].hcode, Cap(h), n)
      before == {k \in 0..(Rank(h, p) - 1) : At(k) \in Matches(h.table, h.table[p].key)}
  IN IF before = {} THEN Cap(h) ELSE At(CHOOSE k \in before : \A j \in before : j <= k)

\* stdhash_low_rehash: the active nodes, in the order of the table, into a new one.
Rehashed(h, request) ==
  LET cap == Good_cap(request)
      old == SelectSeq([k \in 1..Cap(h) |-> h.table[k - 1]], LAMBDA node : Active(node))
      table[k \in 0..Len(old)] ==
        IF k = 0 THEN [p \in 0..(cap - 1) |-> Empty]
        ELSE [table[k - 1] EXCEPT ![Search(table[k - 1], old[k].hcode, Empties(table[k - 1]))] = old[k]]
  IN [h EXCEPT !.table = table[Len(old)], !.num_nodes = h.size,
               !.begin = IF h.size # 0 THEN Next_pos(table[Len(old)], -1) ELSE cap]

\* The table may be made smaller: few enough pairs are left.  The allocation may fail.
Shrinks(h, nomem) ==
  h.shrink /\ Cap(h) # STDHASH_MIN_AUTO_ALLOC /\ h.size <= Low_thresh(h) /\ ~nomem

\* One round of the loop of stdhash_low_insert.
Round(s, pair, overwrite, nomem) ==
  LET full == s.h.num_nodes >= High_thresh(s.h)
      h == IF full THEN Rehashed(s.h, s.h.size + 1) ELSE s.h
      p == Low_find(h, overwrite, pair[1])
      old == h.table[p]
      replaced == old # Empty /\ overwrite
      there == \E v \in Vals : s.pairs[<<pair[1], v>>] > 0
  IN IF full /\ (~h.grow \/ nomem) THEN [s EXCEPT !.done = FALSE]
     ELSE [h |-> [h EXCEPT !.table[p] = [hcode |-> Hcode(pair[1]), key |-> pair[1], val |-> pair[2]],
                           !.num_nodes = IF old = Empty THEN @ + 1 ELSE @,
                           !.size = @ + 1,
                           !.begin = IF p < @ THEN p ELSE @],
           pairs |-> [[s.pairs EXCEPT ![IF replaced THEN <<pair[1], old.val>> ELSE pair] =
                         IF replaced THEN @ - 1 ELSE @] EXCEPT ![pair] = @ + 1],
           astray |-> s.astray \/ replaced,
           told |-> s.told /\ (overwrite => (replaced <=> there)),
           done |-> TRUE]

\* stdhash_low_insert of the pairs xs; it stops where the table may not grow.
Low_insert(h, xs, overwrite, nomem) ==
  LET s[k \in 0..Len(xs)] ==
        IF k = 0 THEN [h |-> h, pairs |-> pairs, astray |-> astray, told |-> TRUE, done |-> TRUE]
        ELSE IF s[k - 1].done THEN Round(s[k - 1], xs[k], overwrite, nomem) ELSE s[k - 1]
  IN s[Len(xs)]

\* stdhash_erase: the node stays, and the rest is as before unless the table
\* is made smaller.
MutantErased(h, p, nomem) ==
  LET g == [h EXCEPT !.table[p] = Erased_node, !.size = @ - 1]
  IN IF Shrinks(g, nomem) THEN Rehashed(g, g.size) ELSE g
Erased(h, p, nomem) ==
  LET g == [h EXCEPT !.table[p] = Erased_node, !.size = @ - 1,
                     !.begin = IF p = @ THEN Next_pos(h.table, p) ELSE @]
  IN IF Shrinks(g, nomem) THEN Rehashed(g, g.size) ELSE g

Becomes(h, s) == hash' = h /\ pairs' = s

-----------------------------------------------------------------------------
\* stdhash_insert*, stdhash_put* (overwrite).
Insert(xs, overwrite) ==
  \E nomem \in BOOLEAN :
    LET s == Low_insert(hash, xs, overwrite, nomem)
    IN /\ hash.size + Len(xs) <= MaxSize
       /\ Becomes(s.h, s.pairs) /\ astray' = s.astray /\ told' = s.told

\* stdhash_erase at the place p; the iterator goes on to the next pair, or to
\* the first one when the table is new.
Erase(p) ==
  \E nomem \in BOOLEAN :
    LET h == Erased(hash, p, nomem)
        pair == <<hash.table[p].key, hash.table[p].val>>
    IN /\ Becomes(h, [pairs EXCEPT ![pair] = @ - 1])
       /\ UNCHANGED <<astray, told>>

\* stdhash_erase_key: until the key is not found any more.
Erase_key(key) ==
  \E nomem \in BOOLEAN :
    LET h[k \in 0..Cap(hash)] ==
          IF k = 0 THEN hash
          ELSE LET g == h[k - 1]
                   p == Found(g, key)
               IN IF p = Cap(g) THEN g ELSE Erased(g, p, nomem)
    IN /\ Becomes(h[Cap(hash)], [p \in Pairs |-> IF p[1] = key THEN 0 ELSE pairs[p]])
       /\ UNCHANGED <<astray, told>>

\* stdhash_low_clear leaves a table without nodes as it is.
Cleared(h) ==
  IF h.num_nodes = 0 THEN h
  ELSE [h EXCEPT !.table = [p \in DOMAIN @ |-> Empty], !.begin = Cap(h), !.num_nodes = 0, !.size = 0]

\* stdhash_clear
Clear ==
  \E nomem \in BOOLEAN :
    LET h == Cleared(hash)
    IN /\ Becomes(IF Shrinks(h, nomem) THEN Rehashed(h, h.size) ELSE h, [p \in Pairs |-> 0])
       /\ astray' = FALSE
       /\ UNCHANGED told

\* stdhash_rehash, stdhash_reserve
Rehash(request) ==
  /\ request = hash.size \/ request > High_thresh(hash)
  /\ Becomes(Rehashed(hash, request), pairs) /\ UNCHANGED <<astray, told>>

\* stdhash_set_opts
Set_opts(grow, shrink) ==
  /\ Becomes([hash EXCEPT !.grow = grow, !.shrink = shrink], pairs)
  /\ UNCHANGED <<astray, told>>

Init ==
  /\ hash \in {Constructed(grow, shrink) : grow, shrink \in BOOLEAN}
  /\ pairs = [p \in Pairs |-> 0]
  /\ astray = FALSE
  /\ told = TRUE

Next ==
  \/ \E n \in 1..MaxAtOnce : \E xs \in [1..n -> Pairs], overwrite \in BOOLEAN : Insert(xs, overwrite)
  \/ \E p \in {q \in DOMAIN hash.table : Active(hash.table[q])} : Erase(p)
  \/ \E key \in Keys : Erase_key(key)
  \/ Clear
  \/ \E request \in 0..MaxSize : request >= hash.size /\ Rehash(request)
  \/ \E grow, shrink \in BOOLEAN : Set_opts(grow, shrink)

Spec == Init /\ [][Next]_vars

-----------------------------------------------------------------------------
\* The table holds its pairs, an end of every search is left, every pair is on
\* the search for its key with no empty place before it, the pairs of a key are
\* met one after the other in both directions, and a put that overwrites keeps
\* the number of pairs.  Until such a put size counts the pairs, a table is legal
\* (STDHASH_IS_LEGAL) and stdhash_get meets every pair; after it size is too
\* large until the table is cleared (stdhash.c:512).
IsMap ==
  LET at == {p \in DOMAIN hash.table : Active(hash.table[p])}
      Count(p) == Cardinality({q \in at : <<hash.table[q].key, hash.table[q].val>> = p})
      Of(key) == {q \in at : hash.table[q].key = key}
  IN /\ \A p \in Pairs : pairs[p] = Count(p)
     /\ Cardinality(DOMAIN hash.table \ Empties(hash.table)) <= hash.num_nodes
     /\ DOMAIN hash.table # {} => Empties(hash.table) # {} /\ hash.begin = Next_pos(hash.table, -1)
     /\ \A key \in Keys :
          IF Of(key) = {} THEN DOMAIN hash.table # {} => Found(hash, key) = Cap(hash)
          ELSE LET walk[k \in 1..Cardinality(Of(key))] ==
                     IF k = 1 THEN Found(hash, key) ELSE Keyed_next(hash, walk[k - 1])
               IN /\ Range(walk) = Of(key)
                  /\ Keyed_next(hash, walk[Len(walk)]) = Cap(hash)
                  /\ Keyed_prev(hash, walk[1]) = Cap(hash)
                  /\ \A k \in 2..Len(walk) : Keyed_prev(hash, walk[k]) = walk[k - 1]
     /\ ~astray =>
          /\ hash.size = Cardinality(at) /\ hash.size <= hash.num_nodes
          /\ \A i \in 0..(hash.size - 1) :
               Get(hash, i) \in at /\ Cardinality({q \in at : q < Get(hash, i)}) = i
     /\ told

\* What the comment of stdhash_size says (stdhash.c:905), and the bound on it in
\* STDHASH_IS_LEGAL.  Refuted: a stdhash_put over the pair of a key counts it again.
SizeIsNumberOfPairs ==
  hash.size = Cardinality({p \in DOMAIN hash.table : Active(hash.table[p])})
=============================================================================
