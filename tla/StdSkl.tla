------------------------------- MODULE StdSkl -------------------------------
(***************************************************************************)
(* stdutil/src/stdskl.c: a sorted multimap in a skip list.  A node is a    *)
(* number, End the end node; malloc gives the least number that is free.   *)
(* A node of height h is linked at the levels 0..h.                        *)
(***************************************************************************)
EXTENDS Containers

CONSTANTS
  Keys,          \* numbers
  Vals,
  STDSKL_MAX_HEIGHT,
  FirstHeight,   \* the height of the end node of a new list
  MaxSize,       \* bound: pairs
  MaxAtOnce      \* bound: pairs of one call

VARIABLES
  skl,    \* the stdskl: next, prev, key and val of the nodes, and size
  pairs,  \* history: how often a pair should be in the list
  astray, \* history: "size", a stdskl_erase_seq has put size wrong; "put", a put with a
          \* hint has put a pair beside one of its key; "list", a copy went by a wrong size
  told    \* the last put found its key, the last iterator was set right

vars == <<skl, pairs, astray, told>>

End == 0
Pairs == Keys \X Vals
Heights == 0..STDSKL_MAX_HEIGHT

Constructed ==
  [next |-> (End :> [lvl \in 0..FirstHeight |-> End]),
   prev |-> (End :> [lvl \in 0..FirstHeight |-> End]),
   key |-> (End :> Junk), val |-> (End :> Junk), size |-> 0]

Nodes(l) == DOMAIN l.key
Top(link, x) == Cardinality(DOMAIN link[x]) - 1

\* The node n steps on from x at the lowest level.
Steps(link, x, n) ==
  LET f[k \in 0..n] == IF k = 0 THEN x ELSE link[f[k - 1]][0] IN f[n]

\* stdskl_get: from the nearer end.
Get(l, i) ==
  IF i < l.size \div 2 THEN Steps(l.next, l.next[End][0], i) ELSE Steps(l.prev, End, l.size - i)

\* stdskl_low_find_right (side 1 along next) and stdskl_low_find_left (-1 along
\* prev): run along a level while the key is not reached, then go down to a
\* level that leads elsewhere.
Find(l, link, side, key, any) ==
  LET Past(x) == x # End /\ side * key > side * l.key[x]
      Lower(x, lvl) ==
        CHOOSE k \in 0..lvl : /\ k < lvl /\ (k = 0 \/ link[x][k] # link[x][lvl])
                              /\ \A j \in (k + 1)..(lvl - 1) : link[x][j] = link[x][lvl]
      run[p \in Nodes(l) \X Heights] ==
        IF Past(link[p[1]][p[2]]) THEN run[<<link[p[1]][p[2]], p[2]>>] ELSE p[1]
      down[p \in Nodes(l) \X Heights] ==
        LET x == run[p]
            next == link[x][p[2]]
        IN IF p[2] = 0 \/ (any /\ next # End /\ l.key[next] = key) THEN next
           ELSE down[<<x, Lower(x, p[2])>>]
      pos == down[<<End, Top(link, End)>>]
  IN [pos |-> pos, match |-> pos # End /\ l.key[pos] = key]

Find_right(l, key, any) == Find(l, l.next, 1, key, any)
Find_left(l, key, any) == Find(l, l.prev, -1, key, any)

\* stdskl_find, stdskl_lowerb, stdskl_upperb
Found(l, key) == IF Find_right(l, key, TRUE).match THEN Find_right(l, key, TRUE).pos ELSE End
Lowerb(l, key) == Find_right(l, key, FALSE).pos
Upperb(l, key) == l.next[Find_left(l, key, FALSE).pos][0]

\* From x outwards, at each level up to a height the first node that reaches it.
Climb(link, x, height) ==
  LET taller[p \in (DOMAIN link) \X Heights] ==
        IF Top(link, p[1]) = p[2] THEN taller[<<link[p[1]][p[2]], p[2]>>] ELSE p[1]
      at[lvl \in 0..height] == IF lvl = 0 THEN x ELSE taller[<<at[lvl - 1], lvl - 1>>]
  IN at

\* At its levels, the nodes of one side are linked to those of the other.
Joined(link, from, to) ==
  [x \in DOMAIN link |-> [lvl \in DOMAIN link[x] |->
     IF lvl \in DOMAIN from /\ from[lvl] = x THEN to[lvl] ELSE link[x][lvl]]]

\* stdskl_low_link_left, stdskl_low_link_right: a node of some height before pos.
MutantLinked(l, pos, node, height, pair) ==
  LET left == Climb(l.prev, l.prev[pos][0], height)
      right == Climb(l.next, pos, height)
      itself == [lvl \in 0..height |-> node]
  IN [next |-> Joined(l.next, left, itself) @@ (node :> right),
      prev |-> Joined(l.prev, [lvl \in {0} |-> right[lvl]], itself) @@ (node :> left),
      key |-> l.key @@ (node :> pair[1]), val |-> l.val @@ (node :> pair[2]), size |-> l.size + 1]
Linked(l, pos, node, height, pair) ==
  LET left == Climb(l.prev, l.prev[pos][0], height)
      right == Climb(l.next, pos, height)
      itself == [lvl \in 0..height |-> node]
  IN [next |-> Joined(l.next, left, itself) @@ (node :> right),
      prev |-> Joined(l.prev, right, itself) @@ (node :> left),
      key |-> l.key @@ (node :> pair[1]), val |-> l.val @@ (node :> pair[2]), size |-> l.size + 1]

\* stdskl_low_insert: a new end node when one of this height outgrows it.
WithEnd(l, height) ==
  LET top == IF height < STDSKL_MAX_HEIGHT THEN height + 1 ELSE height
      Raised(link) == [link EXCEPT ![End] = [lvl \in 0..top |-> IF lvl \in DOMAIN @ THEN @[lvl] ELSE End]]
  IN IF height > Top(l.next, End)
     THEN [l EXCEPT !.next = Raised(@), !.prev = Raised(@)] ELSE l

\* stdskl_low_insert: a place before which the key may stand.
Fits(l, next, key) ==
  /\ next = End \/ key <= l.key[next]
  /\ l.prev[next][0] = End \/ key >= l.key[l.prev[next][0]]

\* Where the key goes, and whether it is there: the hint, the place after it, or a search.
Place(l, hint, key) ==
  LET here == {next \in hint : Fits(l, next, key)}
      after == {next \in {l.next[n][0] : n \in hint} : Fits(l, next, key)}
      At(S) == LET next == CHOOSE n \in S : TRUE
               IN [pos |-> next, match |-> next # End /\ l.key[next] = key]
  IN IF here # {} THEN At(here) ELSE IF after # {} THEN At(after) ELSE Find_right(l, key, TRUE)

\* One round of the loop of stdskl_low_insert; s has the list, the hint, the
\* history, and whether the keys were found as they should.
Round(s, pair, height, overwrite) ==
  LET l == s.l
      at == Place(l, s.hint, pair[1])
      node == CHOOSE n \in 1..MaxSize : n \notin Nodes(l) /\ \A k \in 1..(n - 1) : k \in Nodes(l)
      there == \E v \in Vals : s.pairs[<<pair[1], v>>] > 0
  IN IF overwrite /\ at.match
     THEN [l |-> [l EXCEPT !.val[at.pos] = pair[2]], hint |-> {at.pos},
           pairs |-> [[s.pairs EXCEPT ![<<pair[1], l.val[at.pos]>>] = @ - 1] EXCEPT ![pair] = @ + 1],
           told |-> s.told /\ there, astray |-> s.astray]
     ELSE [l |-> Linked(WithEnd(l, height), at.pos, node, height, pair), hint |-> {at.pos},
           pairs |-> [s.pairs EXCEPT ![pair] = @ + 1],
           told |-> s.told /\ (s.hint = {} /\ overwrite => ~there),
           astray |-> IF overwrite /\ there THEN s.astray \cup {"put"} ELSE s.astray]

\* stdskl_low_insert of the pairs xs with heights drawn for them; a malloc that
\* fails cuts xs short.
Low_insert(l, hint, xs, heights, overwrite) ==
  LET s[k \in 0..Len(xs)] ==
        IF k = 0 THEN [l |-> l, hint |-> hint, pairs |-> pairs, told |-> TRUE, astray |-> astray]
        ELSE Round(s[k - 1], xs[k], heights[k], overwrite)
  IN s[Len(xs)]

\* stdskl_low_erase: n nodes from b on.
Low_erase(l, b, n, size) ==
  LET gone == {Steps(l.next, b, k) : k \in 0..(n - 1)}
      top == CHOOSE h \in Heights : (\A x \in gone : Top(l.next, x) <= h)
                                    /\ (h = 0 \/ \E x \in gone : Top(l.next, x) = h)
      left == Climb(l.prev, l.prev[b][0], top)
      right == Climb(l.next, Steps(l.next, b, n), top)
      Kept(f) == [x \in DOMAIN f \ gone |-> f[x]]
  IN [next |-> Kept(Joined(l.next, left, right)), prev |-> Kept(Joined(l.prev, right, left)),
      key |-> Kept(l.key), val |-> Kept(l.val), size |-> size]

\* The history without what stood in these nodes.
Less(l, gone) ==
  [p \in Pairs |-> pairs[p] - Cardinality({x \in gone : <<l.key[x], l.val[x]>> = p})]

-----------------------------------------------------------------------------
\* stdskl_put*, stdskl_insert*, with or without a hint.
Insert(hint, xs, heights, overwrite) ==
  LET s == Low_insert(skl, hint, xs, heights, overwrite)
  IN /\ Cardinality(Nodes(skl)) + Len(xs) <= MaxSize + 1 /\ "size" \notin astray
     /\ skl' = s.l /\ pairs' = s.pairs /\ told' = s.told /\ astray' = s.astray

\* stdskl_erase, stdskl_erase_n
Erase_n(b, n) ==
  /\ \A k \in 0..(n - 1) : Steps(skl.next, b, k) # End
  /\ skl' = Low_erase(skl, b, n, skl.size - n)
  /\ pairs' = Less(skl, {Steps(skl.next, b, k) : k \in 0..(n - 1)})
  /\ UNCHANGED <<astray, told>>

\* stdskl_erase_seq: size loses num_erase, which is -1, and not what was erased.
Erase_seq(b, n) ==
  /\ \A k \in 0..(n - 1) : Steps(skl.next, b, k) # End
  /\ skl' = Low_erase(skl, b, n, skl.size + 1)
  /\ pairs' = Less(skl, {Steps(skl.next, b, k) : k \in 0..(n - 1)})
  /\ astray' = astray \cup {"size"}
  /\ UNCHANGED told

\* stdskl_erase_key: from the lower bound on, one by one.
Erase_key(key) ==
  LET first == Lowerb(skl, key)
      n == CHOOSE k \in 0..MaxSize :
             /\ \A j \in 0..(k - 1) : skl.key[Steps(skl.next, first, j)] = key
             /\ skl.key[Steps(skl.next, first, k)] # key
  IN /\ n > 0
     /\ skl' = Low_erase(skl, first, n, skl.size - n)
     /\ pairs' = [p \in Pairs |-> IF p[1] = key THEN 0 ELSE pairs[p]]
     /\ UNCHANGED <<astray, told>>

\* stdskl_clear: the end node keeps its height.
Clear ==
  LET bare == [lvl \in DOMAIN skl.next[End] |-> End]
  IN /\ skl' = [Constructed EXCEPT !.next = (End :> bare), !.prev = (End :> bare)]
     /\ pairs' = [p \in Pairs |-> 0]
     /\ astray' = {}
     /\ UNCHANGED told

\* stdskl_set_eq: the copy that stdskl_copy_construct makes takes its place; here
\* of the list itself, with heights drawn anew.  It is of as many pairs as size
\* says: with a wrong size, of the unwritten pair of the end node as well.
Set_eq_strays ==
  /\ skl.size # Cardinality(Nodes(skl)) - 1
  /\ astray' = astray \cup {"list"}
  /\ UNCHANGED <<skl, pairs, told>>

Set_eq(heights) ==
  LET xs == [i \in 1..skl.size |-> LET x == Steps(skl.next, End, i) IN <<skl.key[x], skl.val[x]>>]
  IN /\ skl.size = Cardinality(Nodes(skl)) - 1
     /\ LET f[k \in 0..Len(xs)] ==
              IF k = 0 THEN [l |-> Constructed, hint |-> {}, pairs |-> pairs, told |-> TRUE, astray |-> {}]
              ELSE Round(f[k - 1], xs[k], heights[k], FALSE)
        IN skl' = f[Len(xs)].l
     /\ UNCHANGED <<pairs, astray, told>>

Init ==
  /\ skl = Constructed
  /\ pairs = [p \in Pairs |-> 0]
  /\ astray = {}
  /\ told = TRUE

Operation ==
  \/ \E n \in 1..MaxAtOnce : \E xs \in [1..n -> Pairs], height \in Heights :
       \E hint \in {{}} \cup {{x} : x \in IF n = 1 THEN Nodes(skl) ELSE {}}, overwrite \in BOOLEAN :
         Insert(hint, xs, [k \in 1..n |-> height], overwrite)
  \/ \E b \in Nodes(skl), n \in 0..MaxSize : Erase_n(b, n) \/ Erase_seq(b, n)
  \/ \E key \in Keys : Erase_key(key)
  \/ Clear
  \/ Set_eq_strays
  \/ \E height \in Heights : Set_eq([k \in 1..MaxSize |-> height])

\* Bounds: the pairs of one call draw the same height, and only a call of one pair
\* is given a hint (the next pair of a call has the one before as its hint); nothing
\* is put into a list whose size is wrong, and a list that has strayed, and
\* one whose size is more than one too many, is left alone.
Next ==
  /\ "list" \notin astray /\ skl.size <= Cardinality(Nodes(skl))
  /\ Operation

Spec == Init /\ [][Next]_vars

-----------------------------------------------------------------------------
Order(l) == [i \in 1..(Cardinality(Nodes(l)) - 1) |-> Steps(l.next, End, i)]

\* The list is in the order of its keys; at every level the nodes that reach it
\* are linked, in both directions; and a search by any level ends at the right
\* node.  It holds its pairs, a put overwriting a pair of its key if there is one,
\* until a put with a hint has found a place for a second pair of a key; and until
\* a stdskl_erase_seq (stdskl.c:514, 1045) size is the number of its pairs, and
\* stdskl_get is right.
IsMap ==
  LET nodes == Order(skl)
      Reach(lvl) == SelectSeq(nodes, LAMBDA x : Top(skl.next, x) >= lvl)
      keys == {skl.key[x] : x \in Nodes(skl) \ {End}}
  IN /\ "put" \notin astray =>
          \A p \in Pairs : pairs[p] = Cardinality({x \in Nodes(skl) : <<skl.key[x], skl.val[x]>> = p})
     /\ \A i \in 1..(Len(nodes) - 1) : skl.key[nodes[i]] <= skl.key[nodes[i + 1]]
     /\ \A lvl \in DOMAIN skl.next[End] :
          LET ring == <<End>> \o Reach(lvl) \o <<End>>
          IN \A i \in 1..(Len(ring) - 1) :
               skl.next[ring[i]][lvl] = ring[i + 1] /\ skl.prev[ring[i + 1]][lvl] = ring[i]
     /\ \A key \in Keys :
          LET first == Lowerb(skl, key)
              last == Upperb(skl, key)
          IN /\ first = Head(SelectSeq(nodes, LAMBDA x : skl.key[x] >= key) \o <<End>>)
             /\ last = Head(SelectSeq(nodes, LAMBDA x : skl.key[x] > key) \o <<End>>)
             /\ IF key \in keys THEN skl.key[Found(skl, key)] = key ELSE Found(skl, key) = End
     /\ "size" \notin astray =>
          skl.size = Len(nodes) /\ \A i \in DOMAIN nodes : Get(skl, i - 1) = nodes[i]
     /\ told

\* What the comment of stdskl_size says (stdskl.c:780).  Refuted: stdskl_erase_seq.
SizeIsNumberOfPairs == skl.size = Cardinality(Nodes(skl)) - 1
=============================================================================
