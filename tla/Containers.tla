----------------------------- MODULE Containers -----------------------------
(***************************************************************************)
(* What the containers of stdutil (src/spread-src-4.0.0/stdutil) promise:  *)
(* a sequence or a map, whatever the memory under it looks like; and the   *)
(* memory itself, an array of cells with memcpy and memmove.               *)
(***************************************************************************)
EXTENDS Integers, Sequences, FiniteSets, SequencesExt, TLC

CONSTANT Junk    \* a cell that was never written, or is no longer in use

\* s with the n elements after its first i replaced by xs.
Spliced(s, i, n, xs) == SubSeq(s, 1, i) \o xs \o SubSeq(s, i + n + 1, Len(s))

\* Memory of so many cells, fresh from malloc.
Fresh(cap) == [k \in 0..(cap - 1) |-> Junk]

\* memmove(dst, src, n) within one array; what goes past its ends or has a
\* negative length ruins it.
Move(cells, dst, src, n) ==
  IF n = 0 THEN cells
  ELSE IF n > 0 /\ {dst, dst + n - 1, src, src + n - 1} \subseteq DOMAIN cells
  THEN [k \in DOMAIN cells |-> IF k \in dst..(dst + n - 1) THEN cells[src + k - dst] ELSE cells[k]]
  ELSE [k \in DOMAIN cells |-> Junk]

\* memcpy(dst, src, n) within one array: the two parts must be apart.
Copy(cells, dst, src, n) ==
  IF n <= 0 \/ dst + n <= src \/ src + n <= dst THEN Move(cells, dst, src, n)
  ELSE [k \in DOMAIN cells |-> Junk]

\* Memory with the elements xs written from place p on.
Written(cells, p, xs) ==
  [k \in DOMAIN cells |-> IF k \in p..(p + Len(xs) - 1) THEN xs[k - p + 1] ELSE cells[k]]

\* The elements of size m.
Strings(Vals, m) == UNION {[1..n -> Vals] : n \in 0..m}
=============================================================================
