--------------------------------- MODULE Slices -------------------------------
(***************************************************************************)
(* What the programs do with slices: they filter them in a loop that       *)
(* appends, sort them with Go's sort package, and add their elements up.   *)
(* Each is a loop over the elements, as a recursive function of how many   *)
(* were passed. A test and a less are given as the set of elements and of  *)
(* pairs for which they hold, so that what the loops compute can be proved *)
(* for all of them (module SliceProofs).                                   *)
(***************************************************************************)
EXTENDS Integers, SequencesExt

(* The elements that are in T, in their order.                             *)
Kept(s, T) ==
  LET kept[n \in 0 .. Len(s)] ==
        IF n = 0 THEN << >>
        ELSE IF s[n] \in T THEN Append(kept[n - 1], s[n]) ELSE kept[n - 1]
  IN kept[Len(s)]

Filter(s, Test(_)) == Kept(s, {x \in Range(s) : Test(x)})

(* One element finds its place from the right, past all that it is less    *)
(* than, as in Go's insertion sort. With a less that is an order this is   *)
(* what every stable sort gives.                                           *)
Inserted(R, s, x) ==
  LET k == Max({0} \cup {i \in DOMAIN s : <<x, s[i]>> \notin R})
  IN SubSeq(s, 1, k) \o <<x>> \o SubSeq(s, k + 1, Len(s))

SortedBy(R, s) ==
  LET sorted[n \in 0 .. Len(s)] ==
        IF n = 0 THEN << >> ELSE Inserted(R, sorted[n - 1], s[n])
  IN sorted[Len(s)]

SliceStable(less(_, _), s) ==
  SortedBy({p \in Range(s) \X Range(s) : less(p[1], p[2])}, s)

Ascending(s) == SliceStable(LAMBDA a, b : a < b, s)

(* The sum of the elements.                                                *)
Total(s) ==
  LET sum[n \in 0 .. Len(s)] == IF n = 0 THEN 0 ELSE sum[n - 1] + s[n]
  IN sum[Len(s)]
===============================================================================
