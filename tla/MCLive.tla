-------------------------------- MODULE MCLive --------------------------------
(* A channel of one, and a store smaller than the results of the run, so   *)
(* heads are dropped and results evicted. The guests are interchangeable.  *)
EXTENDS Live, TLC

Symmetry == Permutations(Guests)
===============================================================================
