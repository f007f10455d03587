----------------------------- MODULE MCRingBuffer -----------------------------
(* RingBuffer with a ring of three slots and results that can be told apart,*)
(* so the head wraps and old results are overwritten.                      *)
EXTENDS RingBuffer
===============================================================================
