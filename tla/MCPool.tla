-------------------------------- MODULE MCPool --------------------------------
(* Two nodes, a channel of two, two probe attempts: the channel overflows, *)
(* the nodes disagree about the head and the counter robin wraps.          *)
EXTENDS Pool
===============================================================================
