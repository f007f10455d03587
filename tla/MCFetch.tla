------------------------------- MODULE MCFetch --------------------------------
(* Four blocks compete for the number: one with a BAL and requests, one    *)
(* that commits to the empty BAL and to other requests, one that commits to*)
(* neither, one with a BAL and requests that no input can hold.            *)
EXTENDS Fetch

CONSTANTS a, b, c, d

MCBalOf ==
  [x \in {a, b, c, d} |->
     CASE x = a -> "bal a" [] x = b -> EmptyBal [] x = c -> "no bal" [] x = d -> "bal d"]

MCRequestsOf ==
  [x \in {a, b, c, d} |->
     CASE x = a -> <<[type |-> 0, of |-> a]>>
       [] x = b -> <<[type |-> 0, of |-> b], [type |-> 1, of |-> b]>>
       [] x = c -> <<>>
       [] x = d -> <<[type |-> 1, of |-> d], [type |-> 1, of |-> d]>>]
===============================================================================
