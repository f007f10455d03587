------------------------------ MODULE BoundedLog ------------------------------
(***************************************************************************)
(* What package store promises its users, with none of the ring: the last  *)
(* `capacity' results in insertion order, and GET /results answers with    *)
(* exactly that sequence as it is at one instant.                          *)
(***************************************************************************)
EXTENDS Naturals, Sequences

CONSTANTS Results,   \* the results Add is called with
          Readers,   \* concurrent GET /results requests
          capacity   \* how many results are kept

VARIABLES recent,    \* the kept results, oldest first
          response   \* response[r]: the last answer handler r sent

vars == <<recent, response>>

(* recent with res added and, if the log is full, the oldest forgotten.    *)
Pushed(res) == Append(IF Len(recent) < capacity THEN recent ELSE Tail(recent), res)

Init ==
  /\ recent = << >>
  /\ response = [r \in Readers |-> << >>]

Add(res) ==
  /\ recent' = Pushed(res)
  /\ UNCHANGED response

Answer(r) ==
  /\ response' = [response EXCEPT ![r] = recent]
  /\ UNCHANGED recent

Next ==
  \/ \E res \in Results : Add(res)
  \/ \E r \in Readers : Answer(r)

Spec == Init /\ [][Next]_vars
===============================================================================
