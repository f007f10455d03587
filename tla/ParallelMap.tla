------------------------------ MODULE ParallelMap -----------------------------
(***************************************************************************)
(* What the worker loops of bench (src/bench/run.go, runAll) and of        *)
(* zkevm-runner (src/cmd/zkevm-runner/main.go, main) promise: items 1 to   *)
(* `size' are handled, each once and at most `limit' at a time, in         *)
(* whatever order; when all are there, and not before, they are handed on, *)
(* each at its own place. The item is a file for bench and a block for     *)
(* zkevm-runner.                                                           *)
(***************************************************************************)
EXTENDS Integers, FiniteSets

VARIABLES size,     \* how many items there are
          limit,    \* the number of tokens; never changes
          active,   \* the items being handled
          value,    \* value[i]: what handled item i gave
          answered, \* all have been handed on
          answer    \* what was handed on, nothing before

vars == <<size, limit, active, value, answered, answer>>

Nothing == [i \in {} |-> i]

Items == 1 .. size

Init ==
  /\ size \in Nat
  /\ limit \in Int
  /\ active = {}
  /\ value = Nothing
  /\ answered = FALSE
  /\ answer = Nothing

(* The items become known before the first of them is handled.             *)
List ==
  /\ active = {} /\ value = Nothing /\ ~answered
  /\ size' \in Nat
  /\ UNCHANGED <<limit, active, value, answered, answer>>

Start(i) ==
  /\ i \notin active \cup DOMAIN value
  /\ Cardinality(active) < limit
  /\ active' = active \cup {i}
  /\ UNCHANGED <<size, limit, value, answered, answer>>

Finish(i) ==
  /\ i \in active
  /\ active' = active \ {i}
  /\ DOMAIN value' = DOMAIN value \cup {i}
  /\ \A j \in DOMAIN value : value'[j] = value[j]
  /\ UNCHANGED <<size, limit, answered, answer>>

Return ==
  /\ ~answered
  /\ DOMAIN value = Items
  /\ answered' = TRUE
  /\ answer' = value
  /\ UNCHANGED <<size, limit, active, value>>

Next == List \/ (\E i \in Items : Start(i) \/ Finish(i)) \/ Return

Spec == Init /\ [][Next]_vars
===============================================================================
