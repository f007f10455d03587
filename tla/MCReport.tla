------------------------------- MODULE MCReport -------------------------------
(* Two corpus files in the order of their paths and not of their numbers, a*)
(* third of the same number as one of them, in another suite; and two EEST *)
(* files, of which the first by path is of the second suite and has two    *)
(* blocks of one label. The digits of 9 come after those of 10. The costs  *)
(* of a unit, and the sum of two, are above and below what a double has.   *)
EXTENDS ReportPage

Unit(kind, suite, label, num, path, pos) ==
  [kind |-> kind, suite |-> suite, label |-> label, num |-> num, path |-> path, pos |-> pos]

MCIdentities ==
  {Unit("corpus", 1, 7, 10, 1, 1), Unit("corpus", 1, 8, 9, 2, 1), Unit("corpus", 2, 9, 10, 3, 1),
   Unit("zkevm", 2, 5, 2, 4, 1), Unit("zkevm", 2, 5, 1, 4, 2), Unit("zkevm", 1, 6, 1, 5, 1)}

MCDecimal == 1 :> 1 @@ 10 :> 2 @@ 2 :> 3 @@ 9 :> 4

(* The locale has the two EEST labels the other way round.                 *)
MCCollated == [l \in Labels |-> 10 - l]

Fate(runErr, execErr, expected, match, out, gas, cost) ==
  [runErr |-> runErr, execErr |-> execErr, expected |-> expected, match |-> match,
   out |-> out, gas |-> gas, cost |-> cost]

MCFates ==
  {Fate("nil", FALSE, TRUE, "match", "valid", 2, 3), Fate("nil", TRUE, FALSE, "match", "invalid", 1, 2),
   Fate("nil", FALSE, FALSE, "mismatch", "valid", 0, 1), Fate("nil", FALSE, TRUE, "none", "short", 1, 7),
   Fate("missing", FALSE, TRUE, "none", "short", 0, 0), Fate("other", TRUE, TRUE, "none", "short", 1, 2)}
===============================================================================
