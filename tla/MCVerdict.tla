------------------------------ MODULE MCVerdict -------------------------------
(* Verdict for TLC: one unit at a time, a cap of two steps, roots of one byte.      *)
EXTENDS Verdict

MCMaxStepsFlags == {0, 1, 3}
===============================================================================
