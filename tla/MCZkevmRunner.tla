---------------------------- MODULE MCZkevmRunner -----------------------------
(* A tree whose root has a name that begins with a dot (as "." does), with *)
(* a hidden directory, a directory a and one whose name, a-, comes after a *)
(* in the walk but whose paths come before those of a. The tests of a/1 and*)
(* a-/2 have the same name when they are cut off.                          *)
EXTENDS ZkevmRunner

MCFiles == {"h", "a/0.txt", "a/1", "a/3", "a-/2"}

MCAbove == [e \in {"root", ".d", "a", "a-"} \cup MCFiles |->
  CASE e = "root" -> {}
    [] e \in {".d", "a", "a-"} -> {"root"}
    [] e = "h" -> {"root", ".d"}
    [] e \in {"a/0.txt", "a/1", "a/3"} -> {"root", "a"}
    [] e = "a-/2" -> {"root", "a-"}]

MCWalkOrder == <<"root", ".d", "h", "a", "a/0.txt", "a/1", "a/3", "a-", "a-/2">>
MCPathRank  == [f \in MCFiles |->
  CASE f = "h" -> 1 [] f = "a-/2" -> 2 [] f = "a/0.txt" -> 3 [] f = "a/1" -> 4 [] f = "a/3" -> 5]

File(format, seen, blocks) == [format |-> format, seen |-> seen, blocks |-> blocks]

MCMayHold == [f \in MCFiles |->
  CASE f = "h" -> {Absent, File("other", {"blocks"}, 0)}
    [] f = "a/0.txt" -> {Absent, File("corpus", {"stateless_input"}, 1)}
    [] f = "a/1" -> {Locked, File("other", {"blocks"}, 0), File("corpus", {"stateless_input"}, 1),
                     File("zkevm", {"genesisBlockHeader", "blocks"}, 2)}
    [] f = "a/3" -> {Absent, File("corpus", {"stateless_input"}, 1)}
    [] f = "a-/2" -> {Absent, File("other", {}, 0), File("corpus", {"stateless_input"}, 1),
                      File("zkevm", {"statelessInputBytes"}, 1), File("zkevm", {}, 1)}]

MCUnreadables == {{}, {"root"}, {".d"}, {"a"}}

Opts(target, j, elf, dryRun, dumpDir, rep) ==
  [target |-> target, jobs |-> j, elf |-> elf, dryRun |-> dryRun, dumpDir |-> dumpDir, report |-> rep]

MCBenchOpts ==
  {Opts("zisk", 1, "found", FALSE, FALSE, TRUE), Opts("openvm", 1, "found", FALSE, FALSE, TRUE),
   Opts("zisk", 1, "none", TRUE, FALSE, TRUE), Opts("zisk", 0, "none", TRUE, FALSE, TRUE),
   Opts("zisk", 1, "missing", FALSE, FALSE, TRUE), Opts("unknown", 1, "found", FALSE, FALSE, TRUE)}

MCRunnerOpts ==
  {Opts("zisk", 2, "found", FALSE, FALSE, TRUE), Opts("zisk", 2, "none", FALSE, TRUE, FALSE),
   Opts("zisk", 0, "found", FALSE, FALSE, FALSE), Opts("zisk", -1, "found", FALSE, FALSE, FALSE),
   Opts("zisk", 1, "none", FALSE, FALSE, FALSE), Opts("zisk", 1, "missing", FALSE, TRUE, FALSE)}

MCTestName == [f \in MCFiles |-> IF f = "a/1" THEN "x/t" ELSE "y/t"]
MCNameRank == [n \in {"x/t", "y/t"} |-> IF n = "x/t" THEN 1 ELSE 2]
MCSafeBase == [n \in {"x/t", "y/t"} |-> "t"]
===============================================================================
