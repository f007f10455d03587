------------------------------ MODULE ZkevmRunner -----------------------------
(***************************************************************************)
(* The program zkevm-runner (src/cmd/zkevm-runner/main.go) after its files *)
(* are found (module Discover): it expands them into items, one for each   *)
(* block, runs or dumps them in goroutines that a channel `sem' of -jobs   *)
(* places holds back, and adds the results up three times: in the progress *)
(* lines, in the summary and in the HTML report.                           *)
(***************************************************************************)
EXTENDS Discover

CONSTANTS Names,       \* names of test cases
          TestName,    \* TestName[f]: that of the test case in f
          NameRank,    \* NameRank[n]: n's place in the order of strings
          SafeBase     \* SafeBase[n]: n's last part, made safe and cut off

ASSUME RunnerAssumption ==
  /\ TestName \in [Files -> Names]
  /\ NameRank \in [Names -> Nat]
  /\ \A m, n \in Names : NameRank[m] = NameRank[n] => m = n
  /\ DOMAIN SafeBase = Names

(* The work items, in the order of the paths. LoadZkevmFile fails for a    *)
(* file that it cannot read or parse, which is skipped as a whole, and     *)
(* finds no block in JSON of another kind. A test case of several blocks   *)
(* gives each a name of its own.                                           *)
Expanded ==
  LET Blocks(f) == IF disk[f].format = "zkevm" THEN disk[f].blocks ELSE 0
      Item(f, b) == [test |-> TestName[f], file |-> f, block |-> b,
                     name |-> <<NameRank[TestName[f]], IF Blocks(f) > 1 THEN b ELSE 0>>]
      Add(s, f)  == s \o [b \in 1 .. Blocks(f) |-> Item(f, b)]
  IN FoldLeft(Add, << >>, paths)

Bound == 1 .. Cardinality(Files) * MaxBlocks   \* bound: items of one run

(* What runOne or dumpOne comes to, as module Verdict has it: the error and*)
(* whether the output is the one expected. A dump compares nothing: it has *)
(* no output, so that only an item without expected output matches.        *)
Outcomes == [err : {"nil"}, match : BOOLEAN] \cup [err : {"missing input", "other"}, match : {FALSE}]

None == [err |-> "nil", match |-> FALSE, ok |-> FALSE]   \* TestResult{}

VARIABLES items,     \* the work items
          started,   \* items handed to a goroutine
          sem, wg, done,
          worker,    \* worker[i]: where i's goroutine is
          outcome,   \* outcome[i]: what its run gave
          lines,     \* lines[k]: how many progress lines with status k were printed
          results,   \* results[i]: [err, match, ok] and, with it, whose it is
          rows,      \* results as printSummary has sorted them
          summary,   \* what printSummary counted
          report,    \* what writeReport counted
          dumps,     \* the files in the dump directory and what they hold
          exit       \* the exit status, -1 before

runnerVars == <<items, started, sem, wg, done, worker, outcome, lines, results, rows, summary, report,
                dumps, exit>>
vars == <<discoverVars, runnerVars>>

NumItems == Len(items)

Classes == {"passed", "failed", "errored", "skipped"}
NoCount == [k \in Classes |-> 0]

Init ==
  /\ DiscoverInit
  /\ items = << >> /\ started = 0 /\ sem = 0 /\ wg = 0 /\ done = 0
  /\ worker = [i \in Bound |-> "none"]
  /\ outcome = [i \in Bound |-> None]
  /\ lines = NoCount
  /\ results = << >>
  /\ rows = << >>
  /\ summary = NoCount
  /\ report = NoCount
  /\ dumps = << >>
  /\ exit = -1

(* Discovery, and its fatal exits.                                         *)
Discovers ==
  /\ DiscoverNext
  /\ exit' = CASE pc' = "fatal" -> 1 [] pc' = "done" -> 0 [] OTHER -> exit
  /\ UNCHANGED <<items, started, sem, wg, done, worker, outcome, lines, results, rows, summary, report,
                 dumps>>

-------------------------------------------------------------------------------
(* main, up to the loop                                                    *)

(* The dump directory cannot be made, or there is no block in any file.    *)
LoadFails ==
  /\ pc = "load"
  /\ opts.dumpDir \/ Expanded = << >>
  /\ pc' = "end"
  /\ exit' = 1
  /\ UNCHANGED <<treeVars, cursor, pruned, jobs, skipped, paths, census, items, started, sem, wg,
                 done, worker, outcome, lines, results, rows, summary, report, dumps>>

(* There are items, within their bound; make(chan struct{}, -1) panics.    *)
Load ==
  /\ pc = "load"
  /\ Len(Expanded) \in Bound
  /\ items' = Expanded
  /\ results' = [i \in 1 .. Len(items') |-> None]
  /\ pc' = IF opts.jobs < 0 THEN "end" ELSE "loop"
  /\ exit' = IF opts.jobs < 0 THEN 2 ELSE exit
  /\ UNCHANGED <<treeVars, cursor, pruned, jobs, skipped, paths, census, started, sem, wg, done,
                 worker, outcome, lines, rows, summary, report, dumps>>

-------------------------------------------------------------------------------
(* An item's goroutine                                                     *)

Moves(i, from, to) == worker[i] = from /\ worker' = [worker EXCEPT ![i] = to]

DestOfName(i) == <<SafeBase[items[i].test], 0>>

(* dumpOne's dest: the index keeps apart what the shortened names do not.  *)
Dest(i) == <<SafeBase[items[i].test], i>>

Dumped(i, what) ==
  [d \in DOMAIN dumps \cup {Dest(i)} |-> IF d = Dest(i) THEN what ELSE dumps[d]]

(* validationOK                                                            *)
Judged(o) == [err |-> o.err, match |-> o.match,
              ok  |-> opts.dumpDir \/ (o.err = "nil" /\ o.match)]

RunItemRetrying(i) ==
  /\ worker[i] = "run"
  /\ IF outcome[i].err = "other"
       THEN outcome' = [outcome EXCEPT ![i] = None] /\ UNCHANGED <<worker, dumps>>
       ELSE \E o \in Outcomes :
              /\ outcome' = [outcome EXCEPT ![i] = Judged(o)]
              /\ worker' = [worker EXCEPT ![i] = IF o.err = "other" THEN "run" ELSE "count"]
              /\ dumps' = IF opts.dumpDir /\ o.err = "nil" THEN Dumped(i, i) ELSE dumps
  /\ UNCHANGED <<discoverVars, items, started, sem, wg, done, lines, results, rows, summary, report, exit>>

(* runOne or dumpOne. dumpOne writes the input to a file named after the   *)
(* test and the index; when writing fails, a part of it may be there.      *)
RunItem(i) ==
  /\ Moves(i, "run", "count")
  /\ \E o \in Outcomes :
       /\ outcome' = [outcome EXCEPT ![i] = Judged(o)]
       /\ \/ dumps' = Dumped(i, i)  /\ opts.dumpDir /\ o.err = "nil"
          \/ dumps' = Dumped(i, 0)  /\ opts.dumpDir /\ o.err = "other"
          \/ dumps' = dumps         /\ ~(opts.dumpDir /\ o.err = "nil")
  /\ UNCHANGED <<discoverVars, items, started, sem, wg, done, lines, results, rows, summary, report, exit>>

(* The status on the progress line.                                        *)
Status(r) ==
  CASE r.err = "missing input"                -> "skipped"
    [] r.err \notin {"nil", "missing input"}  -> "errored"
    [] r.err = "nil" /\ ~r.ok                 -> "failed"
    [] OTHER                                  -> "passed"

(* n := done.Add(1), the progress line, and the guest's output under logMu.*)
CountItem(i) ==
  /\ Moves(i, "count", "store")
  /\ done' = done + 1
  /\ lines' = [lines EXCEPT ![Status(outcome[i])] = @ + 1]
  /\ UNCHANGED <<discoverVars, items, started, sem, wg, outcome, results, rows, summary, report, dumps, exit>>

StoreItemAtLast(i) ==
  /\ Moves(i, "store", "release")
  /\ results' = [results EXCEPT ![started] = outcome[i]]
  /\ UNCHANGED <<discoverVars, items, started, sem, wg, done, outcome, lines, rows, summary, report, dumps,
                 exit>>

(* results[idx] = ...                                                      *)
StoreItem(i) ==
  /\ Moves(i, "store", "release")
  /\ results' = [results EXCEPT ![i] = outcome[i]]
  /\ UNCHANGED <<discoverVars, items, started, sem, wg, done, outcome, lines, rows, summary, report, dumps,
                 exit>>

ReleaseItemIfRun(i) ==
  /\ Moves(i, "release", "leave")
  /\ sem' = IF outcome[i].err = "missing input" THEN sem ELSE sem - 1
  /\ UNCHANGED <<discoverVars, items, started, wg, done, outcome, lines, results, rows, summary, report,
                 dumps, exit>>

(* The deferred calls: <-sem, then wg.Done().                              *)
ReleaseItem(i) ==
  /\ Moves(i, "release", "leave")
  /\ sem' = sem - 1
  /\ UNCHANGED <<discoverVars, items, started, wg, done, outcome, lines, results, rows, summary, report,
                 dumps, exit>>

LeaveItem(i) ==
  /\ Moves(i, "leave", "left")
  /\ wg' = wg - 1
  /\ UNCHANGED <<discoverVars, items, started, sem, done, outcome, lines, results, rows, summary, report,
                 dumps, exit>>

-------------------------------------------------------------------------------
(* main's loop and what follows it                                         *)

(* wg.Add(1), a send to sem that waits for a place, and the go statement.  *)
StartItem ==
  /\ pc = "loop" /\ started < NumItems
  /\ sem < opts.jobs
  /\ sem' = sem + 1
  /\ wg' = wg + 1
  /\ started' = started + 1
  /\ worker' = [worker EXCEPT ![started + 1] = "run"]
  /\ UNCHANGED <<discoverVars, items, done, outcome, lines, results, rows, summary, report, dumps, exit>>

Busy(i) == worker[i] \in {"run", "count", "store", "release", "leave"}

(* main waits, for a place in sem or for wg, and no goroutine is left that *)
(* could end its wait: Go's runtime ends such a program. With -jobs 0 the  *)
(* first send is of this kind.                                             *)
AllAsleep ==
  /\ pc = "loop"
  /\ \/ started < NumItems /\ sem >= opts.jobs
     \/ started = NumItems /\ wg > 0
  /\ \A i \in Bound : ~Busy(i)
  /\ pc' = "end"
  /\ exit' = 2
  /\ UNCHANGED <<treeVars, cursor, pruned, jobs, skipped, paths, census, items, started, sem, wg, done,
                 worker, outcome, lines, results, rows, summary, report, dumps>>

Count(rs, class(_)) ==
  [k \in Classes |-> Cardinality({i \in DOMAIN rs : class(rs[i]) = k})]

SummaryClass(r) ==
  CASE r.err = "missing input"                -> "skipped"
    [] r.err \notin {"nil", "missing input"}  -> "errored"
    [] r.err = "nil" /\ r.ok                  -> "passed"
    [] OTHER                                  -> "failed"

Before(x, y) == x[1] < y[1] \/ (x[1] = y[1] /\ x[2] < y[2])

(* The orders that sort.Slice may leave: sorted by name, equal names in any*)
(* order.                                                                  *)
SortedByName ==
  {p \in [1 .. NumItems -> 1 .. NumItems] :
     /\ IsInjective(p)
     /\ \A i, j \in 1 .. NumItems : i < j => ~Before(items[p[j]].name, items[p[i]].name)}

(* wg.Wait() and printSummary.                                             *)
PrintSummary ==
  /\ pc = "loop" /\ started = NumItems
  /\ wg = 0
  /\ \E p \in SortedByName : rows' = [i \in 1 .. NumItems |-> results[p[i]]]
  /\ summary' = Count(rows', SummaryClass)
  /\ pc' = IF opts.report THEN "report" ELSE "end"
  /\ exit' = IF opts.report THEN exit ELSE 0
  /\ UNCHANGED <<treeVars, cursor, pruned, jobs, skipped, paths, census, items, started, sem, wg, done,
                 worker, outcome, lines, results, report, dumps>>

ReportClassErrorFirst(r) ==
  CASE r.err # "nil"           -> "errored"
    [] r.err = "nil" /\ ~r.ok  -> "failed"
    [] OTHER                   -> "passed"

ReportClass(r) ==
  CASE r.err = "missing input"                -> "skipped"
    [] r.err \notin {"nil", "missing input"}  -> "errored"
    [] r.err = "nil" /\ ~r.ok                 -> "failed"
    [] OTHER                                  -> "passed"

(* writeReport; a file that cannot be written is fatal.                    *)
WriteReport ==
  /\ pc = "report"
  /\ pc' = "end"
  /\ \/ report' = Count(rows, ReportClass) /\ exit' = 0
     \/ report' = report /\ exit' = 1
  /\ UNCHANGED <<treeVars, cursor, pruned, jobs, skipped, paths, census, items, started, sem, wg, done,
                 worker, outcome, lines, results, rows, summary, dumps>>

Worker(i) ==
  \/ RunItem(i) \/ CountItem(i) \/ StoreItem(i) \/ ReleaseItem(i) \/ LeaveItem(i)

Main ==
  \/ Discovers \/ LoadFails \/ Load \/ StartItem \/ AllAsleep \/ PrintSummary \/ WriteReport

Ended == pc \in {"fatal", "done", "run", "end"} /\ UNCHANGED vars

Next == Main \/ (\E i \in Bound : Worker(i)) \/ Ended

(* The Go scheduler runs every goroutine that can run; RunItem ends if the *)
(* emulator does.                                                          *)
Spec == Init /\ [][Next]_vars /\ WF_vars(Main) /\ \A i \in Bound : WF_vars(Worker(i))

-------------------------------------------------------------------------------
(* Properties                                                              *)

Map == INSTANCE ParallelMap WITH
  size     <- NumItems,
  limit    <- opts.jobs,
  active   <- {i \in Bound : worker[i] \in {"run", "count", "store", "release"}},
  value    <- [i \in {i \in Bound : worker[i] \in {"leave", "left"}} |-> results[i]],
  answered <- rows # << >>,
  answer   <- IF rows # << >> THEN results ELSE << >>

(* The loop implements the parallel map: every block is run exactly once,  *)
(* never more than -jobs at a time, and the summary is made of the results *)
(* of all of them, each under its own index.                               *)
ImplementsParallelMap == Map!Spec

(* The three sums that zkevm-runner shows of a run, each by its own copy of*)
(* the rule, agree: the progress lines, the summary and, if it could be    *)
(* written, the report; and together they are all items.                   *)
TalliesAgree ==
  /\ pc = "report" \/ (exit = 0 /\ tool = "runner") =>
       /\ summary = lines
       /\ lines["passed"] + lines["failed"] + lines["errored"] + lines["skipped"] = NumItems
  /\ exit = 0 /\ tool = "runner" /\ opts.report => report = summary

(* No dump overwrites another one, though tests of different files may     *)
(* have the same name and names are cut off: every item that was dumped    *)
(* without an error has a file that holds its own input.                   *)
DumpsKept ==
  opts.dumpDir =>
    \A i \in Bound : worker[i] \notin {"none", "run"} /\ outcome[i].err = "nil" =>
      \E d \in DOMAIN dumps : dumps[d] = i

(* -jobs 0 or less, which only bench refuses, crashes the program before it*)
(* has run or dumped anything, and nothing else does: main never waits for *)
(* a token or a goroutine that does not come.                              *)
CrashesOnlyWithoutJobs == exit = 2 => opts.jobs < 1 /\ lines = NoCount /\ dumps = << >>

(* What the goroutines of main's loop and main know of each other, beside  *)
(* WalkKnows the inductive invariant.                                      *)
TestResults == [err : {"nil", "missing input", "other"}, match : BOOLEAN, ok : BOOLEAN]

Counted(i) == worker[i] \in {"store", "release", "leave", "left"}
Stored(i)  == worker[i] \in {"release", "leave", "left"}

RunnerTypes ==
  /\ opts.jobs \in Int /\ opts.dumpDir \in BOOLEAN /\ opts.report \in BOOLEAN
  /\ NumItems \in Bound \cup {0} /\ started \in 0 .. NumItems
  /\ worker \in [Bound -> {"none", "run", "count", "store", "release", "leave", "left"}]
  /\ outcome \in [Bound -> TestResults]
  /\ results \in [1 .. NumItems -> TestResults]
  /\ lines \in [Classes -> Nat]

(* Where main is tells what there is: goroutines only while it is in its   *)
(* loop, rows only after it, and nothing at all if it never started one.   *)
MainKnows ==
  /\ pc \in {"flags", "walk", "single", "found", "load", "fatal", "done", "run"} =>
       started = 0 /\ rows = << >>
  /\ pc = "loop" => NumItems \in Bound /\ rows = << >>
  /\ pc # "loop" => \A i \in Bound : ~Busy(i)
  /\ tool = "bench" => pc \notin {"load", "loop", "report", "end"}
  /\ exit # -1 => pc \in {"fatal", "done", "end"}
  /\ pc = "fatal" => exit = 1
  /\ pc = "done" => tool = "bench"
  /\ opts.jobs < 1 => started = 0
  /\ started = 0 => dumps = << >>
  /\ exit = 2 => started = 0 /\ opts.jobs < 1

(* Each item's goroutine, once it was started, has its own place.          *)
ItemsKnow ==
  \A i \in Bound :
    /\ worker[i] # "none" <=> i <= started
    /\ Stored(i) => results[i] = outcome[i]
    /\ (opts.dumpDir /\ worker[i] \notin {"none", "run"} /\ outcome[i].err = "nil") =>
         Dest(i) \in DOMAIN dumps /\ dumps[Dest(i)] = i

(* sem, wg and the progress lines count goroutines.                        *)
CountersKnow ==
  /\ sem = Cardinality({i \in Bound : Busy(i) /\ worker[i] # "leave"})
  /\ wg = Cardinality({i \in Bound : Busy(i)})
  /\ \A k \in Classes :
       lines[k] = Cardinality({i \in Bound : Counted(i) /\ Status(outcome[i]) = k})

(* What is shown at the end.                                               *)
SumsKnow ==
  /\ (rows # << >> \/ pc = "report" \/ (tool = "runner" /\ exit = 0)) =>
       /\ started = NumItems /\ NumItems \in Bound
       /\ \A i \in 1 .. NumItems : worker[i] = "left"
       /\ rows \in [1 .. NumItems -> TestResults]
       /\ summary = Count(rows, SummaryClass) /\ summary = lines
  /\ (tool = "runner" /\ exit = 0 /\ opts.report) => report = Count(rows, ReportClass)

RunnerIInv ==
  WalkKnows /\ BenchKnows /\ RunnerTypes /\ MainKnows /\ ItemsKnow /\ CountersKnow /\ SumsKnow

(* zkevm-runner ends whatever is in the tree, whatever -jobs is and however*)
(* the runs come out.                                                      *)
Ends == <>(pc \in {"fatal", "done", "run", "end"})
===============================================================================
