--------------------------------- MODULE Bench --------------------------------
(***************************************************************************)
(* The bench tool's runner (src/bench/run.go, runAll): main hands each     *)
(* fixture file to a goroutine, at most `parallelism' at a time, the       *)
(* goroutine expands the file into units and runs them one after another,  *)
(* and main puts the results together when all have ended. The goroutines  *)
(* share the two progress counters.                                        *)
(***************************************************************************)
EXTENDS Integers, Sequences, FiniteSets

CONSTANTS NumFiles,     \* len(jobs)
          MaxUnits,     \* bound: units in one file
          parallelism   \* --jobs

ASSUME BenchAssumption ==
  /\ NumFiles \in Nat \ {0}
  /\ MaxUnits \in Nat
  /\ parallelism \in Nat \ {0}   \* main refuses --jobs below 1

Files == 1 .. NumFiles

(* expand(job) failed because LoadZkevmFile did: the file cannot be read or*)
(* parsed, or one of its test cases cannot. It is skipped as a whole.      *)
Unreadable == -1

VARIABLES size,      \* size[f]: the units in f, or Unreadable
          started,   \* files handed to a goroutine so far (main's loop)
          sem,       \* tokens in the channel sem
          wg,        \* the WaitGroup's counter
          worker,    \* worker[f]: where f's goroutine is
          out,       \* out[f]: the results of f so far
          perFile,   \* perFile[f]
          done,      \* p.done
          total,     \* p.total
          n,         \* n[f]: what f's last done.Add returned
          printed,   \* the last progress line, [n, total]
          collected, \* files whose results main has appended
          results    \* what runAll returns

vars == <<size, started, sem, wg, worker, out, perFile, done, total, n, printed,
          collected, results>>

Init ==
  /\ size \in [Files -> {Unreadable} \cup 0 .. MaxUnits]
  /\ started = 0
  /\ sem = 0
  /\ wg = 0
  /\ worker = [f \in Files |-> "none"]
  /\ out = [f \in Files |-> << >>]
  /\ perFile = [f \in Files |-> << >>]
  /\ done = 0
  /\ total = NumFiles
  /\ n = [f \in Files |-> 0]
  /\ printed = [n |-> 0, total |-> NumFiles]
  /\ collected = 0
  /\ results = << >>

-------------------------------------------------------------------------------
(* A file's goroutine                                                      *)

ExpandUncounted(f) ==
  /\ worker[f] = "expand"
  /\ IF size[f] = Unreadable
       THEN done' = done + 1 /\ worker' = [worker EXCEPT ![f] = "release"]
       ELSE worker' = [worker EXCEPT ![f] = "run"] /\ UNCHANGED done
  /\ UNCHANGED <<size, started, sem, wg, out, perFile, total, n, printed, collected, results>>

(* expand(job). An unreadable file counts as done; another one replaces its*)
(* share of one in the total by the number of its units.                   *)
Expand(f) ==
  /\ worker[f] = "expand"
  /\ IF size[f] = Unreadable
       THEN /\ done' = done + 1
            /\ worker' = [worker EXCEPT ![f] = "release"]
            /\ UNCHANGED total
       ELSE /\ total' = total + size[f] - 1
            /\ worker' = [worker EXCEPT ![f] = "run"]
            /\ UNCHANGED done
  /\ UNCHANGED <<size, started, sem, wg, out, perFile, n, printed, collected, results>>

(* runUnit up to printProgress: encode, run the emulator, verify.          *)
RunUnit(f) ==
  /\ worker[f] = "run"
  /\ Len(out[f]) < size[f]
  /\ worker' = [worker EXCEPT ![f] = "count"]
  /\ UNCHANGED <<size, started, sem, wg, out, perFile, done, total, n, printed,
                 collected, results>>

(* n := p.done.Add(1)                                                      *)
CountUnit(f) ==
  /\ worker[f] = "count"
  /\ done' = done + 1
  /\ n' = [n EXCEPT ![f] = done + 1]
  /\ worker' = [worker EXCEPT ![f] = "print"]
  /\ UNCHANGED <<size, started, sem, wg, out, perFile, total, printed, collected, results>>

(* total := p.total.Load(), the progress line, and the append to out.      *)
PrintUnit(f) ==
  /\ worker[f] = "print"
  /\ printed' = [n |-> n[f], total |-> total]
  /\ out' = [out EXCEPT ![f] = Append(@, [file |-> f, unit |-> Len(@) + 1])]
  /\ worker' = [worker EXCEPT ![f] = "run"]
  /\ UNCHANGED <<size, started, sem, wg, perFile, done, total, n, collected, results>>

FinishFileSharedIdx(f) ==
  /\ worker[f] = "run"
  /\ Len(out[f]) = size[f]
  /\ perFile' = [perFile EXCEPT ![started] = out[f]]
  /\ worker' = [worker EXCEPT ![f] = "release"]
  /\ UNCHANGED <<size, started, sem, wg, out, done, total, n, printed, collected, results>>

(* perFile[idx] = out                                                      *)
FinishFile(f) ==
  /\ worker[f] = "run"
  /\ Len(out[f]) = size[f]
  /\ perFile' = [perFile EXCEPT ![f] = out[f]]
  /\ worker' = [worker EXCEPT ![f] = "release"]
  /\ UNCHANGED <<size, started, sem, wg, out, done, total, n, printed, collected, results>>

ReleaseUnlessSkipped(f) ==
  /\ worker[f] = "release"
  /\ sem' = IF size[f] = Unreadable THEN sem ELSE sem - 1
  /\ worker' = [worker EXCEPT ![f] = "leave"]
  /\ UNCHANGED <<size, started, wg, out, perFile, done, total, n, printed, collected, results>>

(* The deferred calls run last one first: <-sem, then wg.Done().           *)
Release(f) ==
  /\ worker[f] = "release"
  /\ sem' = sem - 1
  /\ worker' = [worker EXCEPT ![f] = "leave"]
  /\ UNCHANGED <<size, started, wg, out, perFile, done, total, n, printed, collected, results>>

Leave(f) ==
  /\ worker[f] = "leave"
  /\ wg' = wg - 1
  /\ worker' = [worker EXCEPT ![f] = "left"]
  /\ UNCHANGED <<size, started, sem, out, perFile, done, total, n, printed, collected, results>>

-------------------------------------------------------------------------------
(* runAll                                                                  *)

StartFileUncounted ==
  /\ started < NumFiles
  /\ sem < parallelism
  /\ sem' = sem + 1
  /\ started' = started + 1
  /\ worker' = [worker EXCEPT ![started + 1] = "expand"]
  /\ wg' = IF started = 0 THEN 1 ELSE wg
  /\ UNCHANGED <<size, out, perFile, done, total, n, printed, collected, results>>

(* wg.Add(1), then the send to sem, which waits while the channel is full, *)
(* then the go statement. Nobody looks at wg before the loop has ended.    *)
StartFile ==
  /\ started < NumFiles
  /\ sem < parallelism
  /\ sem' = sem + 1
  /\ started' = started + 1
  /\ worker' = [worker EXCEPT ![started + 1] = "expand"]
  /\ wg' = wg + 1
  /\ UNCHANGED <<size, out, perFile, done, total, n, printed, collected, results>>

(* After wg.Wait() main appends the files' results in discovery order.     *)
Collect ==
  /\ started = NumFiles
  /\ wg = 0
  /\ collected < NumFiles
  /\ results' = results \o perFile[collected + 1]
  /\ collected' = collected + 1
  /\ UNCHANGED <<size, started, sem, wg, worker, out, perFile, done, total, n, printed>>

Finished == collected = NumFiles

Worker(f) ==
  \/ Expand(f) \/ RunUnit(f) \/ CountUnit(f) \/ PrintUnit(f) \/ FinishFile(f)
  \/ Release(f) \/ Leave(f)

Main == StartFile \/ Collect

Done == Finished /\ UNCHANGED vars

Next == Main \/ (\E f \in Files : Worker(f)) \/ Done

(* The Go scheduler runs every goroutine that can run. RunUnit ends if the *)
(* emulator does: the bench tool sets no time limit, only a step cap.      *)
Spec == Init /\ [][Next]_vars /\ WF_vars(Main) /\ \A f \in Files : WF_vars(Worker(f))

-------------------------------------------------------------------------------
(* Properties                                                              *)

Working(f) == worker[f] \in {"expand", "run", "count", "print", "release"}

(* No progress line ever counts more units than it says there are, though  *)
(* the total shrinks and grows while files are expanded and is read after  *)
(* the count is taken; nor does the count overtake the total in between;   *)
(* and when runAll returns every unit and every skipped file was counted.  *)
ProgressSane ==
  /\ done <= total
  /\ printed.n <= printed.total
  /\ Finished => done = total

(* Main reads perFile only after every goroutine has written its part, and *)
(* what it returns is every unit of every readable file exactly once, in   *)
(* discovery order, however the goroutines interleaved.                    *)
ResultsAreSequential ==
  /\ collected > 0 => \A f \in Files : worker[f] = "left"
  /\ \A i, j \in 1 .. Len(results) : i < j =>
       \/ results[i].file < results[j].file
       \/ results[i].file = results[j].file /\ results[i].unit < results[j].unit
  /\ Finished =>
       {results[i] : i \in 1 .. Len(results)} =
         UNION {{[file |-> f, unit |-> u] : u \in 1 .. size[f]} : f \in Files}

Released(f) == worker[f] \in {"leave", "left"}

(* The part of the results that follows those of the files before f and    *)
(* ends with those of f.                                                   *)
ResultsOf(f) ==
  SubSeq(results, Cardinality({i \in 1 .. Len(results) : results[i].file < f}) + 1,
                  Cardinality({i \in 1 .. Len(results) : results[i].file <= f}))

(* The map that runAll promises, over files: its answer holds, at each     *)
(* file, the results in its place.                                         *)
Map == INSTANCE ParallelMap WITH
  size     <- NumFiles,
  limit    <- parallelism,
  active   <- {f \in Files : Working(f)},
  value    <- [f \in {f \in Files : Released(f)} |-> perFile[f]],
  answered <- Finished,
  answer   <- [f \in {f \in Files : Finished} |-> ResultsOf(f)]

(* runAll implements the parallel map: every file is handled exactly once, *)
(* never more than `parallelism' at a time, and its results are returned   *)
(* under its own number once all files have been handled.                  *)
ImplementsParallelMap == Map!Spec

-------------------------------------------------------------------------------
(* The inductive invariant                                                 *)

Rows == [file : Files, unit : 1 .. MaxUnits]

BenchTypes ==
  /\ size \in [Files -> {Unreadable} \cup 0 .. MaxUnits]
  /\ started \in 0 .. NumFiles /\ collected \in 0 .. NumFiles
  /\ worker \in [Files -> {"none", "expand", "run", "count", "print", "release", "leave", "left"}]
  /\ out \in [Files -> Seq(Rows)]
  /\ perFile \in [Files -> Seq(Rows)]
  /\ n \in [Files -> Nat]
  /\ results \in Seq(Rows)

(* Where its goroutine is tells what was done of a file. out[f] holds the  *)
(* results of its first units, all of them when the goroutine is through,  *)
(* and then perFile[f] holds them too.                                     *)
FilesKnow ==
  \A f \in Files :
    /\ worker[f] = "none" <=> f > started
    /\ \A i \in 1 .. Len(out[f]) : out[f][i] = [file |-> f, unit |-> i]
    /\ worker[f] \in {"none", "expand"} => out[f] = << >>
    /\ size[f] = Unreadable => out[f] = << >> /\ worker[f] \notin {"run", "count", "print"}
    /\ size[f] # Unreadable => Len(out[f]) <= size[f]
    /\ worker[f] \in {"count", "print"} => Len(out[f]) < size[f]
    /\ IF worker[f] \in {"release", "leave", "left"}
         THEN perFile[f] = out[f] /\ (size[f] # Unreadable => Len(out[f]) = size[f])
         ELSE perFile[f] = << >>

(* sem and wg count goroutines.                                            *)
TokensCount ==
  /\ sem = Cardinality({f \in Files : Working(f)}) /\ sem <= parallelism
  /\ wg = Cardinality({f \in Files : worker[f] \notin {"none", "left"}})

(* What the total counts of a file: the file as one, item 0, until it is   *)
(* expanded and for good if it is unreadable, then its units. And what done*)
(* counts of it.                                                           *)
ExpectedPart ==
  [f \in Files |-> IF worker[f] \in {"none", "expand"} \/ size[f] = Unreadable
                     THEN {0}
                     ELSE 1 .. size[f]]

UnitsCounted(f) == IF worker[f] = "print" THEN Len(out[f]) + 1 ELSE Len(out[f])

CountedPart ==
  [f \in Files |-> IF worker[f] \in {"none", "expand"} THEN {}
                     ELSE IF size[f] = Unreadable THEN {0} ELSE 1 .. UnitsCounted(f)]

(* The items of all files, given those of each.                            *)
Pairs(part) == {p \in Files \X (0 .. MaxUnits) : p[2] \in part[p[1]]}

ProgressCounts ==
  /\ total = Cardinality(Pairs(ExpectedPart))
  /\ done = Cardinality(Pairs(CountedPart))
  /\ \A f \in Files : n[f] <= done
  /\ printed.n \in Nat /\ printed.total \in Nat /\ printed.n <= printed.total

(* The results of every file collected are in their place: o is how many   *)
(* results come before them.                                               *)
Placed(f, o) ==
  LET k == Len(perFile[f]) IN
    /\ o + k <= Len(results)
    /\ \A i \in 1 .. Len(results) : /\ results[i].file < f <=> i <= o
                                    /\ results[i].file <= f <=> i <= o + k
    /\ \A u \in 1 .. k : results[o + u] = perFile[f][u]

ResultsPlaced ==
  /\ collected > 0 => \A f \in Files : worker[f] = "left"
  /\ \A i \in 1 .. Len(results) : results[i].file <= collected
  /\ \A f \in 1 .. collected : \E o \in 0 .. Len(results) : Placed(f, o)
  /\ \A i, j \in 1 .. Len(results) : i < j =>
       \/ results[i].file < results[j].file
       \/ results[i].file = results[j].file /\ results[i].unit < results[j].unit

(* The inductive invariant of runAll.                                      *)
BenchIInv == BenchTypes /\ FilesKnow /\ TokensCount /\ ProgressCounts /\ ResultsPlaced

(* runAll returns, whatever files are unreadable or empty.                 *)
Terminates == <>Finished
===============================================================================
