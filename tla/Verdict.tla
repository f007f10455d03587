-------------------------------- MODULE Verdict -------------------------------
(***************************************************************************)
(* How a unit, one block of a fixture file, gets its verdict. The bench    *)
(* tool (src/bench/run.go runUnit, src/bench/units.go) and zkevm-runner    *)
(* (src/cmd/zkevm-runner/main.go) each run the guest on it under a zkVM    *)
(* emulator (src/emu/emu.go) and judge what the emulator left behind: its  *)
(* exit status, the costs, steps and error it printed, and the region the  *)
(* guest wrote its own verdict to. Both judge by rules of their own, and   *)
(* both add their verdicts up into a summary.                              *)
(*                                                                         *)
(* A unit is run by one thread from beginning to end (module Bench has the *)
(* threads), so its steps here are: it is loaded, it is judged, it is      *)
(* counted. The output region is a sequence of RegionSize bytes of which   *)
(* the first RootSize are the root and the next one is the valid byte.     *)
(***************************************************************************)
EXTENDS Naturals, Sequences

CONSTANTS NumUnits,             \* bound: units in one run
          RootSize,             \* bytes of the root (32)
          RegionSize,           \* bytes of a full output region
          DefaultZiskMaxSteps,  \* the emulator's own step cap (2^36 - 1)
          MaxStepsFlags,        \* values given to --maxSteps, 0 for none
          MaxWork               \* bound: steps a guest needs

ASSUME VerdictAssumption ==
  /\ NumUnits \in Nat
  /\ RootSize \in Nat \ {0}
  /\ RegionSize \in Nat /\ RegionSize > RootSize
  /\ DefaultZiskMaxSteps \in Nat \ {0}
  /\ MaxStepsFlags \subseteq Nat
  /\ MaxWork \in Nat \ {0}

(* root and valid; what follows them in the program plays no part.         *)
StatelessOutputSize == RootSize + 1

Bytes   == {0, 1}
Strings(lengths) == UNION {[1 .. k -> Bytes] : k \in lengths}
AllZero(s) == \A i \in 1 .. Len(s) : s[i] = 0

(* What a fixture expects: for the corpus format a success flag, for the   *)
(* EEST format an output, which has a root that is not zero, or the empty  *)
(* string when the fixture has none. `input' says what encoding it gives.  *)
Units ==
  [kind : {"corpus"}, success : BOOLEAN, input : {"nil", "encode"}]
    \cup
  [kind : {"zkevm"}, input : {"nil", "missing input", "encode"},
   expected : {<< >>} \cup
     {s \in Strings({StatelessOutputSize}) : ~AllZero(SubSeq(s, 1, RootSize))}]

(* A guest under an emulator. It needs `work' steps to end. `early': it has*)
(* written its output before it reaches a step cap. The other parts: the   *)
(* emulator exits with 0; prints STEPS, a cost table, the guest's "error:  *)
(* execution failed"; the output region, << >> also if it is not there.    *)
Procs == [work : 1 .. MaxWork, early : BOOLEAN, ok : BOOLEAN, stepsLine : BOOLEAN,
          table : BOOLEAN, execFailed : BOOLEAN, out : Strings(0 .. RegionSize)]

VARIABLES target,     \* --target; pico is run exactly as openvm is
          maxSteps,   \* bench's --maxSteps, 0 when it is not given
          dumpDir,    \* zkevm-runner's -dump-dir is given
          stage,      \* "load" | "judge" | "count"
          units,      \* how many units were counted
          unit,       \* the current unit
          proc,       \* what the emulator did with it
          verdict,    \* bench: runUnit's BlockResult
          status,     \* zkevm-runner: how printSummary counts it
          bench,      \* bench's summary
          runner      \* zkevm-runner's summary

vars == <<target, maxSteps, dumpDir, stage, units, unit, proc, verdict, status, bench,
          runner>>

None == [kind |-> "none"]

Init ==
  /\ target \in {"zisk", "openvm"}
  /\ maxSteps \in MaxStepsFlags
  /\ dumpDir \in BOOLEAN
  /\ stage = "load"
  /\ units = 0
  /\ unit = None
  /\ proc = None
  /\ verdict = None
  /\ status = "none"
  /\ bench = [good |-> 0, passes |-> 0, failures |-> 0, skipped |-> 0, unverified |-> 0]
  /\ runner = [passed |-> 0, failed |-> 0, errored |-> 0, skipped |-> 0]

-------------------------------------------------------------------------------
(* Package emu                                                             *)

EffectiveMaxSteps(max) == IF max > 0 THEN max ELSE DefaultZiskMaxSteps

StepLimitExceeded(steps, max) == steps > EffectiveMaxSteps(max)

(* r.StepLimit. A STEPS line that is not there counts as 0 steps.          *)
StepLimit(steps, max) == steps >= EffectiveMaxSteps(max)

(* What ziskemu shows of a guest when it stops it at `cap' steps. It breaks*)
(* out of its loop and exits as it would have otherwise.                   *)
Steps(p, cap) == IF ~p.stepsLine THEN 0 ELSE IF p.work < cap THEN p.work ELSE cap

Costs(p, cap) == IF ~p.table THEN "none" ELSE IF p.work < cap THEN "whole" ELSE "partial"

Region(p, cap) ==
  IF p.work < cap \/ p.early THEN p.out ELSE [i \in 1 .. RegionSize |-> 0]

(* Run. The step cap is reported ahead of the exit status, and a missing   *)
(* cost table only to a caller that asks for one. A temporary file that    *)
(* cannot be written is an error like a bad exit status.                   *)
EmuRun(p, max, requireCosts) ==
  LET cap   == EffectiveMaxSteps(max)
      limit == StepLimit(Steps(p, cap), max)
  IN [costs   |-> Costs(p, cap),
      execErr |-> p.execFailed,
      out     |-> Region(p, cap),
      err     |-> CASE limit -> "step limit"
                    [] ~limit /\ ~p.ok -> "exit"
                    [] ~limit /\ p.ok /\ requireCosts /\ ~p.table -> "no cost report"
                    [] OTHER -> "nil"]

(* runHost. There is no step cap, and the guest's verdict is the valid byte*)
(* of the output, which must be there.                                     *)
RunHost(p) ==
  LET err == CASE ~p.ok -> "exit"
               [] p.ok /\ Len(p.out) < StatelessOutputSize -> "output too short"
               [] OTHER -> "nil"
  IN IF err # "nil"
       THEN [costs |-> "none", execErr |-> FALSE, out |-> << >>, err |-> err]
       ELSE [costs |-> IF p.table THEN "whole" ELSE "none",
             execErr |-> p.out[RootSize + 1] = 0, out |-> p.out, err |-> "nil"]

(* The guest is not run when its input cannot be encoded.                  *)
NotRun(err) == [costs |-> "none", execErr |-> FALSE, out |-> << >>, err |-> err]

-------------------------------------------------------------------------------
(* The bench tool                                                          *)

(* runEmu asks for a cost table; runOpenVM takes no step cap.              *)
BenchRun(u, p) ==
  IF u.input # "nil" THEN NotRun(u.input)
  ELSE IF target = "openvm" THEN RunHost(p)
  ELSE EmuRun(p, maxSteps, TRUE)

(* An output cut to the length of the one expected, which ziskemu's is     *)
(* padded beyond.                                                          *)
Cut(got, expected) ==
  IF Len(expected) > 0 /\ Len(got) > Len(expected)
    THEN SubSeq(got, 1, Len(expected)) ELSE got

(* expectedSuccessFromOutput: the valid byte, TRUE if there is none.       *)
SuccessFromOutput(s) == Len(s) < RootSize + 1 \/ s[RootSize + 1] # 0

VerifyEESTUncut(u, r) ==
  [expectedSuccess |-> SuccessFromOutput(u.expected),
   gotSuccess      |-> SuccessFromOutput(r.out),
   kind            |-> CASE r.err = "missing input" -> "skip"
                         [] r.err \notin {"nil", "missing input"} -> "error"
                         [] r.err = "nil" /\ u.expected = << >> -> "unverified"
                         [] r.err = "nil" /\ u.expected # << >> /\ r.out # u.expected -> "fail"
                         [] OTHER -> "pass"]

VerifyEESTByFlag(u, r) ==
  [expectedSuccess |-> SuccessFromOutput(u.expected),
   gotSuccess      |-> SuccessFromOutput(Cut(r.out, u.expected)),
   kind            |-> CASE r.err = "missing input" -> "skip"
                         [] r.err \notin {"nil", "missing input"} -> "error"
                         [] r.err = "nil" /\ u.expected = << >> -> "unverified"
                         [] OTHER -> IF SuccessFromOutput(Cut(r.out, u.expected)) =
                                        SuccessFromOutput(u.expected)
                                       THEN "pass" ELSE "fail"]

(* verifyEEST: the output bytes decide.                                    *)
VerifyEEST(u, r) ==
  LET got == Cut(r.out, u.expected) IN
    [expectedSuccess |-> SuccessFromOutput(u.expected),
     gotSuccess      |-> r.err = "nil" /\ SuccessFromOutput(got),
     kind            |-> CASE r.err = "missing input" -> "skip"
                           [] r.err \notin {"nil", "missing input"} -> "error"
                           [] r.err = "nil" /\ u.expected = << >> -> "unverified"
                           [] r.err = "nil" /\ u.expected # << >> /\ got # u.expected -> "fail"
                           [] OTHER -> "pass"]

(* verifyCorpus: whether the guest reported a failure decides.             *)
VerifyCorpus(u, r) ==
  LET gotSuccess == r.err = "nil" /\ ~r.execErr IN
    [expectedSuccess |-> u.success,
     gotSuccess      |-> gotSuccess,
     kind            |-> CASE r.err # "nil" -> "error"
                           [] r.err = "nil" /\ gotSuccess # u.success -> "fail"
                           [] OTHER -> "pass"]

(* runUnit: an error row carries no costs.                                 *)
RunUnit(u, p) ==
  LET r == BenchRun(u, p)
      v == IF u.kind = "corpus" THEN VerifyCorpus(u, r) ELSE VerifyEEST(u, r)
  IN [kind            |-> v.kind,
      expectedSuccess |-> v.expectedSuccess,
      gotSuccess      |-> v.gotSuccess,
      costs           |-> IF v.kind = "error" THEN "none" ELSE r.costs]

(* main's loop over the results. good is what the statistics are over.     *)
Count(b, v) ==
  CASE v.kind = "skip"       -> [b EXCEPT !.skipped = @ + 1]
    [] v.kind = "error"      -> b
    [] v.kind = "fail"       -> [b EXCEPT !.good = @ + 1, !.failures = @ + 1]
    [] v.kind = "unverified" -> [b EXCEPT !.good = @ + 1, !.unverified = @ + 1]
    [] OTHER                 -> [b EXCEPT !.good = @ + 1, !.passes = @ + 1]

-------------------------------------------------------------------------------
(* zkevm-runner, which takes EEST fixtures only                            *)

(* runOne: no -n, and no cost table needed.                                *)
RunOne(u, p) ==
  IF u.input # "nil" THEN NotRun(u.input)
  ELSE IF target = "openvm" THEN RunHost(p)
  ELSE EmuRun(p, 0, FALSE)

(* dumpOne: nothing is run; writing the file may fail.                     *)
DumpOne(u, p) == NotRun(IF u.input = "nil" /\ ~p.ok THEN "write" ELSE u.input)

(* The rule of main's goroutine and the order of printSummary's tests.     *)
RunnerStatus(u, p) ==
  LET r            == IF dumpDir THEN DumpOne(u, p) ELSE RunOne(u, p)
      outputMatch  == u.expected = << >> \/ Cut(r.out, u.expected) = u.expected
      validationOK == dumpDir \/ (r.err = "nil" /\ outputMatch)
  IN CASE r.err = "missing input" -> "skipped"
       [] r.err \notin {"nil", "missing input"} -> "errored"
       [] r.err = "nil" /\ validationOK -> "passed"
       [] OTHER -> "failed"

-------------------------------------------------------------------------------

(* bench refuses EEST fixtures with openvm; zkevm-runner has only those.   *)
BenchTakes(u)  == ~(target = "openvm" /\ u.kind = "zkevm")
RunnerTakes(u) == u.kind = "zkevm"

Load ==
  /\ stage = "load"
  /\ units < NumUnits
  /\ unit' \in Units
  /\ stage' = "judge"
  /\ UNCHANGED <<target, maxSteps, dumpDir, units, proc, verdict, status, bench, runner>>

Judge(p) ==
  /\ stage = "judge"
  /\ proc' = p
  /\ verdict' = IF BenchTakes(unit) THEN RunUnit(unit, p) ELSE None
  /\ status' = IF RunnerTakes(unit) THEN RunnerStatus(unit, p) ELSE "none"
  /\ stage' = "count"
  /\ UNCHANGED <<target, maxSteps, dumpDir, units, unit, bench, runner>>

Tally ==
  /\ stage = "count"
  /\ bench' = IF verdict = None THEN bench ELSE Count(bench, verdict)
  /\ runner' = IF status = "none" THEN runner ELSE [runner EXCEPT ![status] = @ + 1]
  /\ units' = units + 1
  /\ stage' = "load"
  /\ unit' = None
  /\ proc' = None
  /\ verdict' = None
  /\ status' = "none"
  /\ UNCHANGED <<target, maxSteps, dumpDir>>

Next == Load \/ (\E p \in Procs : Judge(p)) \/ Tally

Spec == Init /\ [][Next]_vars

-------------------------------------------------------------------------------
(* Properties                                                              *)

JudgedByBoth == stage = "count" /\ verdict # None /\ status # "none" /\ ~dumpDir

BenchCap == EffectiveMaxSteps(maxSteps)

(* "so the two tools' pass/fail sets can be cross-checked by label"        *)
(* (units.go:159): the tools skip the same units and never come to opposite*)
(* verdicts, a unit bench cannot verify being one the runner passes; and if*)
(* only one of them reports an error, then its step cap is the lower one,  *)
(* or bench misses its cost table. Two tools with different caps that do   *)
(* not see the STEPS line are beyond comparison.                           *)
ToolsAgree ==
  (JudgedByBoth /\ (proc.stepsLine \/ BenchCap = DefaultZiskMaxSteps)) =>
    /\ verdict.kind = "skip" <=> status = "skipped"
    /\ verdict.kind \in {"pass", "unverified"} => status \in {"passed", "errored"}
    /\ verdict.kind = "fail" => status \in {"failed", "errored"}
    /\ status = "errored" => verdict.kind = "error" \/ DefaultZiskMaxSteps < BenchCap
    /\ verdict.kind = "error" =>
         status = "errored" \/ ~proc.table \/ BenchCap < DefaultZiskMaxSteps

(* bench passes an EEST unit only if the guest ran to a good exit and the  *)
(* region it wrote begins with all of the expected output, so that a root  *)
(* is never ignored and padding never decides.                             *)
PassIsEarned ==
  (stage = "count" /\ unit.kind = "zkevm" /\ verdict.kind = "pass") =>
    /\ proc.ok
    /\ Region(proc, BenchCap) # << >>
    /\ \A i \in 1 .. StatelessOutputSize : Region(proc, BenchCap)[i] = unit.expected[i]
    /\ verdict.gotSuccess = verdict.expectedSuccess

(* A run that was cut short is judged by neither tool, provided the        *)
(* emulator prints STEPS: a guest that reaches its step cap, exactly or    *)
(* not, whatever the exit status and whatever it had written by then, is an*)
(* error; so the costs of a unit that enters the ZisK statistics (main.go, *)
(* `good') are those of a whole run with a table, and one that was skipped *)
(* or failed to run carries no costs and no success.                       *)
CutRunsAreErrors ==
  stage = "count" =>
    /\ (target = "zisk" /\ unit.input = "nil" /\ proc.stepsLine) =>
         /\ verdict # None /\ proc.work >= BenchCap => verdict.kind = "error"
         /\ status # "none" /\ ~dumpDir /\ proc.work >= DefaultZiskMaxSteps => status = "errored"
    /\ (target = "zisk" /\ proc.stepsLine /\ verdict.kind \in {"pass", "fail", "unverified"}) =>
         verdict.costs = "whole"
    /\ verdict.kind \in {"skip", "error"} => verdict.costs = "none" /\ ~verdict.gotSuccess

(* The inductive invariant: what is about to be counted is what the two    *)
(* tools' rules make of the unit and of the emulator's run.                *)
VerdictIInv ==
  /\ target \in {"zisk", "openvm"} /\ maxSteps \in Nat /\ dumpDir \in BOOLEAN
  /\ stage \in {"load", "judge", "count"}
  /\ stage # "load" => unit \in Units
  /\ stage = "count" =>
       /\ proc \in Procs
       /\ verdict = IF BenchTakes(unit) THEN RunUnit(unit, proc) ELSE None
       /\ status = IF RunnerTakes(unit) THEN RunnerStatus(unit, proc) ELSE "none"

(* "A missing, short, or all-zero output region means the guest never wrote*)
(* a verdict, which must never read as a pass." (emu_test.go:141): no unit *)
(* passes as successful without one. The rule for the corpus format takes  *)
(* a guest that printed no error line for successful, wherever it ended.   *)
NoVerdictNeverPasses ==
  (stage = "count" /\ verdict.kind = "pass" /\ verdict.gotSuccess) =>
    LET out == Region(proc, BenchCap) IN
      Len(out) >= StatelessOutputSize /\ ~AllZero(out)
===============================================================================
