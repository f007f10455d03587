----------------------------- MODULE VerdictProofs ----------------------------
(***************************************************************************)
(* For any sizes of root and output region, any step caps and any guest:   *)
(* the two tools agree, a pass is earned, and a run that was cut short is  *)
(* judged by neither.                                                      *)
(***************************************************************************)
EXTENDS Verdict, SequenceTheorems, TLAPS

LEMMA InitVerdictIInv == Init => VerdictIInv
BY VerdictAssumption DEF Init, VerdictIInv

LEMMA NextVerdictIInv == VerdictIInv /\ [Next]_vars => VerdictIInv'
<1> SUFFICES ASSUME VerdictIInv, [Next]_vars PROVE VerdictIInv'
  OBVIOUS
<1>1. CASE Load
  BY <1>1 DEF Load, VerdictIInv
<1>2. ASSUME NEW p \in Procs, Judge(p) PROVE VerdictIInv'
  <2>1. /\ UNCHANGED <<target, maxSteps, dumpDir, unit>>
        /\ stage = "judge" /\ stage' = "count" /\ proc' = p
        /\ verdict' = IF BenchTakes(unit) THEN RunUnit(unit, p) ELSE None
        /\ status' = IF RunnerTakes(unit) THEN RunnerStatus(unit, p) ELSE "none"
    BY <1>2 DEF Judge
  <2>2. BenchTakes(unit)' = BenchTakes(unit) /\ RunnerTakes(unit)' = RunnerTakes(unit)
    BY <2>1 DEF BenchTakes, RunnerTakes
  <2>3. RunUnit(unit, proc)' = RunUnit(unit, p) 
    BY <2>1 DEF RunUnit, BenchRun
  <2>4. RunnerStatus(unit, proc)' = RunnerStatus(unit, p)
    BY <2>1 DEF RunnerStatus, RunOne
  <2> QED
    BY <2>1, <2>2, <2>3, <2>4 DEF VerdictIInv
<1>3. CASE Tally
  BY <1>3 DEF Tally, VerdictIInv
<1>4. CASE UNCHANGED vars
  <2>1. UNCHANGED <<target, maxSteps, dumpDir, stage, unit, proc, verdict, status>>
    BY <1>4 DEF vars
  <2>2. BenchTakes(unit)' = BenchTakes(unit) /\ RunnerTakes(unit)' = RunnerTakes(unit)
    BY <2>1 DEF BenchTakes, RunnerTakes
  <2>3. RunUnit(unit, proc)' = RunUnit(unit, proc) 
    BY <2>1 DEF RunUnit, BenchRun
  <2>4. RunnerStatus(unit, proc)' = RunnerStatus(unit, proc)
    BY <2>1 DEF RunnerStatus, RunOne
  <2> QED
    BY <2>1, <2>2, <2>3, <2>4 DEF VerdictIInv
<1> QED
  BY <1>1, <1>2, <1>3, <1>4 DEF Next

LEMMA AlwaysVerdictIInv == Spec => []VerdictIInv
BY InitVerdictIInv, NextVerdictIInv, PTL DEF Spec

-------------------------------------------------------------------------------
(* Package emu                                                             *)

(* When ziskemu's run is no error: there was a cost table if one is asked  *)
(* for, a good exit, and the cap was not reached if the emulator says so.  *)
LEMMA EmuRunErr ==
  ASSUME NEW p \in Procs, NEW max \in Nat, NEW req \in BOOLEAN
  PROVE  LET cap == EffectiveMaxSteps(max)
             r   == EmuRun(p, max, req)
         IN  /\ cap \in Nat \ {0}
             /\ r.err \in {"step limit", "exit", "no cost report", "nil"}
             /\ r.err = "nil" <=> /\ p.stepsLine => p.work < cap
                                  /\ p.ok
                                  /\ req => p.table
             /\ r.costs = Costs(p, cap) /\ r.out = Region(p, cap) /\ r.execErr = p.execFailed
BY VerdictAssumption DEF EmuRun, EffectiveMaxSteps, StepLimit, Steps, Procs

(* The kinds of record a unit can be.                                      *)
LEMMA UnitKinds ==
  ASSUME NEW u \in Units
  PROVE  /\ u.kind \in {"corpus", "zkevm"}
         /\ u.kind = "corpus" => u.success \in BOOLEAN /\ u.input \in {"nil", "encode"}
         /\ u.kind = "zkevm" =>
              /\ u.input \in {"nil", "missing input", "encode"}
              /\ u.expected = << >> \/ u.expected \in [1 .. StatelessOutputSize -> Bytes]
BY DEF Units, Strings

(* A region is a sequence of bytes.                                        *)
LEMMA RegionIsSeq ==
  ASSUME NEW p \in Procs, NEW cap \in Nat
  PROVE  Region(p, cap) \in Seq(Bytes)
<1>1. \A k \in Nat : \A s \in [1 .. k -> Bytes] : s \in Seq(Bytes)
  BY SeqDef
<1>2. PICK k \in 0 .. RegionSize : p.out \in [1 .. k -> Bytes]
  BY DEF Procs, Strings
<1>3. [i \in 1 .. RegionSize |-> 0] \in [1 .. RegionSize -> Bytes]
  BY DEF Bytes
<1>4. k \in Nat /\ RegionSize \in Nat
  BY VerdictAssumption
<1> QED
  BY <1>1, <1>2, <1>3, <1>4 DEF Region

(* The verdicts of runUnit, by what the run gave.                          *)
LEMMA RunUnitKind ==
  ASSUME NEW u \in Units, NEW p \in Procs
  PROVE  LET r == BenchRun(u, p)
             v == RunUnit(u, p)
         IN  /\ v.kind \in {"skip", "error", "unverified", "fail", "pass"}
             /\ v.kind \in {"skip", "error"} <=> r.err # "nil"
             /\ v.kind = "skip" => r.err = "missing input"
             /\ v.costs = IF v.kind = "error" THEN "none" ELSE r.costs
             /\ r.err # "nil" => ~v.gotSuccess
             /\ u.kind = "zkevm" =>
                  /\ r.err = "missing input" => v.kind = "skip"
                  /\ v.kind = "unverified" <=> r.err = "nil" /\ u.expected = << >>
                  /\ v.kind = "pass" <=> /\ r.err = "nil" /\ u.expected # << >>
                                         /\ Cut(r.out, u.expected) = u.expected
                  /\ v.expectedSuccess = SuccessFromOutput(u.expected)
                  /\ r.err = "nil" => v.gotSuccess = SuccessFromOutput(Cut(r.out, u.expected))
<1> DEFINE r == BenchRun(u, p)
           c == VerifyCorpus(u, r)
           e == VerifyEEST(u, r)
<1> HIDE DEF r
<1>1. /\ c.kind \in {"error", "fail", "pass"}
      /\ c.kind = "error" <=> r.err # "nil"
      /\ r.err # "nil" => ~c.gotSuccess
  BY DEF VerifyCorpus
<1>2. /\ e.kind \in {"skip", "error", "unverified", "fail", "pass"}
      /\ e.kind \in {"skip", "error"} <=> r.err # "nil"
      /\ e.kind = "skip" <=> r.err = "missing input"
      /\ r.err # "nil" => ~e.gotSuccess
      /\ e.kind = "unverified" <=> r.err = "nil" /\ u.expected = << >>
      /\ e.kind = "pass" <=> /\ r.err = "nil" /\ u.expected # << >>
                             /\ Cut(r.out, u.expected) = u.expected
      /\ e.expectedSuccess = SuccessFromOutput(u.expected)
      /\ r.err = "nil" => e.gotSuccess = SuccessFromOutput(Cut(r.out, u.expected))
  <2> DEFINE got == Cut(r.out, u.expected)
  <2>1. /\ r.err = "missing input" => e.kind = "skip"
        /\ r.err \notin {"nil", "missing input"} => e.kind = "error"
        /\ r.err = "nil" /\ u.expected = << >> => e.kind = "unverified"
        /\ r.err = "nil" /\ u.expected # << >> /\ got # u.expected => e.kind = "fail"
        /\ r.err = "nil" /\ u.expected # << >> /\ got = u.expected => e.kind = "pass"
    BY DEF VerifyEEST
  <2>2. /\ e.expectedSuccess = SuccessFromOutput(u.expected)
        /\ e.gotSuccess = (r.err = "nil" /\ SuccessFromOutput(got))
    BY DEF VerifyEEST
  <2>3. SuccessFromOutput(got) \in BOOLEAN
    BY DEF SuccessFromOutput
  <2> HIDE DEF e, got
  <2>4. /\ r.err # "nil" => ~e.gotSuccess
        /\ r.err = "nil" => e.gotSuccess = SuccessFromOutput(got)
    BY <2>2, <2>3
  <2> QED
    BY <2>1, <2>2, <2>4 DEF got
<1>3. ASSUME NEW v, v = IF u.kind = "corpus" THEN c ELSE e
      PROVE  /\ RunUnit(u, p).kind = v.kind
             /\ RunUnit(u, p).expectedSuccess = v.expectedSuccess
             /\ RunUnit(u, p).gotSuccess = v.gotSuccess
             /\ RunUnit(u, p).costs = IF v.kind = "error" THEN "none" ELSE r.costs
  BY <1>3 DEF RunUnit, r
<1> HIDE DEF c, e
<1>4. u.kind \in {"corpus", "zkevm"}
  BY UnitKinds
<1>5. CASE u.kind = "corpus"
  <2>1. /\ RunUnit(u, p).kind = c.kind /\ RunUnit(u, p).gotSuccess = c.gotSuccess
        /\ RunUnit(u, p).costs = IF c.kind = "error" THEN "none" ELSE r.costs
    BY <1>3, <1>5
  <2> QED
    BY <1>1, <1>5, <2>1 DEF r
<1>6. CASE u.kind = "zkevm"
  <2>1. /\ RunUnit(u, p).kind = e.kind /\ RunUnit(u, p).gotSuccess = e.gotSuccess
        /\ RunUnit(u, p).expectedSuccess = e.expectedSuccess
        /\ RunUnit(u, p).costs = IF e.kind = "error" THEN "none" ELSE r.costs
    BY <1>3, <1>6
  <2> QED
    BY <1>2, <1>6, <2>1 DEF r
<1> QED
  BY <1>4, <1>5, <1>6

(* What bench's run of a unit on ZisK gives.                               *)
LEMMA BenchRunErr ==
  ASSUME target = "zisk", maxSteps \in Nat, NEW u \in Units, NEW p \in Procs
  PROVE  LET r == BenchRun(u, p)
         IN  /\ u.input # "nil" => r.err = u.input /\ r.costs = "none"
             /\ u.input = "nil" =>
                  /\ r.err # "missing input"
                  /\ r.err = "nil" <=> /\ p.stepsLine => p.work < BenchCap
                                       /\ p.ok /\ p.table
                  /\ r.costs = Costs(p, BenchCap) /\ r.out = Region(p, BenchCap)
<1>1. CASE u.input # "nil"
  BY <1>1 DEF BenchRun, NotRun
<1>2. CASE u.input = "nil"
  <2>1. BenchRun(u, p) = EmuRun(p, maxSteps, TRUE)
    BY <1>2 DEF BenchRun
  <2> DEFINE r == EmuRun(p, maxSteps, TRUE)
  <2>2. /\ r.err \in {"step limit", "exit", "no cost report", "nil"}
        /\ r.err = "nil" <=> /\ p.stepsLine => p.work < BenchCap
                             /\ p.ok
                             /\ TRUE => p.table
        /\ r.costs = Costs(p, BenchCap) /\ r.out = Region(p, BenchCap)
    BY EmuRunErr DEF BenchCap
  <2> HIDE DEF r
  <2>3. BenchRun(u, p) = r
    BY <2>1 DEF r
  <2> QED
    BY <1>2, <2>2, <2>3
<1> QED
  BY <1>1, <1>2

(* A unit that has no input is not run, whatever the target, so it costs   *)
(* nothing.                                                                *)
LEMMA SkippedCostsNothing ==
  ASSUME target \in {"zisk", "openvm"}, maxSteps \in Nat, NEW u \in Units, NEW p \in Procs,
         BenchRun(u, p).err = "missing input"
  PROVE  BenchRun(u, p).costs = "none"
<1>1. CASE target = "zisk"
  BY <1>1, BenchRunErr
<1>2. CASE target = "openvm"
  <2>1. RunHost(p).err # "missing input"
    BY DEF RunHost
  <2>2. BenchRun(u, p) = IF u.input # "nil" THEN NotRun(u.input) ELSE RunHost(p)
    BY <1>2 DEF BenchRun
  <2>3. CASE u.input # "nil"
    <3>1. BenchRun(u, p) = NotRun(u.input)
      BY <2>2, <2>3
    <3>2. NotRun(u.input).costs = "none"
      BY DEF NotRun
    <3> QED
      BY <3>1, <3>2
  <2>4. CASE u.input = "nil"
    <3>1. BenchRun(u, p) = RunHost(p)
      BY <2>2, <2>4
    <3> QED
      BY <2>1, <3>1
  <2> QED
    BY <2>3, <2>4
<1> QED
  BY <1>1, <1>2

(* What zkevm-runner makes of a unit on ZisK when it runs it.              *)
LEMMA RunnerStatusKind ==
  ASSUME target = "zisk", dumpDir = FALSE, NEW u \in Units, u.kind = "zkevm", NEW p \in Procs
  PROVE  LET good == /\ p.stepsLine => p.work < DefaultZiskMaxSteps
                     /\ p.ok
             out  == Region(p, DefaultZiskMaxSteps)
             s    == RunnerStatus(u, p)
         IN  /\ s \in {"skipped", "errored", "passed", "failed"}
             /\ s = "skipped" <=> u.input = "missing input"
             /\ s = "errored" <=> u.input = "encode" \/ (u.input = "nil" /\ ~good)
             /\ s = "passed" <=> /\ u.input = "nil" /\ good
                                 /\ u.expected = << >> \/ Cut(out, u.expected) = u.expected
<1> DEFINE r == RunOne(u, p)
<1> HIDE DEF r
<1>1. /\ r.err = "missing input" => RunnerStatus(u, p) = "skipped"
      /\ r.err \notin {"nil", "missing input"} => RunnerStatus(u, p) = "errored"
      /\ r.err = "nil" /\ (u.expected = << >> \/ Cut(r.out, u.expected) = u.expected) =>
           RunnerStatus(u, p) = "passed"
      /\ r.err = "nil" /\ ~(u.expected = << >> \/ Cut(r.out, u.expected) = u.expected) =>
           RunnerStatus(u, p) = "failed"
  BY DEF RunnerStatus, r
<1>2. u.input \in {"nil", "missing input", "encode"}
  BY UnitKinds
<1>3. CASE u.input # "nil"
  <2>1. r.err = u.input
    BY <1>3 DEF r, RunOne, NotRun
  <2> QED
    BY <1>1, <1>2, <1>3, <2>1
<1>4. CASE u.input = "nil"
  <2>1. r = EmuRun(p, 0, FALSE)
    BY <1>4 DEF r, RunOne
  <2>2. EffectiveMaxSteps(0) = DefaultZiskMaxSteps
    BY DEF EffectiveMaxSteps
  <2>3. /\ r.err \in {"step limit", "exit", "no cost report", "nil"}
        /\ r.err = "nil" <=> /\ p.stepsLine => p.work < DefaultZiskMaxSteps
                             /\ p.ok
        /\ r.out = Region(p, DefaultZiskMaxSteps)
    BY <2>1, <2>2, EmuRunErr
  <2> QED
    BY <1>1, <1>4, <2>3
<1> QED
  BY <1>3, <1>4

-------------------------------------------------------------------------------

(* Whatever the guest does, the two tools' verdicts on a unit of the same  *)
(* corpus differ only where their caps or bench's cost table explain it.   *)
THEOREM ToolsAlwaysAgree == Spec => []ToolsAgree
<1>1. VerdictIInv => ToolsAgree
  <2> SUFFICES ASSUME VerdictIInv, JudgedByBoth,
                      proc.stepsLine \/ BenchCap = DefaultZiskMaxSteps
               PROVE  /\ verdict.kind = "skip" <=> status = "skipped"
                      /\ verdict.kind \in {"pass", "unverified"} => status \in {"passed", "errored"}
                      /\ verdict.kind = "fail" => status \in {"failed", "errored"}
                      /\ status = "errored" => verdict.kind = "error" \/ DefaultZiskMaxSteps < BenchCap
                      /\ verdict.kind = "error" =>
                           status = "errored" \/ ~proc.table \/ BenchCap < DefaultZiskMaxSteps
    BY DEF ToolsAgree
  <2>1. /\ target = "zisk" /\ dumpDir = FALSE /\ maxSteps \in Nat
        /\ unit \in Units /\ unit.kind = "zkevm" /\ proc \in Procs
        /\ verdict = RunUnit(unit, proc) /\ status = RunnerStatus(unit, proc)
    BY DEF VerdictIInv, JudgedByBoth, BenchTakes, RunnerTakes
  <2>2. /\ BenchCap \in Nat \ {0} /\ DefaultZiskMaxSteps \in Nat \ {0} /\ proc.work \in Nat
        /\ proc.stepsLine \in BOOLEAN /\ proc.ok \in BOOLEAN /\ proc.table \in BOOLEAN
    BY <2>1, VerdictAssumption DEF BenchCap, EffectiveMaxSteps, Procs
  <2>3. unit.input \in {"nil", "missing input", "encode"}
    BY <2>1, UnitKinds
  <2> DEFINE r == BenchRun(unit, proc)
             s == status
             k == verdict.kind
             good == (proc.stepsLine => proc.work < DefaultZiskMaxSteps) /\ proc.ok
             outD == Region(proc, DefaultZiskMaxSteps)
  <2>4. /\ r.err = "missing input" => k = "skip"
        /\ k = "skip" => r.err = "missing input"
        /\ k \in {"skip", "error", "unverified", "fail", "pass"}
        /\ k \in {"skip", "error"} <=> r.err # "nil"
        /\ k = "unverified" <=> r.err = "nil" /\ unit.expected = << >>
        /\ k = "pass" <=> /\ r.err = "nil" /\ unit.expected # << >>
                          /\ Cut(r.out, unit.expected) = unit.expected
    BY <2>1, RunUnitKind
  <2>5. /\ unit.input # "nil" => r.err = unit.input
        /\ unit.input = "nil" =>
             /\ r.err # "missing input"
             /\ r.err = "nil" <=> /\ proc.stepsLine => proc.work < BenchCap
                                  /\ proc.ok /\ proc.table
             /\ r.out = Region(proc, BenchCap)
    BY <2>1, BenchRunErr
  <2>6. /\ s \in {"skipped", "errored", "passed", "failed"}
        /\ s = "skipped" <=> unit.input = "missing input"
        /\ s = "errored" <=> unit.input = "encode" \/ (unit.input = "nil" /\ ~good)
        /\ s = "passed" <=> /\ unit.input = "nil" /\ good
                            /\ unit.expected = << >> \/ Cut(outD, unit.expected) = unit.expected
    BY <2>1, RunnerStatusKind
  <2>7. ASSUME unit.input = "nil", r.err = "nil", good PROVE r.out = outD
    <3>1. CASE proc.stepsLine
      BY <2>5, <2>7, <3>1 DEF Region
    <3>2. CASE BenchCap = DefaultZiskMaxSteps
      BY <2>5, <2>7, <3>2
    <3> QED
      BY <3>1, <3>2
  <2> HIDE DEF r, s, k, outD
  <2>8. CASE unit.input # "nil"
    BY <2>3, <2>4, <2>5, <2>6, <2>8 DEF s, k
  <2>9. CASE unit.input = "nil"
    <3> DEFINE under == proc.stepsLine => proc.work < BenchCap
               underD == proc.stepsLine => proc.work < DefaultZiskMaxSteps
    <3>a. /\ underD => under \/ BenchCap < DefaultZiskMaxSteps
          /\ under => underD \/ DefaultZiskMaxSteps < BenchCap
      <4>1. CASE proc.work < BenchCap /\ proc.work < DefaultZiskMaxSteps
        BY <4>1
      <4>2. CASE ~(proc.work < BenchCap) /\ proc.work < DefaultZiskMaxSteps
        <5>1. proc.work < DefaultZiskMaxSteps /\ DefaultZiskMaxSteps <= BenchCap => proc.work < BenchCap
          BY <2>2
        <5>2. BenchCap < DefaultZiskMaxSteps \/ DefaultZiskMaxSteps <= BenchCap
          BY <2>2
        <5> QED
          BY <4>2, <5>1, <5>2
      <4>3. CASE proc.work < BenchCap /\ ~(proc.work < DefaultZiskMaxSteps)
        <5>1. proc.work < BenchCap /\ BenchCap <= DefaultZiskMaxSteps => proc.work < DefaultZiskMaxSteps
          BY <2>2
        <5>2. DefaultZiskMaxSteps < BenchCap \/ BenchCap <= DefaultZiskMaxSteps
          BY <2>2
        <5> QED
          BY <4>3, <5>1, <5>2
      <4>4. CASE ~(proc.work < BenchCap) /\ ~(proc.work < DefaultZiskMaxSteps)
        BY <4>4
      <4> QED
        BY <4>1, <4>2, <4>3, <4>4
    <3>b. r.err = "nil" <=> under /\ proc.ok /\ proc.table
      BY <2>5, <2>9
    <3>c. good <=> underD /\ proc.ok
      OBVIOUS
    <3> HIDE DEF under, underD, good
    <3>1. good => (r.err = "nil" \/ ~proc.table \/ BenchCap < DefaultZiskMaxSteps)
      BY <3>a, <3>b, <3>c
    <3>2. ~good => (r.err # "nil" \/ DefaultZiskMaxSteps < BenchCap)
      BY <3>a, <3>b, <3>c
    <3> QED
      BY <2>4, <2>5, <2>6, <2>7, <2>9, <3>1, <3>2 DEF s, k
  <2> QED
    BY <2>8, <2>9
<1> QED
  BY <1>1, AlwaysVerdictIInv, PTL

(* bench passes an EEST unit only for a good exit and a region that begins *)
(* with the whole expected output.                                         *)
THEOREM PassesAreEarned == Spec => []PassIsEarned
<1>1. VerdictIInv => PassIsEarned
  <2> SUFFICES ASSUME VerdictIInv, stage = "count", unit.kind = "zkevm", verdict.kind = "pass"
               PROVE  /\ proc.ok
                      /\ Region(proc, BenchCap) # << >>
                      /\ \A i \in 1 .. StatelessOutputSize :
                           Region(proc, BenchCap)[i] = unit.expected[i]
                      /\ verdict.gotSuccess = verdict.expectedSuccess
    BY DEF PassIsEarned
  <2>1. /\ target = "zisk" /\ maxSteps \in Nat /\ unit \in Units /\ proc \in Procs
        /\ verdict = RunUnit(unit, proc)
    BY DEF VerdictIInv, BenchTakes, None
  <2> DEFINE r == BenchRun(unit, proc)
             exp == unit.expected
             out == Region(proc, BenchCap)
  <2>2. /\ r.err = "nil" /\ exp # << >> /\ Cut(r.out, exp) = exp
        /\ verdict.expectedSuccess = SuccessFromOutput(exp)
        /\ verdict.gotSuccess = SuccessFromOutput(Cut(r.out, exp))
    BY <2>1, RunUnitKind
  <2>3. proc.ok /\ r.out = out
    BY <2>1, <2>2, BenchRunErr
  <2>4. verdict.gotSuccess = verdict.expectedSuccess
    BY <2>2
  <2>5. /\ StatelessOutputSize \in Nat \ {0} /\ exp \in Seq(Bytes)
        /\ Len(exp) = StatelessOutputSize
    <3>1. StatelessOutputSize \in Nat \ {0}
      BY VerdictAssumption DEF StatelessOutputSize
    <3>2. exp \in [1 .. StatelessOutputSize -> Bytes]
      BY <2>1, <2>2, UnitKinds
    <3> QED
      BY <3>1, <3>2, SeqDef
  <2>6. out \in Seq(Bytes)
    <3>1. BenchCap \in Nat
      BY <2>1, VerdictAssumption DEF BenchCap, EffectiveMaxSteps
    <3> QED
      BY <2>1, <3>1, RegionIsSeq
  <2> HIDE DEF out, exp, r
  <2>7. Len(out) \in Nat
    BY <2>6, LenProperties
  <2>8. CASE Len(exp) > 0 /\ Len(out) > Len(exp)
    <3>1. SubSeq(out, 1, StatelessOutputSize) = exp
      BY <2>2, <2>3, <2>5, <2>8 DEF Cut
    <3>2. \A i \in 1 .. StatelessOutputSize : out[i] \in Bytes
      BY <2>5, <2>6, <2>7, <2>8, ElementOfSeq
    <3>3. \A i \in 1 .. StatelessOutputSize - 1 + 1 :
            SubSeq(out, 1, StatelessOutputSize)[i] = out[1 + i - 1]
      BY <2>5, <3>2, SubSeqProperties
    <3>4. \A i \in 1 .. StatelessOutputSize : exp[i] = out[i]
      BY <2>5, <3>1, <3>3
    <3>5. out # << >>
      BY <2>5, <2>6, <2>8, EmptySeq
    <3> QED
      BY <2>3, <2>4, <3>4, <3>5 DEF out, exp
  <2>9. CASE ~(Len(exp) > 0 /\ Len(out) > Len(exp))
    <3>1. out = exp
      BY <2>2, <2>3, <2>9 DEF Cut
    <3> QED
      BY <2>2, <2>3, <2>4, <3>1 DEF out, exp
  <2> QED
    BY <2>8, <2>9
<1> QED
  BY <1>1, AlwaysVerdictIInv, PTL

(* A run that reaches a step cap is an error for the tool whose cap it is, *)
(* and no unit enters the statistics with the costs of part of a run.      *)
THEOREM CutRunsNeverJudged == Spec => []CutRunsAreErrors
<1>1. VerdictIInv => CutRunsAreErrors
  <2> SUFFICES ASSUME VerdictIInv, stage = "count"
               PROVE  CutRunsAreErrors!2
    BY DEF CutRunsAreErrors
  <2>1. maxSteps \in Nat /\ unit \in Units /\ proc \in Procs /\ dumpDir \in BOOLEAN
    BY DEF VerdictIInv
  <2>2. /\ verdict = None \/ verdict = RunUnit(unit, proc)
        /\ status = "none" \/ (status = RunnerStatus(unit, proc) /\ unit.kind = "zkevm")
    BY DEF VerdictIInv, RunnerTakes
  <2>3. /\ BenchCap \in Nat \ {0} /\ DefaultZiskMaxSteps \in Nat \ {0} /\ proc.work \in Nat
    BY <2>1, VerdictAssumption DEF BenchCap, EffectiveMaxSteps, Procs
  <2>4. ASSUME target = "zisk", unit.input = "nil", proc.stepsLine, verdict # None,
               proc.work >= BenchCap
        PROVE  verdict.kind = "error"
    <3>0. ~(proc.work < BenchCap)
      BY <2>3, <2>4
    <3>1. BenchRun(unit, proc).err \notin {"nil", "missing input"}
      BY <2>1, <2>4, <3>0, BenchRunErr
    <3> QED
      BY <2>1, <2>2, <2>4, <3>1, RunUnitKind
  <2>5. ASSUME target = "zisk", unit.input = "nil", proc.stepsLine, status # "none", ~dumpDir,
               proc.work >= DefaultZiskMaxSteps
        PROVE  status = "errored"
    <3>1. ~(proc.work < DefaultZiskMaxSteps)
      BY <2>3, <2>5
    <3>2. dumpDir = FALSE
      BY <2>1, <2>5
    <3>3. status = RunnerStatus(unit, proc) /\ unit.kind = "zkevm"
      BY <2>2, <2>5
    <3> QED
      BY <2>1, <2>5, <3>1, <3>2, <3>3, RunnerStatusKind
  <2>6. ASSUME target = "zisk", proc.stepsLine, verdict.kind \in {"pass", "fail", "unverified"}
        PROVE  verdict.costs = "whole"
    <3>1. verdict = RunUnit(unit, proc)
      BY <2>2, <2>6 DEF None
    <3>2. /\ BenchRun(unit, proc).err = "nil"
          /\ verdict.costs = BenchRun(unit, proc).costs
      BY <2>1, <2>6, <3>1, RunUnitKind
    <3>3. unit.input = "nil" /\ proc.work < BenchCap /\ proc.table
      BY <2>1, <2>6, <3>2, BenchRunErr
    <3>4. BenchRun(unit, proc).costs = Costs(proc, BenchCap)
      BY <2>1, <2>6, <3>3, BenchRunErr
    <3> QED
      BY <3>2, <3>3, <3>4 DEF Costs
  <2>7. ASSUME verdict.kind \in {"skip", "error"}
        PROVE  verdict.costs = "none" /\ ~verdict.gotSuccess
    <3>1. verdict = RunUnit(unit, proc)
      BY <2>2, <2>7 DEF None
    <3>2. /\ BenchRun(unit, proc).err # "nil"
          /\ ~verdict.gotSuccess
          /\ verdict.kind = "skip" => BenchRun(unit, proc).err = "missing input"
          /\ verdict.costs = IF verdict.kind = "error" THEN "none" ELSE BenchRun(unit, proc).costs
      BY <2>1, <2>7, <3>1, RunUnitKind
    <3>3. target \in {"zisk", "openvm"}
      BY DEF VerdictIInv
    <3> QED
      BY <2>1, <2>7, <3>2, <3>3, SkippedCostsNothing
  <2> QED
    BY <2>4, <2>5, <2>6, <2>7
<1> QED
  BY <1>1, AlwaysVerdictIInv, PTL
===============================================================================
