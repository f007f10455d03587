--------------------------------- MODULE Report -------------------------------
(***************************************************************************)
(* What bench makes of its results (src/bench/main.go, main after runAll): *)
(* it sorts the units out by verdict, puts the measured ones in order,     *)
(* prints a summary, writes the HTML report and, if asked to, a CSV file.  *)
(* Of the costs there is one number per unit, the total (for openvm the    *)
(* instructions, which are the only part of it): the other columns are     *)
(* computed in the same way.                                               *)
(***************************************************************************)
EXTENDS Slices

CONSTANTS MaxRows,        \* bound: units in a run
          Identities,     \* units there may be: [kind, suite, label, num, path, pos]
          Fates,          \* what running one may give: [runErr, execErr, expected,
                          \* match, out, gas, cost]
          Decimal,        \* a number's digits, as a place in the order of strings
          Word,           \* how many values a uint64 has
          MaxChartUnits,  \* maxChartUnits
          Targets

(* Strings are numbers here, their places in the order of strings: a unit's*)
(* suite, its label and the path of its file. `pos' is its place in the    *)
(* file, 1 in a corpus file, which has one unit. A corpus unit's number is *)
(* read from its file's name, and is 0 for a name without one; an EEST     *)
(* block has a number of its own. Of a fate, `expected' is the success flag*)
(* of a corpus fixture, `match' how the output compares with an EEST       *)
(* fixture's, and `out' what the output region says: too short to decode,  *)
(* or its valid byte is 0, 1 or another one.                               *)
Nums   == {u.num : u \in Identities}
Labels == {u.label : u \in Identities}

ASSUME ReportAssumption ==
  /\ MaxRows \in Nat \ {0}
  /\ \A u \in Identities :
       /\ u.kind \in {"corpus", "zkevm"} /\ u.suite \in Nat /\ u.label \in Nat
       /\ u.num \in Nat /\ u.path \in Nat /\ u.pos \in Nat
       /\ u.kind = "corpus" => u.pos = 1
  /\ \A u, w \in Identities : u.path = w.path =>
       /\ u.kind = w.kind /\ u.suite = w.suite
       /\ u.pos = w.pos => u = w
  /\ \A f \in Fates :
       /\ f.runErr \in {"nil", "missing", "other"}
       /\ f.execErr \in BOOLEAN /\ f.expected \in BOOLEAN
       /\ f.match \in {"none", "match", "mismatch"}
       /\ f.out \in {"short", "invalid", "valid", "other"}
       /\ f.gas \in Nat /\ f.cost \in Nat
  /\ Decimal \in [Nums -> Nat] /\ IsInjective(Decimal)
  /\ Word \in Nat \ {0} /\ MaxChartUnits \in Nat
  /\ Targets \subseteq {"zisk", "openvm"}

VARIABLES target,   \* --target
          all,      \* what runAll returned
          good,     \* the units the statistics are about, in order
          tally,    \* main's counters
          summary,  \* what printSummary printed
          page,     \* the report's data, NoPage before it is written
          csv,      \* the rows of the CSV file
          pc

mainVars == <<target, all, good, tally, summary, page, csv, pc>>

NoPage == [written |-> FALSE]

ReportInit ==
  /\ target \in Targets
  /\ all = << >>
  /\ good = << >>
  /\ tally = [failures |-> 0, unverified |-> 0, skipped |-> 0]
  /\ summary = << >>
  /\ page = NoPage
  /\ csv = << >>
  /\ pc = "run"

(* verifyCorpus: the guest's success against the fixture's flag.           *)
verifyCorpus(f) ==
  IF f.runErr # "nil" THEN "error"
  ELSE IF (~f.execErr) # f.expected THEN "fail" ELSE "pass"

(* verifyEEST: the output against the fixture's, if it has one.            *)
verifyEEST(f) ==
  CASE f.runErr = "missing" -> "skip"
    [] f.runErr = "other"   -> "error"
    [] f.runErr = "nil"     ->
         CASE f.match = "none"     -> "unverified"
           [] f.match = "mismatch" -> "fail"
           [] f.match = "match"    -> "pass"

Verify(u, f) == IF u.kind = "corpus" THEN verifyCorpus(f) ELSE verifyEEST(f)

ErrOfAnyRun(v, f) == f.runErr

(* Only a verdict of error makes an error row.                             *)
ErrOf(v, f) == IF v = "error" THEN f.runErr ELSE "nil"

(* runUnit's row. An errored run reports no costs and no error of the      *)
(* guest.                                                                  *)
Row(id, u, f) ==
  LET v == Verify(u, f) IN
    [id |-> id, kind |-> u.kind, suite |-> u.suite, label |-> u.label, num |-> u.num,
     path |-> u.path, pos |-> u.pos, verdict |-> v, validationOK |-> v = "pass",
     err |-> ErrOf(v, f), execErr |-> v # "error" /\ f.execErr, out |-> f.out,
     gas |-> f.gas, cost |-> IF v = "error" THEN 0 ELSE f.cost]

(* Only an EEST block may have no input, and then nothing runs. openvm is  *)
(* refused for EEST; there a short region is an error of the run and the   *)
(* guest's error is the valid byte 0 itself (runHost).                     *)
Possible(u, f) ==
  /\ f.runErr = "missing" =>
       u.kind = "zkevm" /\ ~f.execErr /\ f.cost = 0 /\ f.out = "short"
  /\ target = "openvm" =>
       /\ u.kind = "corpus"
       /\ f.runErr = "nil" => f.out # "short" /\ (f.execErr <=> f.out = "invalid")

(* The jobs are sorted by path, and a file's units are in one order. A path*)
(* is compared with another byte by byte: this is not an order by suite,   *)
(* for a file may stand beside a directory that comes before it, and not an*)
(* order by number.                                                        *)
InPathOrder(s) ==
  \A i, j \in DOMAIN s : i < j =>
    \/ s[i].path < s[j].path
    \/ s[i].path = s[j].path /\ s[i].pos < s[j].pos

(* runAll returns one more row (module Bench has how it gets them, module  *)
(* Verdict more of how they are judged).                                   *)
RunAll ==
  /\ pc = "run"
  /\ Len(all) < MaxRows
  /\ \E u \in Identities, f \in Fates :
       Possible(u, f) /\ all' = Append(all, Row(Len(all) + 1, u, f))
  /\ InPathOrder(all')
  /\ UNCHANGED <<target, good, tally, summary, page, csv, pc>>

-------------------------------------------------------------------------------
(* Order                                                                   *)

LessByLabel(a, b) == a.label < b.label

(* sortResults' comparison: it is an order among rows of one kind.         *)
Less(a, b) ==
  IF a.kind = "zkevm" \/ b.kind = "zkevm"
    THEN \/ a.suite < b.suite
         \/ a.suite = b.suite /\ a.label < b.label
         \/ a.suite = b.suite /\ a.label = b.label /\ a.num < b.num
    ELSE a.num < b.num

OneKind(rs) == \A i, j \in DOMAIN rs : rs[i].kind = rs[j].kind

(* sortResults, as what it may leave: with a comparison that is not an     *)
(* order, any arrangement.                                                 *)
SortedResults(rs) ==
  IF OneKind(rs) THEN {SliceStable(Less, rs)}
  ELSE {s \in [DOMAIN rs -> Range(rs)] : IsInjective(s) /\ Range(s) = Range(rs)}

(* unitCell, as a place in the order of strings.                           *)
unitCell(r) == IF r.kind = "zkevm" THEN r.label ELSE Decimal[r.num]

ByUnit(s) == SliceStable(LAMBDA a, b : unitCell(a) < unitCell(b), s)

-------------------------------------------------------------------------------
(* Statistics                                                              *)

NoStats == [min |-> 0, p50 |-> 0, max |-> 0, avg |-> 0]

ComputeStatsLow(vals) ==
  IF vals = << >> THEN NoStats
  ELSE LET s == Ascending(vals)
       IN [min |-> s[1], p50 |-> s[(Len(s) + 1) \div 2], max |-> s[Len(s)],
           avg |-> (Total(s) % Word) \div Len(s)]

(* computeStats; the sum is a uint64.                                      *)
ComputeStats(vals) ==
  IF vals = << >> THEN NoStats
  ELSE LET s == Ascending(vals)
       IN [min |-> s[1], p50 |-> s[Len(s) \div 2 + 1], max |-> s[Len(s)],
           avg |-> (Total(s) % Word) \div Len(s)]

CostsOf(rs) == [i \in DOMAIN rs |-> rs[i].cost]

(* partitionByGas                                                          *)
Worked(rs) == Filter(rs, LAMBDA r : r.gas > 0)
Empty(rs)  == Filter(rs, LAMBDA r : r.gas = 0)

SuiteNames(rs) == Ascending(SetToSeq({rs[i].suite : i \in DOMAIN rs}))

SuiteMedians(rs) ==
  LET names == SuiteNames(rs) IN
    [i \in DOMAIN names |->
       ComputeStats(CostsOf(Filter(rs, LAMBDA r : r.suite = names[i]))).p50]

-------------------------------------------------------------------------------
(* main                                                                    *)

(* The verdicts whose units go to good: they ran and have costs.           *)
Measured == {"pass", "fail", "unverified"}

Of(rs, verdicts) == Filter(rs, LAMBDA r : r.verdict \in verdicts)

Tally == [failures   |-> Len(Of(all, {"fail"})),
          unverified |-> Len(Of(all, {"unverified"})),
          skipped    |-> Len(Of(all, {"skip"}))]

(* The loop over the results, and sortResults(good).                       *)
Classify ==
  /\ pc = "run" /\ all # << >>
  /\ good' \in SortedResults(Of(all, Measured))
  /\ tally' = Tally
  /\ pc' = IF good' = << >> THEN "report" ELSE "summary"
  /\ UNCHANGED <<target, all, summary, page, csv>>

NoUnits ==
  /\ pc = "run" /\ all = << >>
  /\ pc' = "fatal"
  /\ UNCHANGED <<target, all, good, tally, summary, page, csv>>

Table(rs) == [over |-> rs, stats |-> ComputeStats(CostsOf(rs))]

(* printSummary: with zero-gas units about, the statistics leave them out  *)
(* and, except with openvm, they get a table of their own.                 *)
Summary ==
  <<Table(Worked(good))>> \o
    (IF Empty(good) # << >> /\ target # "openvm" THEN <<Table(Empty(good))>> ELSE << >>)

PrintSummary ==
  /\ pc = "summary"
  /\ summary' = Summary
  /\ pc' = "report"
  /\ UNCHANGED <<target, all, good, tally, page, csv>>

EmptyCountOfAll == Len(Empty(all))

EmptyCount == Len(Empty(good))

(* decodeStatelessOutput: a region that cannot be decoded is no success.   *)
Success(r) == r.out = "valid"

(* The tables of a report next to the raw one, from all the results, by    *)
(* what runUnit left in each row.                                          *)
SideTables ==
  [execFailed |-> ByUnit(Filter(all, LAMBDA r : r.err = "nil" /\ r.execErr /\ r.validationOK)),
   failures   |-> ByUnit(Filter(all, LAMBDA r : r.err = "nil" /\ r.verdict = "fail")),
   errors     |-> ByUnit(Filter(all, LAMBDA r : r.err # "nil")),
   skips      |-> ByUnit(Of(all, {"skip"})),
   unverified |-> ByUnit(Of(all, {"unverified"}))]

(* Above maxChartUnits the charts by unit give way to a cost curve and the *)
(* medians of the suites.                                                  *)
Scaled == Len(good) > MaxChartUnits

StatRow == ComputeStats(CostsOf(good))

(* Each unit's suite as an index into the names, for the script.           *)
UnitSuiteIdx ==
  LET names == SuiteNames(good) IN
    [i \in DOMAIN good |-> CHOOSE k \in DOMAIN names : names[k] = good[i].suite]

(* writeReport's data for the template and the script.                     *)
ReportData ==
  [written      |-> TRUE,
   stats        |-> StatRow,
   scaled       |-> Scaled,
   rankCosts    |-> IF Scaled THEN Ascending(CostsOf(good)) ELSE << >>,
   suiteLabels  |-> SuiteNames(good),
   suiteMedians |-> IF Scaled THEN SuiteMedians(good) ELSE << >>,
   unitSuiteIdx |-> UnitSuiteIdx,
   emptyCount   |-> EmptyCount,
   raw          |-> good,
   side         |-> SideTables]

(* The report, which may fail to be written.                               *)
WriteReport ==
  /\ pc = "report"
  /\ \/ page' = ReportData /\ pc' \in {"csv", "done"}   \* --csv is given or not
     \/ page' = page /\ pc' = "fatal"
  /\ UNCHANGED <<target, all, good, tally, summary, csv>>

(* A failure leaves any number of the rows in the file.                    *)
WriteCSV ==
  /\ pc = "csv"
  /\ \/ csv' = good /\ pc' = "done"
     \/ pc' = "fatal" /\ \E k \in 0 .. Len(good) : csv' = SubSeq(good, 1, k)
  /\ UNCHANGED <<target, all, good, tally, summary, page>>

ReportNext == RunAll \/ Classify \/ NoUnits \/ PrintSummary \/ WriteReport \/ WriteCSV
===============================================================================
