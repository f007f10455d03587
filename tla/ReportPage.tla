------------------------------- MODULE ReportPage -----------------------------
(***************************************************************************)
(* The HTML report in the hands of its reader (the template and the script *)
(* in src/bench/main.go). The page has a box to leave out the units that   *)
(* used no gas, and a raw table with a search field, a box for failures    *)
(* only and columns to sort by. Each handler recomputes a part of what is  *)
(* shown from the arrays in the page, by its own copy of the statistics.   *)
(* The numbers of the script are doubles: they do not wrap, but above 2^53 *)
(* they are rounded.                                                       *)
(***************************************************************************)
EXTENDS Report

CONSTANTS Exact,    \* 2^53: up to here a double has every integer
          Collated, \* a label's place in the reader's locale, the order of localeCompare
          Columns,  \* bound: the columns that are clicked, of "unit", "gas", "total"
          Queries   \* what is searched for, as the set of texts it is part of

(* What the first column of a row may show; all of it has the empty search *)
(* as a part.                                                              *)
Texts == {unitCell(u) : u \in Identities}

ASSUME PageAssumption ==
  /\ Exact \in Nat \ {0} /\ Exact < Word
  /\ Collated \in [Labels -> Nat]
  /\ Columns \subseteq {"unit", "gas", "total"}
  /\ Queries \subseteq SUBSET Texts

VARIABLES excludeEmpty,  \* the box is checked
          failOnly,      \* its box is checked
          query,         \* rawSearch
          sortDir,       \* [column |-> ascending] of the last click
          shown,         \* what the reader sees, Unopened before
          threw          \* a handler ended in a TypeError

pageVars == <<excludeEmpty, failOnly, query, sortDir, shown, threw>>
vars     == <<mainVars, pageVars>>

Unopened == [open |-> FALSE]
Unsorted == [column |-> "none", asc |-> FALSE]

Init ==
  /\ ReportInit
  /\ excludeEmpty = FALSE
  /\ failOnly = FALSE
  /\ query = Texts
  /\ sortDir = Unsorted
  /\ shown = Unopened
  /\ threw = FALSE

-------------------------------------------------------------------------------
(* The script's numbers                                                    *)

(* The distance between doubles at x.                                      *)
Ulp(x) == Min({e \in {2 ^ k : k \in 0 .. x} : x <= Exact * e})

(* The nearest multiple of e, of two the even one.                         *)
RoundTo(x, e) ==
  LET q == x \div e
      r == x % e
  IN e * (IF 2 * r > e \/ (2 * r = e /\ q % 2 = 1) THEN q + 1 ELSE q)

(* What the script has for a number in the page or a sum it computed.      *)
Double(x) == IF x <= Exact THEN x ELSE RoundTo(x, Ulp(x))

Doubles(v) == [k \in DOMAIN v |-> Double(v[k])]

-------------------------------------------------------------------------------
(* Opening the page                                                        *)

(* The elements of the page that depend on its data.                       *)
HasToolbar  == page.emptyCount > 0
HasRawTable == page.raw # << >>

(* The script's arrays are all in the order of the raw table.              *)
Indices == [i \in DOMAIN page.raw |-> i]

(* The charts as they are made: by rank and by suite in a scaled report,   *)
(* else by unit, of the time and, with zisk, of the total and its parts, or*)
(* with openvm of the instructions.                                        *)
RankChart        == Doubles(page.rankCosts)
SuiteChart       == IF page.scaled THEN page.suiteLabels ELSE << >>
MedianBars       == Doubles(page.suiteMedians)
UnitCharts       == IF page.scaled THEN << >> ELSE Indices
InstructionChart == IF ~page.scaled /\ target = "openvm" THEN Indices ELSE << >>

(* The page as the template wrote it and the script completed it. The raw  *)
(* table has its rows, by index, and the ones not displayed. `said' is     *)
(* statScope: how many units are in scope and how many used no gas. (A     *)
(* report whose CSV file could not be written is the same page.)           *)
Open ==
  /\ pc = "done"
  /\ shown = Unopened
  /\ shown' = [open         |-> TRUE,
               stats        |-> page.stats,
               said         |-> <<Len(page.raw), page.emptyCount>>,
               rank         |-> RankChart,
               suites       |-> SuiteChart,
               medians      |-> MedianBars,
               units        |-> UnitCharts,
               instructions |-> InstructionChart,
               rows         |-> Indices,
               hidden       |-> {}]
  /\ UNCHANGED <<mainVars, excludeEmpty, failOnly, query, sortDir, threw>>

-------------------------------------------------------------------------------
(* The loop of statsOf that adds the numbers up.                           *)
SumOf(s) ==
  LET sum[n \in 0 .. Len(s)] == IF n = 0 THEN 0 ELSE Double(sum[n - 1] + s[n])
  IN sum[Len(s)]

(* statsOf: like computeStats, but the sum is one of doubles. (The quotient*)
(* is rounded as well, which changes no average of a sum up to 2^53.)      *)
StatsOf(vals) ==
  IF vals = << >> THEN NoStats
  ELSE LET s == Ascending(vals)
       IN [min |-> s[1], p50 |-> s[Len(s) \div 2 + 1], max |-> s[Len(s)],
           avg |-> SumOf(s) \div Len(s)]

(* scopeIdx                                                                *)
ScopeIdx(se) == Filter(Indices, LAMBDA i : ~se \/ page.raw[i].gas > 0)

Pick(idx) == [k \in DOMAIN idx |-> Double(page.raw[idx[k]].cost)]

HiddenIgnoringBox(fo, q, se) ==
  {i \in DOMAIN page.raw :
     ~(/\ unitCell(page.raw[i]) \in q
       /\ fo => ~Success(page.raw[i]))}

(* applyRawFilters, as the rows that it hides. A row of class row-fail is  *)
(* one whose valid byte is not 1.                                          *)
HiddenRows(fo, q, se) ==
  {i \in DOMAIN page.raw :
     ~(/\ unitCell(page.raw[i]) \in q
       /\ fo => ~Success(page.raw[i])
       /\ se => page.raw[i].gas > 0)}

(* refresh. The chart of instructions is not among those it updates, though*)
(* the box is said to apply to the charts; and with no raw table           *)
(* applyRawFilters fails.                                                  *)
Refresh(se) ==
  LET idx    == ScopeIdx(se)
      suites == Ascending(SetToSeq({page.unitSuiteIdx[i] : i \in Range(idx)}))
      median(k) == StatsOf(Pick(Filter(idx, LAMBDA i : page.unitSuiteIdx[i] = k))).p50
  IN [shown EXCEPT
        !.stats   = StatsOf(Pick(idx)),
        !.said    = <<Len(idx), IF se THEN Len(page.raw) - Len(idx) ELSE Len(Empty(page.raw))>>,
        !.rank    = IF page.scaled THEN Ascending(Pick(idx)) ELSE @,
        !.suites  = IF page.scaled THEN [j \in DOMAIN suites |-> page.suiteLabels[suites[j]]] ELSE @,
        !.medians = IF page.scaled THEN [j \in DOMAIN suites |-> median(suites[j])] ELSE @,
        !.units   = IF page.scaled THEN @ ELSE idx,
        !.hidden  = IF HasRawTable THEN HiddenRows(failOnly, query, se) ELSE @]

ToggleExclude ==
  /\ shown.open /\ HasToolbar
  /\ excludeEmpty' = ~excludeEmpty
  /\ shown' = Refresh(excludeEmpty')
  /\ threw' = (threw \/ ~HasRawTable)
  /\ UNCHANGED <<mainVars, failOnly, query, sortDir>>

ToggleFailOnly ==
  /\ shown.open /\ HasRawTable
  /\ failOnly' = ~failOnly
  /\ shown' = [shown EXCEPT !.hidden = HiddenRows(failOnly', query, excludeEmpty)]
  /\ UNCHANGED <<mainVars, excludeEmpty, query, sortDir, threw>>

Search(q) ==
  /\ shown.open /\ HasRawTable
  /\ q # query
  /\ query' = q
  /\ shown' = [shown EXCEPT !.hidden = HiddenRows(failOnly, q, excludeEmpty)]
  /\ UNCHANGED <<mainVars, excludeEmpty, failOnly, sortDir, threw>>

(* What a cell has a number for: all but the name of an EEST unit.         *)
HasNumber(r, col) == col # "unit" \/ r.kind = "corpus"

NumberIn(r, col) ==
  CASE col = "unit"  -> r.num
    [] col = "gas"   -> r.gas
    [] col = "total" -> r.cost

(* sortTable's comparison of two rows: as numbers if both cells parse as   *)
(* such, else as text, where digits come before a name.                    *)
CellLess(i, j, col) ==
  LET a == page.raw[i]
      b == page.raw[j]
  IN \/ HasNumber(a, col) /\ HasNumber(b, col) /\ Double(NumberIn(a, col)) < Double(NumberIn(b, col))
     \/ HasNumber(a, col) /\ ~HasNumber(b, col)
     \/ ~HasNumber(a, col) /\ ~HasNumber(b, col) /\ Collated[a.label] < Collated[b.label]

(* sortTable: up at the first click on a column, then down and up in turn. *)
SortTable(col) ==
  /\ shown.open /\ HasRawTable
  /\ LET asc == ~(sortDir.column = col /\ sortDir.asc)
         less(a, b) == IF asc THEN CellLess(a, b, col) ELSE CellLess(b, a, col)
     IN /\ sortDir' = [column |-> col, asc |-> asc]
        /\ shown' = [shown EXCEPT !.rows = SliceStable(less, @)]
  /\ UNCHANGED <<mainVars, excludeEmpty, failOnly, query, threw>>

Main == ReportNext /\ UNCHANGED pageVars

Next ==
  \/ Main
  \/ Open \/ ToggleExclude \/ ToggleFailOnly
  \/ \E q \in Queries \cup {Texts} : Search(q)
  \/ \E col \in Columns : SortTable(col)

Spec == Init /\ [][Next]_vars

-------------------------------------------------------------------------------
(* Properties                                                              *)

IdsOf(rs) == {rs[i].id : i \in DOMAIN rs}

(* A report loses no unit and shows none twice. main sorts the results out *)
(* by their verdicts, writeReport by the fields that runUnit made of them  *)
(* (Err, ExecError, ValidationOK), and the summary by gas: the raw table,  *)
(* the errors and the skips are together every unit once; the failures, the*)
(* unverified and the expected failures are rows of the raw table, each in *)
(* one of these at most; the numbers main logs are the sizes of the tables;*)
(* and what a zisk summary is computed over is every measured unit once    *)
(* (src/bench/main.go:154, 431, 715, 740, run.go:122).                     *)
TablesPartition ==
  /\ page.written =>
       LET side    == page.side
           special == <<side.failures, side.unverified, side.execFailed>>
       IN /\ Len(page.raw) + Len(side.errors) + Len(side.skips) = Len(all)
          /\ IdsOf(page.raw) \cup IdsOf(side.errors) \cup IdsOf(side.skips) = IdsOf(all)
          /\ \A k \in DOMAIN special :
               /\ IdsOf(special[k]) \subseteq IdsOf(page.raw)
               /\ \A l \in DOMAIN special \ {k} : IdsOf(special[k]) \cap IdsOf(special[l]) = {}
          /\ tally = [failures |-> Len(side.failures), unverified |-> Len(side.unverified),
                      skipped |-> Len(side.skips)]
  /\ summary # << >> /\ target # "openvm" =>
       /\ Total([k \in DOMAIN summary |-> Len(summary[k].over)]) = Len(good)
       /\ UNION {IdsOf(summary[k].over) : k \in DOMAIN summary} = IdsOf(good)

(* Which of two rows of one kind is first: by number in the corpus, by     *)
(* suite, label and number in EEST, and else by the place of the unit in   *)
(* the files, which no run has a part in.                                  *)
Precedes(a, b) ==
  LET key(r) == IF r.kind = "corpus" THEN <<r.num, r.path, r.pos>>
                ELSE <<r.suite, r.label, r.num, r.path, r.pos>>
      ka == key(a)
      kb == key(b)
  IN \E k \in DOMAIN ka : ka[k] < kb[k] /\ \A l \in 1 .. k - 1 : ka[l] = kb[l]

(* In a run of one kind of fixtures the raw table and the CSV file have    *)
(* their rows in an order that the fixtures alone determine, so that the   *)
(* files of two runs can be compared line by line, though the results      *)
(* arrive by path, across suites and numbers; a CSV file that could not be *)
(* finished is a beginning of it (src/bench/main.go:235). In a mixed run   *)
(* the comparison is not an order.                                         *)
RowsInOrder ==
  /\ OneKind(good) => \A i, j \in DOMAIN good : i < j => Precedes(good[i], good[j])
  /\ csv = SubSeq(good, 1, Len(csv))

(* The units that the box lets the statistics and the charts be about.     *)
Scope == {i \in DOMAIN good : excludeEmpty => good[i].gas > 0}

(* Half of the units, rounded down, may be below the median and more than  *)
(* that are not above it.                                                  *)
IsMedianOf(v, rs, units) ==
  /\ Cardinality({i \in units : rs[i].cost < v}) <= Cardinality(units) \div 2
  /\ Cardinality({i \in units : rs[i].cost <= v}) > Cardinality(units) \div 2
  /\ \E i \in units : rs[i].cost = v

(* s is the statistics of the units of a set of indices into rs: by        *)
(* counting, without sorting. The average is right if the sum is within the*)
(* limit of the numbers it was computed with.                              *)
IsStatsOf(s, rs, units, limit) ==
  LET n   == Cardinality(units)
      sum == Cardinality(UNION {{i} \X (1 .. rs[i].cost) : i \in units})
      some(v) == \E i \in units : rs[i].cost = v
  IN IF units = {} THEN s = NoStats
     ELSE /\ some(s.min) /\ \A i \in units : rs[i].cost >= s.min
          /\ some(s.max) /\ \A i \in units : rs[i].cost <= s.max
          /\ IsMedianOf(s.p50, rs, units)
          /\ sum <= limit => s.avg * n <= sum /\ sum < (s.avg + 1) * n

(* The costs of the report are numbers that the script has exactly.        *)
ExactCosts == \A i \in DOMAIN good : good[i].cost <= Exact

(* Every row of statistics, the summary's, the report's and what the script*)
(* puts in its place after any sequence of events, is the minimum, median, *)
(* maximum and average of the very units it is said to be about: the two   *)
(* copies of the algorithm agree (src/bench/main.go:386, 1306, 1319). Go's *)
(* average holds unless the sum of the costs wraps. The script's numbers   *)
(* hold as long as no cost is above 2^53, and its average if the sum is not*)
(* either: beyond that the page is rounded, and the claim at main.go:1306  *)
(* to mirror computeStats exactly is not met.                              *)
StatsAreRight ==
  /\ \A k \in DOMAIN summary :
       IsStatsOf(summary[k].stats, summary[k].over, DOMAIN summary[k].over, Word - 1)
  /\ page.written => IsStatsOf(page.stats, good, DOMAIN good, Word - 1)
  /\ shown.open /\ ExactCosts => IsStatsOf(shown.stats, good, Scope, Exact)

(* The numbers of a column are such.                                       *)
ExactColumn(col) == \A i \in DOMAIN good : NumberIn(good[i], col) <= Exact

TableFollows ==
  LET rows == shown.rows IN
    /\ IsInjective(rows) /\ Range(rows) = DOMAIN good
    /\ sortDir # Unsorted /\ ExactColumn(sortDir.column) => \A i, j \in DOMAIN rows : i < j =>
         IF sortDir.asc THEN ~CellLess(rows[j], rows[i], sortDir.column)
                        ELSE ~CellLess(rows[i], rows[j], sortDir.column)

FiltersFollow ==
  \A i \in DOMAIN good : i \notin shown.hidden <=>
    i \in Scope /\ unitCell(good[i]) \in query /\ (failOnly => good[i].out # "valid")

CurveFollows ==
  /\ Len(shown.rank) = Cardinality(Scope)
  /\ \A k \in DOMAIN shown.rank :
       /\ Cardinality({i \in Scope : good[i].cost < shown.rank[k]}) < k
       /\ Cardinality({i \in Scope : good[i].cost <= shown.rank[k]}) >= k

SuitesFollow ==
  /\ Range(shown.suites) = {good[i].suite : i \in Scope}
  /\ Len(shown.suites) = Cardinality(Range(shown.suites))
  /\ ExactCosts => \A k \in DOMAIN shown.suites :
       IsMedianOf(shown.medians[k], good, {i \in Scope : good[i].suite = shown.suites[k]})

(* After any sequence of events the page shows what its controls say: the  *)
(* table has every row once, sorted by the last column that was clicked,   *)
(* and displays exactly the rows that pass all three filters; the line says*)
(* how many units are in scope; the curve has their costs in order; and the*)
(* bars are the suites with a unit in scope, each with its median. The     *)
(* costs and the order of a column are the report's where its numbers are  *)
(* not above 2^53. All but openvm's chart of instructions, which keeps     *)
(* every unit (src/bench/main.go:1268, 1290, 1332).                        *)
ViewFollowsControls ==
  shown.open =>
    /\ TableFollows
    /\ FiltersFollow
    /\ shown.said = <<Cardinality(Scope), page.emptyCount>>
    /\ page.scaled => (ExactCosts => CurveFollows) /\ SuitesFollow
    /\ ~page.scaled => Range(shown.units) = Scope

(* No handler looks for an element that this page does not have: refresh   *)
(* calls applyRawFilters without asking whether there is a raw table       *)
(* (src/bench/main.go:1294, 1386).                                         *)
NoMissingElement == ~threw

-------------------------------------------------------------------------------
(* The inductive invariant                                                 *)

RowType ==
  [id : Nat, kind : {"corpus", "zkevm"}, suite : Nat, label : Labels, num : Nums,
   path : Nat, pos : Nat, verdict : {"pass", "fail", "unverified", "skip", "error"},
   validationOK : BOOLEAN, err : {"nil", "missing", "other"}, execErr : BOOLEAN,
   out : {"short", "invalid", "valid", "other"}, gas : Nat, cost : Nat]

(* The fields that runUnit makes of a verdict say the same as the verdict. *)
RowAgrees(r) == (r.err # "nil" <=> r.verdict = "error") /\ (r.validationOK <=> r.verdict = "pass")

(* The units are numbered as runAll returned them, file after file.        *)
RowsKnow ==
  /\ all \in Seq(RowType) /\ InPathOrder(all)
  /\ \A i \in DOMAIN all : all[i].id = i /\ unitCell(all[i]) \in Texts /\ RowAgrees(all[i])

Blank == good = << >> /\ summary = << >> /\ page = NoPage /\ csv = << >>

(* Whatever main has computed, it computed from all the units.             *)
MainKnows ==
  /\ pc = "run" => Blank
  /\ \/ Blank /\ pc \in {"run", "fatal"}
     \/ good \in SortedResults(Of(all, Measured)) /\ tally = Tally
  /\ summary = << >> \/ summary = Summary
  /\ page = NoPage \/ page = ReportData
  /\ pc \in {"csv", "done"} => page = ReportData
  /\ \E k \in 0 .. Len(good) : csv = SubSeq(good, 1, k)

Parts == {"open", "stats", "said", "rank", "suites", "medians", "units", "instructions", "rows",
          "hidden"}

(* The page is opened with its controls as the template has them.          *)
ShownKnows ==
  /\ excludeEmpty \in BOOLEAN /\ failOnly \in BOOLEAN
  /\ \/ shown = Unopened /\ ~excludeEmpty /\ ~failOnly /\ query = Texts /\ sortDir = Unsorted
     \/ /\ pc = "done"
        /\ shown = [part \in Parts |-> shown[part]] /\ shown.open = TRUE
        /\ shown.rows \in Seq(DOMAIN good)
        /\ sortDir \in {Unsorted} \cup [column : {"unit", "gas", "total"}, asc : BOOLEAN]

PageIInv ==
  /\ RowsKnow /\ MainKnows /\ ShownKnows
  /\ NoMissingElement /\ ViewFollowsControls
  /\ shown.open /\ ExactCosts => IsStatsOf(shown.stats, good, Scope, Exact)
===============================================================================
