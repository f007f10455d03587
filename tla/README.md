# stateless-executor in TLA+

TLA+ models of stateless-executor, the TLC configurations that check them on
small instances, and TLAPS proofs of their main invariants for all instances.

stateless-executor fetches Ethereum blocks with their execution witnesses from
EL nodes, encodes them as SSZ input and runs guest programs that validate them
statelessly. `main.go` does so for live blocks or for a single one; the tools
`bench` and `cmd/zkevm-runner` do so for fixture files under a zkVM emulator.

## The parts of the system

| Part | Source | State | Operations | Interacts with |
|---|---|---|---|---|
| EL pool | `pool/pool.go` | `nodes`, `robin`, `seen`, channel `Heads` | `New`, `Run`/`poll`, `next`, `Pick`, `CallRaw` | polls EL nodes in a goroutine of its own; main receives from `Heads`; `Fetch` calls `Pick` |
| Result store | `store/store.go` | ring of 1000 results under an RWMutex | `Add`, `All`, `/results` handler | guest goroutines add, HTTP handlers read |
| Metrics | `metrics/metrics.go` | counters, gauges, a histogram | set by pool, main and runner | `/metrics` |
| Live mode | `main.go` `main` | the block in progress | select loop, guest goroutines, shutdown | pool, Fetch, runner, store, HTTP server |
| One-shot and dump | `main.go` `runBlock`, `dumpBlock` | `exitCode`, the dump file | the same once, or write the input | pool, Fetch, runner, file system |
| Fetch pipeline | `pipeline/pipeline.go` | none between calls | four RPC calls and one engine call, hash checks, encoding | pool, EL node, engine API |
| Guest runner | `runner/runner.go` | none | `ParseGuestSpecs`, `Run` | guest processes, metrics |
| bench runner | `bench/run.go` | semaphore, wait group, progress counters, `perFile` | `runAll`, `runUnit`, `printProgress` | one goroutine per file |
| bench verdicts | `bench/units.go`, `bench/main.go` | the tally | `expand*`, `verifyEEST`, `verifyCorpus`, main's loop over the results | emu |
| Emulator wrapper | `emu/emu.go` | temporary files | `Run`, `runHost`, the parsers | ziskemu, zesu-openvm-runner, zesu-pico-runner |
| zkevm-runner | `cmd/zkevm-runner/main.go` | the items, a semaphore, the results | `collectJSON`, the worker loop, `runOne`, `dumpOne`, `printSummary`, `writeReport` | emu, one goroutine per block |
| bench reports | `bench/main.go` | the rows, their order, what the page shows | `sortResults`, `printSummary`, `writeReport`, `writeCSV`, the page's script | reads what `runAll` returned |
| Fixture discovery | `bench/discover.go`, `fixture/format.go` | the jobs found, the entries skipped | `discover`, `SniffFormat`, `printCensus` | file system; feeds `runAll` |
| Fixture loading, SSZ encoders, genesis, zesu-convert | `fixture/*`, `cmd/zesu-convert` | none | pure functions and file I/O | - |

What is hard to get right in it: the lock of the store and its modular
indices; a poller and a consumer that share a counter and a bounded channel
that drops; a select that may prefer work to shutdown; guest goroutines that
must all end before the next block; RPC calls by number while the chain is
reorganised; early returns that must give back a semaphore token; the many
ways in which one emulator run can go wrong at once; a walk that must not lose
files to one bad entry; tallies and statistics computed in two or three places;
a page whose controls each redraw a part of it. `PROJECT.json` lists each
of these hazards at its line, with the properties aimed at it.

## The modules

| Module | Models | Uses |
|---|---|---|
| `BoundedLog` | what the store promises: the last `capacity` results, and answers that are exactly those | - |
| `RingBuffer` | `store.go`, assignment by assignment | instantiates `BoundedLog` |
| `Pool` | `pool.go` with a consumer | - |
| `Live` | live mode of `main.go`, `runner.Run`, the metrics | extends `Pool`; the store is a bounded log |
| `Fetch` | `pipeline.Fetch` call by call | - |
| `OneShot` | the start of `main`, `runBlock`, `dumpBlock` | extends `Fetch` |
| `ParallelMap` | what a worker loop promises: every item once, at most so many at a time, each result at its place, none handed on before all are there | - |
| `Bench` | `runAll` of bench | instantiates `ParallelMap` |
| `Slices` | filtering, sorting and adding up a slice, as loops | - |
| `Discover` | `discover`, `SniffFormat` and `printCensus` of bench, `collectJSON` of zkevm-runner | extends `Slices` |
| `ZkevmRunner` | `main` of zkevm-runner from the command line to the report | extends `Discover`, instantiates `ParallelMap` |
| `Report` | `main` of bench after `runAll`: rows, sorting, summary, statistics, CSV | extends `Slices` |
| `ReportPage` | the data of the HTML report and the handlers of its script | extends `Report` |
| `Verdict` | `emu.Run`, `runHost`, the rules and tallies of bench and zkevm-runner | - |
| `RingBufferProofs`, `LiveProofs` (and the pool's), `OneShotProofs` (and those of Fetch), `BenchProofs`, `VerdictProofs`, `ZkevmRunnerProofs` (and those of discovery), `SliceProofs`, `ReportProofs` | the proofs | extend their module and the theorem modules; the proofs about `Discover` and `Report` use `SliceProofs` |
| `MC*` | instances for TLC | extend their module |

Definitions with a suffix that says what is wrong with them (`NextHeadNoWrap`,
`GuestsDoneEarly`, ...) are mutants of the definition that follows: plausible
mistakes in the code, each of which TLC must catch. They are used nowhere else;
`PROJECT.json` says which property each of them violates.

### RingBuffer and BoundedLog

`items`, `head`, `count` are the fields of `RingBuffer`. `adding` says which
assignment the `Add` that holds the lock makes next, `rlocked` who holds it
shared, `out[r]` what reader `r` has copied. An `Add` takes effect when it
writes its item; `Contents` is what the array then stands for, and the
refinement maps `recent` of the log to it.

### Pool

`phase`, `attempt`, `pending`, `healthy` are New's loop; a probe goroutine that
ends is one step (`ProbeOK`, `ProbeFail`), in any order. A poll is two steps,
`PollStarts` (call of `next`, request sent) and `PollAnswered` or `PollFails`,
between which the consumer may receive and `Pick`. `tip[u]` is what node `u`
answers; it goes up and down at will. `dropped` and `asked` record the number
last dropped and the node last asked. `robin` wraps like the uint64 it is, at
`RobinRange`.

### Live

`pc` follows main: `startup`, `select`, `pick` and `fetch` (the node is picked,
the block asked for), `extras` (the witness is there, BAL and requests follow),
`guests`, `shutdown`, `done`, and `fatal` for `log.Fatalf`, which the server's
goroutine may call at any time. `guest[g]` follows a guest's goroutine:
`launched`, `running`, `ran` (counted, not yet published), `done`. A fetch
succeeds only from a node that has the block and with a live context; with
`Faulty` it may also fail for any other reason. Fetch's own steps are in
`Fetch`.

### Fetch

`at` is the next call. `canon` is the block that is canonical at the number;
`Reorg` changes it at any time, and `CtxEnds` ends the context. BAL bytes are
what the code asks of them: nil or not, of no length or some, and the list they
encode, if any (`Nil`, `NoBytes`, `Garbage`, `Rlp`). A list is one that a block
commits to, the empty one, which a block may commit to as well, or `OtherBal`:
`fetchBAL` takes values it cannot parse for zero and goes on. `BalError` is the
length test of Fetch, `verifyBALHash` the nil hash, the failed decoding and the
comparison. Requests are sequences with the type of each; `RequestsEncode` is
what `encodeSszExecutionRequests` accepts, and `Encode` may also fail for a
transaction that does not marshal. Hashes are taken to be collision free: a
hash check succeeds exactly for the value the header commits to.

### OneShot

`config` holds what the environment variables say, over all combinations.
`guest` and `exitCode` are runBlock's; the goroutines write `exitCode` without
a lock, but only the value 1, so the write is one step. `file` is the dump:
opening truncates it (`partial`), writing completes it or fails, and `Killed`
ends the process between any two steps.

### Bench

`worker[f]` follows file `f`'s goroutine; `sem`, `wg`, `done`, `total` and
`perFile` are the variables of runAll. Counting a unit and reading the total
for its progress line are two steps. As a parallel map, the items are the
files, `active` the files that hold a token, `value` what `perFile` holds, and
the answer for a file is its stretch of the results that runAll returns
(`ResultsOf`).

### Slices

A filter, a sort and a sum are loops over a slice, written as recursive
functions of how many elements were passed. `SliceStable` inserts one element
after another from the right. For a `less` that is an order any stable sort has
that result, and `sort.Slice` too where keys differ; where it is none (`Less` in
a mixed run) the model allows every arrangement (`SortedResults`).

### Discover

The tree is a set of entries with their directories (`Above`) and two orders:
that of the walk and that of the paths, which differ (`a` comes before `a-`,
`a-/2` before `a/1`). A visit of one entry is one step, with the code's rules
for hidden, unreadable and unrecognised ones; a file is what it really is
(`format`) and the keys that appear in its first 8 KiB (`seen`), from which
`SniffFormat` guesses. A behaviour chooses a tool, a command line and a tree;
`RunnerFindsWhatBenchFinds` compares zkevm-runner's files with the ones bench
would find in the same tree.

### ZkevmRunner

`worker[i]` follows the goroutine of block `i`; main itself takes the token
before it starts the goroutine, so a channel without room stops main. What a
run comes to is the error and the match that `Verdict` works out, in any
combination it allows. `results` is written by index and `rows` is what the
sort by name makes of it, which is not stable: any order sorted by name is
allowed. `lines`, `summary` and `report` are the three counts, each by its own
conditions. A dump that fails may leave a part of its file.

### Report and ReportPage

A row is what `runUnit` makes of a unit (`Identities`) and of what running it
gave (`Fates`): `verifyCorpus` or `verifyEEST` judges it, and `Err`, `ExecError`,
`ValidationOK` and the costs are set from the verdict (`ErrOf`, `Row`). main then
sorts the rows out by verdict and writeReport by these fields, as in the code.
Rows arrive by path (`InPathOrder`), which is neither an order by suite (a file
may stand beside a directory that comes before it) nor one by number. Strings
are their places in the order of strings; `Decimal` and `Collated` are the
orders of digits as text and of the reader's locale. Sums wrap at `Word`, as
uint64 does. The script's numbers are doubles: `Double` rounds a number above
`Exact` (2^53) to the nearest one, `SumOf` after every addition. One number
stands for the cost columns, which the code treats alike. The page is a
state of its own: the box that leaves empty units out, the box for failures
only, the search and the column sorted by. The handlers run in any order and
each changes the parts of `shown` that it changes in the script. `threw` says
that a handler used an element the template did not make.

### Verdict

A unit is loaded, judged by both tools and counted. `proc` is what an emulator
can do with it: the steps the guest needs, whether it wrote its output before a
cap stops it, the exit status, which lines are printed, the region. The region
is a sequence of bytes of scaled-down length, so that cutting, padding, the
valid byte and the test for all zeros are the code's own operations on it.
zkevm-runner runs pico exactly like openvm. bench refuses EEST fixtures with
openvm, so the two tools meet on ZisK with EEST fixtures.

## The runs

Runs that pass:

| Run | Instance | Shows |
|---|---|---|
| `ring` | capacity 3, 2 results, 2 readers | indices in range, copies are snapshots, refinement of the bounded log |
| `pool` | 2 nodes, heights to 4, channel of 2, 2 probe rounds, robin modulo 4 | heads in order and once, only a full channel loses one, nodes usable; `New` returns, `Run` ends |
| `live` | 1 node, heights to 3, channel of 1, 2 guests, store of 4 | results in block order, complete per block, no stragglers, counters agree with the store |
| `live_progress` | the same with heights to 2, without symmetry | SIGINT ends the process; queued heads are taken |
| `one_shot` | four competing blocks: one with a BAL and requests, one with the empty BAL and other requests, one without either, one whose requests no input can hold; 2 guests, all configurations | requests and BALErr are right after any reorganisation or failure, exit code is the verdict, dumps are vectors; the program ends |
| `bench` | 3 files of -1 (unreadable) to 2 units, 2 jobs | bounded parallelism, sane progress, sequential results, refinement of the parallel map; runAll ends |
| `verdict` | 1 unit at a time, caps 1 to 3, 3 bytes of region | the tools never contradict each other, passes are earned, capped and cost-less runs are errors |
| `runner` | a tree of 4 directories and 5 files, one directory at a time unreadable; files of up to 2 blocks; 6 command lines for each tool | the walks find what they promise, the census adds up, refinement of the parallel map, the three tallies agree, dumps are kept, only `-jobs` below 1 crashes; the tool ends |
| `report` | up to 3 of 6 units in 2 formats, 2 suites and 5 files, 6 fates, sums modulo 8, doubles exact to 4, charts of at most 2 units, 2 targets | no unit lost or in two tables, total row order, right statistics, no missing element, the page shows what its controls say |

The bounds: the channel of the pool overflows with two heads in flight and the
ring wraps several times; two nodes suffice to lag behind each other; three
blocks suffice for one in progress, one complete and one being evicted; three
files with two tokens make files wait for a token. The judgement of a unit does
not depend on the units before it, so one at a time is enough for `verdict`.
The tree of `runner` has a hidden directory, a root whose name begins with a
dot, two directories that the two orders compare differently, a file that is
not JSON, files whose key lies past the limit, and two tests whose names are
the same once cut off; one suite shown is less than there are. Three rows are
enough for a median with a neighbour on both sides, for a tie and a third row,
and for more units than a chart takes; costs of up to 7 wrap a sum modulo 8 and
are rounded by doubles that are exact to 4, as are sums of smaller ones. The
paths of `report` are not in the order of suites or numbers, 9 comes after 10
as text, and two corpus files have the same number. `runner` takes dumps with
two jobs.
`live` uses the symmetry of the guests, which no property and no action tells
apart; `live_progress` does not, as symmetry is unsound for liveness.

Runs that must fail check a sentence of the repository's own comments, tests
or README against the code, and each is a finding in `PROJECT.json`:

| Run | Sentence | What happens |
|---|---|---|
| `find_witness` | a block and its execution witness (`pipeline.go:1`) | a reorganisation between the two calls mixes two blocks |
| `find_dump_guests` | `GUEST_BINARIES` may be empty (`README.md:88`) | main rejects it before it looks at the mode |
| `find_no_verdict` | no output must never read as a pass (`emu_test.go:141`) | the corpus rule looks at the error line only |

Smaller differences between words and code that showed up on the way and are
not kept as runs:

- `Pick` advances the counter the polls use, so two polls in a row may ask the
  same node (`pool.go:3` says round-robin).
- A head dropped on a full channel never reaches the gauge "Latest block number
  seen by the pool" (`metrics.go:27`).
- A block whose fetch fails is not tried again, also when only the node picked
  lacks it (`README.md:39` says every block).
- `pipeline.go:161` prefers the engine and falls back otherwise; undecodable
  hex is an error that comes with bytes, and only nil bytes lead to the
  fallback.
- The summary of bench counts unverified units as validated
  (`bench/main.go:426`), which `units.go:87` calls neither passes nor failures.
- For openvm it also leaves zero-gas units out, where `bench/main.go:429` says
  that nothing is hidden.
- "A mixed run is well-defined" (`bench/main.go:125`), but corpus rows are
  compared by number and other pairs by label, which is not an order when both
  formats share a suite. `RowsInOrder` speaks of rows of one format.
- The box of `bench/main.go:941` "applies to the stats, charts and the raw
  table"; the openvm instruction chart (line 1214) is drawn once.
- The script's statistics mirror `computeStats` "exactly" (`bench/main.go:1306`)
  while the numbers are at most 2^53; beyond that it adds rounded numbers.
  `StatsAreRight` carries this limit.
- `--fixtures` naming a symbolic link to a directory finds nothing.
- `-jobs` is checked by bench only; `CrashesOnlyWithoutJobs` says what it does
  to zkevm-runner.

Deadlock is checked wherever the system goes on for ever or ends in an explicit
final step (`Bench`, `ZkevmRunner`). `Live`, `OneShot`, `Verdict` and
`ReportPage` really stop: their cfg switches the check off, and `ShutsDown` and
`Ends` state that the programs stop where they should.

### Fairness

- A probe, a poll, a fetch and a guest end: each has a timeout in the code
  (`pool.go:23`, `main.go:116`, `main.go:135`). Weak fairness.
- A select with several ready cases chooses among them at random, so a case
  that is ready again and again is chosen eventually: strong fairness for
  `ctx.Done()` in `Run` and in main's loop, and only for it.
- The Go scheduler runs every goroutine that can run. Weak fairness per file in
  `Bench`, and of main and of each goroutine in `ZkevmRunner`; an emulator is
  assumed to end there: no time limit is set.
- Nothing is assumed of the environment: no node need answer, advance or be
  healthy, no signal need arrive.

## The proofs

TLAPS checks the following for every value of the constants, from the
assumptions named in the modules (`CapacityAssumption`, `NoResultAssumption`,
`PoolAssumption`, `LiveAssumption`, `FetchAssumption`, `BenchAssumption`,
`VerdictAssumption`, `DiscoverAssumption`, `MayHoldAssumption`,
`RunnerAssumption`, `ReportAssumption`, `PageAssumption`), which TLC
evaluates in the runs.
Each proof has the same frame: an inductive invariant (`...IInv`, a conjunction
of named parts, checked with TLC before it was proved), a lemma that `Init`
implies it, one that every step keeps it, and the theorems that follow from it.

- `RingBufferProofs`: `TypeCorrect`, `CopiesAreSnapshots`, `Refinement`. The
  invariant `IInv` adds to the two properties that the cells `All` reads were
  written (`ContentsWritten`); without it a copy could hold `NoResult`. The
  heart is `WriteAtHeadPushes`: writing at `head` and advancing `head` and
  `count` appends to the listing and forgets its first element when the ring
  was full. It rests on `SlotValue` and `NextHeadValue`, which replace the
  remainder by a case distinction. The refinement follows: writing the item is
  the log's `Add`, returning a copy is its `Answer`, every other step stutters.
- `LiveProofs`, the pool: `PoolTypeCorrect`, `HeadsInOrder`, `NoHeadLostSilently`,
  `NodesAlwaysUsable`. `PoolIInv` adds `NewKeeps`: a node that was found is no
  longer pending, hence is found once; the nodes of a running pool are those;
  and nobody polls before. It is needed because `NextNode` is defined, and the
  height a poll returns is one, only if the node asked is one of the pool's.
- `OneShotProofs`, Fetch: `FetchTypeCorrect`, `RequestsChecked`, `BalChecked`.
  `FetchIInv` adds `FetchKnows`: what is known of block, BAL and requests at
  each call. `BalChecked` goes through the branches: bytes that are nil, have no
  length or encode no list are not the encoding of any BAL, and a list of
  another block has another hash, so each ends in an error exactly if the header
  has a hash.
- `LiveProofs`, main: `ResultsInOrder`, `GuestsStayWithTheirBlock`,
  `ShownBlocksAreComplete`, `MetricsCorrect`, `PoolCorrectInMain`. `LiveIInv`
  is the pool's invariant, the types, the four properties and `GuestsKnow`.
  Order and completeness are not inductive without the latter: that the store
  has nothing newer than the block main is at and nothing of it before its
  guests start comes from the pool (`HeadsOrdered`: the next head is greater)
  and from `wg.Wait`. The store is full or not, so publishing is two cases, and
  in the full one every index moves down by one.
- `OneShotProofs`, main: `ExitCodeCorrect`, `DumpCorrect`, `FetchCorrectInMain`. `OneShotIInv` is that of `Fetch`, the exit code's
  property and `MainKnows`, which says at each stage what main has done so far.
  Steps of `Fetch` are steps of main, so its lemmas are used as they are.
- `BenchProofs`: `ProgressCorrect`, `ResultsCorrect`, `RunAllIsParallelMap`.
  The progress line needs a count: `ProgressCounts` says that `total` and
  `done` are the numbers of the units expected and counted of all files. A sum
  over files is a recursion, so the invariant counts pairs instead: `Pairs` is
  the set of pairs of a file and one of its numbers, and a step that changes
  one file changes its cardinality by what it changes in that file
  (`CountChange`). `done <= total` is then the inclusion of one set in the
  other. `ResultsPlaced` locates each file's results in what is returned
  (`Placed`), from which both the order and the map's answer follow.
- `VerdictProofs`: `ToolsAlwaysAgree`, `PassesAreEarned`, `CutRunsNeverJudged`,
  for any length of root and region, any cap and any guest. `VerdictIInv` says
  that what is about to be counted is what the rules make of the unit and the
  run; the rest is about the rules: `EmuRunErr` (when a run is no error),
  `RunUnitKind` and `RunnerStatusKind` (which verdict follows from what).
- `ZkevmRunnerProofs`: `RunnerFindsAll`, `DumpsAreKept`, `NoDeadlockWithJobs`,
  `TalliesCorrect`, `LoopIsParallelMap`. `RunnerIInv` has a part for each walk
  (`WalkKnows`: zkevm-runner prunes nothing, so what lies behind the cursor was
  visited; `BenchKnows`, see below),
  one for where main is (`MainKnows`), one for each goroutine (`ItemsKnow`) and
  one that says what `sem`, `wg` and the progress lines count (`CountersKnow`).
  The last makes main's wait safe: if no goroutine is alive then `sem` and `wg`
  are 0, so main can only be asleep if there is no place at all. The summary
  counts the rows in the order the sort left; that this order is a permutation
  is a pigeonhole argument (`OrderCounts`). The proof uses that a dump's name
  holds the index, not what the name is cut to.
- `ZkevmRunnerProofs`, bench's walk: `DiscoveryAlwaysComplete`. A directory is
  bad if it cannot be listed or is hidden; an entry is reached if the cursor
  has passed it and nothing bad is above it. `BenchKnows` says that what was
  pruned is the bad directories reached, what was found and what was skipped
  the files and directories reached. That pruning loses nothing else and lets
  nothing through is one argument: among the bad directories above an entry the
  first in the order of the walk has nothing bad above it (`TopmostBad`), so it
  was reached, so it was pruned. The sort is a permutation by increasing rank
  (`JobsSorted`), and the census is a sum of sizes of disjoint sets of jobs
  (`CensusCorrect`, from `TotalOfSizes`).
- `SliceProofs`: what the loops of `Slices` compute, for every slice. Filtering
  picks the indices of the elements that pass, in order (`KeptPicks`); the sort
  is a permutation for any `less`, and ordered and stable for one that is a
  strict weak order (`SortedArranges`); counting is the same as sorting
  (`RankCounts`: fewer than k values are below the k-th of the sorted ones, at
  least k are not above it), and a sum is the size of a disjoint union
  (`TotalOfSizes`).
- `ReportProofs`: `TablesAlwaysPartition`, `RowsAlwaysInOrder`,
  `StatsAlwaysRight`, `NoElementEverMissing`, `ViewAlwaysFollows`, for any
  number of units, any sequence of events on the page, sums that wrap at any
  `Word` and doubles exact to any smaller `Exact`. Of units it is assumed that a
  path and a place in the file name one unit, a file has one format and one
  suite, and different numbers have different digits; nothing else, so numbers,
  labels and costs may repeat. `PageIInv` says of each row that `Err` is set
  exactly for an error and `ValidationOK` for a pass (`RowsKnow`, `RowAgrees`),
  without which the tables of writeReport need not fit main's, that whatever main has computed it computed from all
  the results (`MainKnows`), that the page's controls and parts are of their
  types (`ShownKnows`), and that the page follows its controls. The last is
  needed as a part: a handler redraws only some parts of the page, so the others
  must be right for controls that the handler left alone. The properties of the
  tables then follow from `MainKnows` and `SliceProofs`: the raw table is a
  permutation of the rows that were selected, and selections by disjoint sets
  of verdicts partition the results (`VerdictsPartition`). `Less` is an order
  on rows of one kind only, hence the hypothesis of `RowsInOrder`; rows that it
  does not tell apart keep the order they arrived in, which is that of their
  places in the files. For the page, `Double` is the identity up to `Exact`, so
  `SumOf` is the sum as long as the sum is not above it; the statements about
  the script's numbers carry that limit, and the others do not need it.

Data of any size needs induction. The library's induction theorems take a
predicate as a parameter, which the provers at hand cannot instantiate; `Least`
in `SliceProofs` instead takes the least element of a *set* of numbers, from
the well-foundedness of the strict subset order on finite sets, and `Induction`
says of a set that contains 0 and the successors of its members that it
contains every number. That a recursive function has the values its definition
says also needs a proof, as a function that satisfies it must exist:
`Recursion` builds it.

The refinements of `ParallelMap` are proved step by step: taking a token is
`Start`, giving it back is `Finish`, returning (or printing the summary) is
`Return`, loading the items is `List`, every other step stutters.

Model-checked only:

- the liveness properties (`PoolEnds`, `ShutsDown`, `HeadsAreTaken`,
  `Terminates`, `Ends`), which are beyond the prover;
- that the items of zkevm-runner are a sequence of at most `Bound` elements:
  they are a fold over the paths, so `Load` has it as its guard. A tree it shut
  out would be a deadlock, which the run `runner` looks for and does not find.

Every invariant, action property and refinement that a run checks is stated by
a theorem.

## Not modelled

- SSZ encoding, RLP, JSON and hex: reduced to which block a value describes and
  whether it decodes. They are pure functions from bytes to bytes. The SSZ
  container layout is planned as operators with a reference decoder.
- Which fork of a genesis file is active at a timestamp: one pure lookup, planned.
- `zesu-convert`: a single pass from file to file without state. The scripts
  build and deploy.
- Log output, the layout of HTML and CSV, durations, block metadata.
- In the page: Chart.js is loaded from a CDN, and without it the script stops
  at the first chart. Numbers above 2^53 are rounded in the model as in the
  script, but nothing is claimed of the statistics made from them. (The quotient
  of the average is a double too: rounding does not carry it to the next integer
  for a sum of up to 2^53, so the model divides integers.) No EEST label is
  taken to begin like a number, for `parseFloat` would sort it as one.
- The file a crash in the middle of a dump leaves behind: nothing in the code
  prevents or repairs it. `DumpIsVector` speaks of complete files and of the
  exit code.
- `ELPoolSize` (set once) and `VerificationDurationMs` (a histogram of times).
- Processes that guests start, which may keep `cmd.Run` waiting, and emulators
  that hang: nothing in the code bounds them.
- The emulators and guests themselves: anything they can do is allowed.

## Plan

Done: all modules above, and the proofs of everything the runs check as an
invariant, an action property or a refinement. In this order there remain:

1. `Ssz`: offsets, lengths and limits of the containers in
   `fixture/encode_ssz*.go`, against a reference decoder over bounded inputs,
   and the length lemmas by the induction of `SliceProofs`.
2. `Genesis`: the fork active at a timestamp.
3. `Live` refining an abstract verifier, with `RingBuffer` and `Fetch` in place
   of their abstractions.
4. The bound on the items of zkevm-runner as a lemma instead of a guard, with
   the fold over the paths written as a loop of `Slices`.
