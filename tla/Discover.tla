-------------------------------- MODULE Discover ------------------------------
(***************************************************************************)
(* How the two fixture tools find their files: bench's discover            *)
(* (src/bench/discover.go), which sniffs each file's format (SniffFormat in*)
(* src/fixture/format.go), and zkevm-runner's collectJSON; with the checks *)
(* that each main makes before and, for bench, after it. Both walk the tree*)
(* with filepath.WalkDir, entry by entry in WalkOrder, and each reacts in  *)
(* its own way to what cannot be read.                                     *)
(***************************************************************************)
EXTENDS Slices

CONSTANTS Root, SubDirs,   \* the directory given as --fixtures, those below
          Files,           \* the places where a file may be
          Single,          \* the one file when --fixtures names a file
          Above,           \* Above[e]: the directories that e is in
          WalkOrder,       \* the entries in the order WalkDir visits them
          PathRank,        \* PathRank[f]: f's place in the order of paths
          Hidden,          \* directories whose name begins with a dot
          Json,            \* files whose name ends in .json
          MaxBlocks,       \* bound: blocks in one EEST file
          MayHold,         \* MayHold[f]: what may be at f
          Unreadables,     \* sets of directories that cannot be listed
          MaxSuitesShown,  \* maxSuitesShown
          BenchOpts, RunnerOpts   \* the command lines to look at

Dirs    == {Root} \cup SubDirs
Entries == Dirs \cup Files

ASSUME DiscoverAssumption ==
  /\ Root \notin SubDirs /\ Dirs \cap Files = {} /\ Single \in Files
  /\ IsFiniteSet(Entries)
  /\ Above \in [Entries -> SUBSET Dirs]
  /\ Above[Root] = {}
  /\ \A e \in Entries \ {Root} : Root \in Above[e] /\ e \notin Above[e]
  /\ \A e \in Entries : \A d \in Above[e] : Above[d] \subseteq Above[e]
  /\ WalkOrder \in [1 .. Cardinality(Entries) -> Entries] /\ ToSet(WalkOrder) = Entries
  /\ WalkOrder[1] = Root
  /\ \A i, j \in DOMAIN WalkOrder : WalkOrder[i] \in Above[WalkOrder[j]] => i < j
  /\ PathRank \in [Files -> Nat]
  /\ \A f, g \in Files : PathRank[f] = PathRank[g] => f = g
  /\ Hidden \subseteq Dirs /\ Json \subseteq Files
  /\ MaxBlocks \in Nat /\ MaxSuitesShown \in Nat
  /\ Unreadables \subseteq SUBSET Dirs
  /\ BenchOpts \cup RunnerOpts \subseteq
       [target : {"zisk", "openvm", "unknown"}, jobs : Int, elf : {"found", "none", "missing"},
        dryRun : BOOLEAN, dumpDir : BOOLEAN, report : BOOLEAN]

(* The directory a file is in, which names its suite.                      *)
suiteOf(f) == CHOOSE d \in Above[f] : \A c \in Above[f] : c = d \/ c \in Above[d]

Markers == <<"stateless_input", "genesisBlockHeader", "engineNewPayloads",
             "statelessInputBytes", "blocks">>

(* A fixture's key is in no other schema. `seen' are the markers within the*)
(* first sniffLimit bytes; one that the limit cuts in two is not seen.     *)
(* Other JSON, say an index, may also have a key "blocks".                 *)
Contents ==
  [format : {"corpus"}, seen : SUBSET {"stateless_input"}, blocks : {1}]
    \cup
  [format : {"zkevm"}, seen : {{}, {"genesisBlockHeader", "blocks"}, {"statelessInputBytes"}},
   blocks : 0 .. MaxBlocks]
    \cup
  [format : {"other"}, seen : {{}, {"blocks"}}, blocks : {0}]

Absent == [format |-> "absent", seen |-> {}, blocks |-> 0]
Locked == [format |-> "locked", seen |-> {}, blocks |-> 0]   \* cannot be opened

ASSUME MayHoldAssumption == MayHold \in [Files -> SUBSET (Contents \cup {Absent, Locked})]

VARIABLES tool,       \* "bench" | "runner"
          opts,       \* the command line
          rootKind,   \* what --fixtures names
          disk,       \* disk[f]: what is at f
          unreadable, \* the directories that cannot be listed
          pc,
          cursor,     \* how many entries of WalkOrder were passed
          pruned,     \* directories whose entries are passed over
          jobs,       \* bench: the fileJobs [path, kind]
          skipped,    \* bench: the skippedFiles
          paths,      \* zkevm-runner: the files found
          census      \* bench --dry-run: what printCensus prints

treeVars == <<tool, opts, rootKind, disk, unreadable>>
discoverVars == <<tool, opts, rootKind, disk, unreadable, pc, cursor, pruned, jobs, skipped,
                  paths, census>>

NoCensus == [byKind |-> << >>, shown |-> << >>, rest |-> 0]

DiscoverInit ==
  /\ tool \in {"bench", "runner"}
  /\ opts \in IF tool = "bench" THEN BenchOpts ELSE RunnerOpts
  /\ rootKind \in {"dir", "file", "link", "missing"}
  /\ disk \in {d \in [Files -> UNION {MayHold[f] : f \in Files}] : \A f \in Files : d[f] \in MayHold[f]}
  /\ rootKind = "dir" \/ \A f \in Files \ {Single} : disk[f] = Absent
  /\ rootKind = "file" <=> (rootKind # "dir" /\ disk[Single] # Absent)
  /\ unreadable \in Unreadables
  /\ rootKind = "dir" \/ unreadable = {}
  /\ pc = "flags"
  /\ cursor = 0
  /\ pruned = {}
  /\ jobs = << >>
  /\ skipped = << >>
  /\ paths = << >>
  /\ census = NoCensus

-------------------------------------------------------------------------------
(* The command line                                                        *)

FlagsRejected ==
  \/ opts.target = "unknown"
  \/ tool = "bench"  /\ opts.jobs < 1
  \/ tool = "bench"  /\ ~opts.dryRun /\ opts.elf # "found"
  \/ tool = "runner" /\ ~opts.dumpDir /\ opts.elf = "none"
  \/ tool = "runner" /\ opts.elf = "missing"

(* bench looks at the root with Stat, zkevm-runner only through WalkDir,   *)
(* which does not follow a link and so finds nothing beyond one.           *)
CheckFlags ==
  /\ pc = "flags"
  /\ pc' = CASE FlagsRejected \/ rootKind = "missing"  -> "fatal"
             [] ~FlagsRejected /\ rootKind = "dir"     -> "walk"
             [] ~FlagsRejected /\ rootKind = "file"    -> "single"
             [] ~FlagsRejected /\ rootKind = "link"    -> "found"
  /\ UNCHANGED <<treeVars, cursor, pruned, jobs, skipped, paths, census>>

-------------------------------------------------------------------------------
(* The walk                                                                *)

(* The format of the first marker, in their order, that the head contains. *)
SniffFormat(c) ==
  LET found == {i \in DOMAIN Markers : Markers[i] \in c.seen} IN
    CASE found = {} -> "unknown"
      [] found # {} -> IF Min(found) = 1 THEN "corpus" ELSE "zkevm"

Upcoming ==
  {i \in cursor + 1 .. Len(WalkOrder) :
     /\ WalkOrder[i] \in Dirs \/ disk[WalkOrder[i]] # Absent
     /\ Above[WalkOrder[i]] \cap pruned = {}}

Job(f) == [path |-> f, kind |-> SniffFormat(disk[f])]

Runnable(f) == disk[f] # Locked /\ SniffFormat(disk[f]) # "unknown"

(* A directory that is hidden, unless it is the root, is pruned before it  *)
(* is read; one that cannot be read is reported and pruned.                *)
VisitDir(d) ==
  LET hidden == d # Root /\ d \in Hidden IN
    /\ pruned' = IF hidden \/ d \in unreadable THEN pruned \cup {d} ELSE pruned
    /\ skipped' = IF ~hidden /\ d \in unreadable THEN Append(skipped, d) ELSE skipped
    /\ UNCHANGED jobs

VisitFile(f) ==
  /\ jobs' = IF f \in Json /\ Runnable(f) THEN Append(jobs, Job(f)) ELSE jobs
  /\ skipped' = IF f \in Json /\ ~Runnable(f) THEN Append(skipped, f) ELSE skipped
  /\ UNCHANGED pruned

(* The function that discover gives to WalkDir.                            *)
BenchVisits ==
  /\ pc = "walk" /\ tool = "bench" /\ Upcoming # {}
  /\ cursor' = Min(Upcoming)
  /\ LET e == WalkOrder[Min(Upcoming)] IN IF e \in Dirs THEN VisitDir(e) ELSE VisitFile(e)
  /\ UNCHANGED <<treeVars, pc, paths, census>>

RunnerVisitsLeavingDir ==
  /\ pc = "walk" /\ tool = "runner" /\ Upcoming # {}
  /\ cursor' = Min(Upcoming)
  /\ LET e == WalkOrder[Min(Upcoming)] IN
       /\ pc' = IF e \in unreadable THEN "fatal" ELSE "walk"
       /\ paths' = IF e \in Json THEN Append(paths, e) ELSE paths
       /\ pruned' = IF e \in Files \ Json THEN pruned \cup {suiteOf(e)} ELSE pruned
  /\ UNCHANGED <<treeVars, jobs, skipped, census>>

(* The function of collectJSON: any error ends the walk and the program.   *)
RunnerVisits ==
  /\ pc = "walk" /\ tool = "runner" /\ Upcoming # {}
  /\ cursor' = Min(Upcoming)
  /\ LET e == WalkOrder[Min(Upcoming)] IN
       /\ pc' = IF e \in unreadable THEN "fatal" ELSE "walk"
       /\ paths' = IF e \in Json THEN Append(paths, e) ELSE paths
  /\ UNCHANGED <<treeVars, pruned, jobs, skipped, census>>

WalkEndsUnsorted ==
  /\ pc = "walk" /\ Upcoming = {}
  /\ pc' = "found"
  /\ UNCHANGED <<treeVars, cursor, pruned, jobs, skipped, paths, census>>

(* discover sorts by path, which is not the order of the walk: a separator *)
(* is greater than some characters of a name. No two paths are the same, so*)
(* that sort.Slice has one result. collectJSON does not sort.              *)
WalkEnds ==
  /\ pc = "walk" /\ Upcoming = {}
  /\ jobs' = SliceStable(LAMBDA x, y : PathRank[x.path] < PathRank[y.path], jobs)
  /\ pc' = "found"
  /\ UNCHANGED <<treeVars, cursor, pruned, skipped, paths, census>>

(* --fixtures names a file: bench takes it whatever its name is, and fails *)
(* if it cannot be opened; WalkDir visits just it.                         *)
TakeSingle ==
  /\ pc = "single"
  /\ pc' = IF tool = "bench" /\ disk[Single] = Locked THEN "fatal" ELSE "found"
  /\ jobs' = IF tool = "bench" /\ Runnable(Single) THEN <<Job(Single)>> ELSE jobs
  /\ skipped' = IF tool = "bench" /\ disk[Single] # Locked /\ ~Runnable(Single)
                  THEN <<Single>> ELSE skipped
  /\ paths' = IF tool = "runner" /\ Single \in Json THEN <<Single>> ELSE paths
  /\ UNCHANGED <<treeVars, cursor, pruned, census>>

-------------------------------------------------------------------------------
(* What follows                                                            *)

FilesIn(s) == Cardinality({i \in DOMAIN jobs : suiteOf(jobs[i].path) = s})

(* printCensus: files per format, the largest suites, and how many files   *)
(* are in the suites that are not shown.                                   *)
Census ==
  LET suites == {suiteOf(jobs[i].path) : i \in DOMAIN jobs}
      names  == SliceStable(LAMBDA s, t : FilesIn(s) > FilesIn(t), SetToSeq(suites))
      shown  == IF Len(names) > MaxSuitesShown THEN SubSeq(names, 1, MaxSuitesShown) ELSE names
  IN [byKind |-> [k \in {"corpus", "zkevm"} |->
                    Cardinality({i \in DOMAIN jobs : jobs[i].kind = k})],
      shown  |-> [i \in DOMAIN shown |-> FilesIn(shown[i])],
      rest   |-> Total([i \in 1 .. Len(names) - Len(shown) |-> FilesIn(names[Len(shown) + i])])]

(* bench main after discover: --dry-run prints the census; no file to run  *)
(* is fatal, and so is one that openvm cannot judge.                       *)
BenchGoesOn ==
  /\ pc = "found" /\ tool = "bench"
  /\ census' = IF opts.dryRun THEN Census ELSE census
  /\ pc' = CASE opts.dryRun -> "done"
             [] ~opts.dryRun /\ (\/ jobs = << >>
                                 \/ /\ opts.target = "openvm"
                                    /\ \E i \in DOMAIN jobs : jobs[i].kind # "corpus") -> "fatal"
             [] OTHER -> "run"
  /\ UNCHANGED <<treeVars, cursor, pruned, jobs, skipped, paths>>

(* zkevm-runner: no file is fatal.                                         *)
RunnerGoesOn ==
  /\ pc = "found" /\ tool = "runner"
  /\ pc' = IF paths = << >> THEN "fatal" ELSE "load"
  /\ UNCHANGED <<treeVars, cursor, pruned, jobs, skipped, paths, census>>

DiscoverNext ==
  \/ CheckFlags \/ BenchVisits \/ RunnerVisits \/ WalkEnds \/ TakeSingle
  \/ BenchGoesOn \/ RunnerGoesOn

-------------------------------------------------------------------------------
(* Properties                                                              *)

(* The directories that a walk which prunes can see into.                  *)
Open(hidden) == {d \in Dirs : ({d} \cup Above[d]) \cap (unreadable \cup (hidden \ {Root})) = {}}

BenchSees == {f \in Json : disk[f] # Absent /\ Above[f] \subseteq Open(Hidden)}

(* Every file is in one format's count, in the rest or in a suite shown.   *)
CensusAddsUp(c) ==
  /\ c.byKind["corpus"] + c.byKind["zkevm"] = Len(jobs)
  /\ Total(c.shown) + c.rest = Len(jobs)
  /\ Len(c.shown) < MaxSuitesShown => c.rest = 0
  /\ \A i \in DOMAIN c.shown :
       Cardinality({d \in Dirs : FilesIn(d) > c.shown[i]}) < i

(* What bench is about to run is every fixture it can reach, each once and *)
(* in the order of the paths, with the format of its own key; what it      *)
(* reports as skipped is everything else of that name that it can reach and*)
(* every directory it could not list. One bad entry costs no other one. The*)
(* census of a dry run adds up to the same, also when suites are left out  *)
(* of it, and those left out are not larger than those shown.              *)
DiscoveryIsComplete ==
  /\ (tool = "bench" /\ rootKind = "dir" /\ pc \in {"found", "run", "done"}) =>
       /\ {jobs[i].path : i \in DOMAIN jobs} = {f \in BenchSees : disk[f].seen # {}}
       /\ \A i, j \in DOMAIN jobs : i < j => PathRank[jobs[i].path] < PathRank[jobs[j].path]
       /\ \A i \in DOMAIN jobs : disk[jobs[i].path].format \in {jobs[i].kind, "other"}
       /\ ToSet(skipped) =
            {f \in BenchSees : disk[f].seen = {}}
              \cup {d \in unreadable : Above[d] \subseteq Open(Hidden) /\ (d = Root \/ d \notin Hidden)}
       /\ IsInjective(skipped)
  /\ (pc = "done" /\ opts.dryRun) => CensusAddsUp(census)

(* Both tools can be given the same tree and their results compared        *)
(* (units.go:159): if zkevm-runner gets past its walk it has found every   *)
(* file that bench takes for an EEST fixture, and whatever else it has     *)
(* found is hidden from bench, or one that bench skips or judges by another*)
(* rule. It does not get past it only where bench would report a directory *)
(* it cannot list, or stay out of one that is hidden.                      *)
RunnerFindsWhatBenchFinds ==
  (tool = "runner" /\ rootKind = "dir" /\ ~FlagsRejected) =>
    /\ pc \in {"found", "load"} =>
         /\ {f \in BenchSees : SniffFormat(disk[f]) = "zkevm"} \subseteq ToSet(paths)
         /\ \A f \in ToSet(paths) \ BenchSees : Above[f] \cap (Hidden \ {Root}) # {}
         /\ IsInjective(paths)
    /\ pc = "fatal" => unreadable # {} \/ paths = << >>

(* What zkevm-runner's walk knows. It prunes nothing, so that it has passed*)
(* every entry up to the cursor but the files that are not there; it could *)
(* list every directory among them and has the fixtures among them once.   *)
WalkKnows ==
  /\ tool \in {"bench", "runner"} /\ rootKind \in {"dir", "file", "link", "missing"}
  /\ unreadable \subseteq Dirs
  /\ tool = "runner" => pruned = {} /\ cursor \in 0 .. Len(WalkOrder) /\ paths \in Seq(Json)
  /\ (tool = "runner" /\ pc = "flags") => paths = << >> /\ cursor = 0
  /\ (tool = "runner" /\ rootKind = "dir") => pc # "single"
  /\ (tool = "runner" /\ rootKind = "dir" /\ pc \in {"walk", "found", "load"}) =>
       /\ \A f \in Json : f \in ToSet(paths) <=>
            disk[f] # Absent /\ \E i \in 1 .. cursor : WalkOrder[i] = f
       /\ IsInjective(paths)
       /\ \A i \in 1 .. cursor : WalkOrder[i] \notin unreadable
       /\ pc # "walk" => Upcoming = {}
  /\ (tool = "runner" /\ rootKind = "dir" /\ pc = "fatal" /\ ~FlagsRejected) =>
       unreadable # {} \/ paths = << >>

(* What bench's walk knows. It has reached what it has passed and nothing  *)
(* bad is above: a directory that it cannot list or that is hidden. What   *)
(* it has pruned is the bad ones that it has reached; what it has found or *)
(* skipped is the files that it has reached, and of the directories those  *)
(* that it could not list, each once.                                      *)
Bad == unreadable \cup (Hidden \ {Root})

Reached(e) == (\E i \in 1 .. cursor : WalkOrder[i] = e) /\ Above[e] \cap Bad = {}

Found(f)   == f \in Json /\ disk[f] # Absent /\ disk[f].seen # {}
PassedUp(e) ==
  \/ e \in Json /\ disk[e] # Absent /\ disk[e].seen = {}
  \/ e \in unreadable /\ (e = Root \/ e \notin Hidden)

FileJobs == [path : Files, kind : {"corpus", "zkevm"}]

BenchKnows ==
  /\ disk \in [Files -> Contents \cup {Absent, Locked}]
  /\ tool = "bench" =>
       /\ cursor \in 0 .. Len(WalkOrder)
       /\ jobs \in Seq(FileJobs) /\ skipped \in Seq(Entries)
       /\ \A i \in 1 .. Len(jobs) : jobs[i].kind = SniffFormat(disk[jobs[i].path])
  /\ (tool = "bench" /\ pc = "flags") =>
       cursor = 0 /\ jobs = << >> /\ skipped = << >> /\ pruned = {}
  /\ (tool = "bench" /\ rootKind = "dir") => pc # "single"
  /\ (tool = "bench" /\ rootKind = "dir" /\ pc \in {"walk", "found", "run", "done"}) =>
       /\ pruned = {d \in Bad : Reached(d)}
       /\ \A f \in Files :
            (\E i \in 1 .. Len(jobs) : jobs[i].path = f) <=> Found(f) /\ Reached(f)
       /\ \A i, j \in 1 .. Len(jobs) : jobs[i].path = jobs[j].path => i = j
       /\ \A e \in Entries : e \in ToSet(skipped) <=> PassedUp(e) /\ Reached(e)
       /\ IsInjective(skipped)
       /\ pc # "walk" =>
            /\ Upcoming = {}
            /\ \A i, j \in 1 .. Len(jobs) : i < j => PathRank[jobs[i].path] < PathRank[jobs[j].path]
  /\ pc = "done" => tool = "bench" /\ (opts.dryRun => CensusAddsUp(census))
===============================================================================
