--------------------------- MODULE ZkevmRunnerProofs --------------------------
(***************************************************************************)
(* For any tree of files, any command line and any number of blocks:       *)
(* zkevm-runner finds what bench finds, keeps every dump, adds up what it  *)
(* ran, crashes only when it has no jobs, and its loop implements the      *)
(* parallel map.                                                           *)
(***************************************************************************)
EXTENDS ZkevmRunner, SliceProofs

(* The numbers an item may have, and every set of them, are finite.        *)
LEMMA BoundIsFinite ==
  /\ Bound \subseteq Nat \ {0} /\ IsFiniteSet(Bound)
  /\ \A n \in Bound \cup {0} : n \in Nat /\ 1 .. n \subseteq Bound
  /\ \A S \in SUBSET Bound : IsFiniteSet(S) /\ Cardinality(S) \in Nat
<1>1. Cardinality(Files) \in Nat
  <2>1. Files \in SUBSET Entries
    BY DEF Entries
  <2> QED
    BY <2>1, DiscoverAssumption, FS_Subset, FS_CardinalityType
<1>2. PICK b \in Nat : Bound = 1 .. b
  <2>1. MaxBlocks \in Nat
    BY DiscoverAssumption
  <2>2. Cardinality(Files) * MaxBlocks \in Nat
    BY <1>1, <2>1
  <2> QED
    BY <2>2 DEF Bound
<1>3. IsFiniteSet(Bound)
  BY <1>2, FS_Interval
<1>4. \A S \in SUBSET Bound : IsFiniteSet(S) /\ Cardinality(S) \in Nat
  BY <1>3, FS_Subset, FS_CardinalityType
<1> QED
  BY <1>2, <1>3, <1>4

-------------------------------------------------------------------------------
(* The walk                                                                *)

(* What the steps of discovery have in common.                             *)
LEMMA DiscoverFrame ==
  ASSUME WalkKnows, DiscoverNext
  PROVE  /\ UNCHANGED treeVars
         /\ pc \in {"flags", "walk", "single", "found"}
         /\ pc' \in {"walk", "single", "found", "load", "fatal", "done", "run"}
         /\ pc' = "load" => tool = "runner"
         /\ pc' = "done" => tool = "bench"
<1>1. CASE CheckFlags
  BY <1>1 DEF CheckFlags, WalkKnows
<1>2. CASE BenchVisits
  BY <1>2 DEF BenchVisits
<1>3. CASE RunnerVisits
  BY <1>3 DEF RunnerVisits
<1>4. CASE WalkEnds
  BY <1>4 DEF WalkEnds
<1>5. CASE TakeSingle
  BY <1>5 DEF TakeSingle
<1>6. CASE BenchGoesOn
  BY <1>6 DEF BenchGoesOn
<1>7. CASE RunnerGoesOn
  BY <1>7 DEF RunnerGoesOn
<1> QED
  BY <1>1, <1>2, <1>3, <1>4, <1>5, <1>6, <1>7 DEF DiscoverNext

(* The walk's order lists every entry once.                                *)
LEMMA WalkOrderKnows ==
  /\ Len(WalkOrder) \in Nat /\ DOMAIN WalkOrder = 1 .. Len(WalkOrder)
  /\ \A i \in 1 .. Len(WalkOrder) : WalkOrder[i] \in Entries
  /\ \A e \in Entries : \E i \in 1 .. Len(WalkOrder) : WalkOrder[i] = e
  /\ \A i, j \in 1 .. Len(WalkOrder) : WalkOrder[i] = WalkOrder[j] => i = j
<1>1. PICK n \in Nat : n = Cardinality(Entries)
  BY DiscoverAssumption, FS_CardinalityType
<1>2. WalkOrder \in [1 .. n -> Entries] /\ ToSet(WalkOrder) = Entries
  BY <1>1, DiscoverAssumption
<1>3. WalkOrder \in Seq(Entries) /\ Len(WalkOrder) = n /\ DOMAIN WalkOrder = 1 .. n
  BY <1>2, SeqDef, LenProperties
<1>4. \A e \in Entries : \E i \in 1 .. n : WalkOrder[i] = e
  BY <1>2, <1>3 DEF ToSet
<1>5. WalkOrder \in Surjection(1 .. n, Entries)
  BY <1>2, <1>4 DEF Surjection
<1>6. IsFiniteSet(1 .. n) /\ Cardinality(1 .. n) = n
  BY FS_Interval
<1>7. WalkOrder \in Injection(1 .. n, Entries)
  BY <1>1, <1>5, <1>6, FS_SurjSameCardinalityImpliesInj
<1> QED
  BY <1>2, <1>3, <1>4, <1>7 DEF Injection, IsInjective

LEMMA WalkInit == DiscoverInit => WalkKnows
<1> SUFFICES ASSUME DiscoverInit PROVE WalkKnows
  OBVIOUS
<1>1. << >> \in Seq(Json) /\ 0 \in 0 .. Len(WalkOrder)
  BY EmptySeq, WalkOrderKnows
<1>2. unreadable \subseteq Dirs
  BY DiscoverAssumption DEF DiscoverInit
<1> QED
  BY <1>1, <1>2 DEF DiscoverInit, WalkKnows

(* A file goes to the end of the paths: it is the one that is new there.   *)
LEMMA AppendPath ==
  ASSUME NEW A, NEW s \in Seq(A), NEW f \in A
  PROVE  /\ Append(s, f) \in Seq(A)
         /\ ToSet(Append(s, f)) = ToSet(s) \cup {f}
         /\ IsInjective(s) /\ f \notin ToSet(s) => IsInjective(Append(s, f))
<1>1. /\ Len(s) \in Nat /\ DOMAIN s = 1 .. Len(s)
      /\ Append(s, f) \in Seq(A) /\ Len(Append(s, f)) = Len(s) + 1
      /\ \A i \in 1 .. Len(s) : Append(s, f)[i] = s[i]
      /\ Append(s, f)[Len(s) + 1] = f
  BY AppendProperties, LenProperties
<1>2. DOMAIN Append(s, f) = 1 .. Len(s) + 1
  BY <1>1, LenProperties
<1> DEFINE t == Append(s, f)
<1> HIDE DEF t
<1>3. ToSet(t) = ToSet(s) \cup {f}
  BY <1>1, <1>2 DEF ToSet, t
<1>4. ASSUME IsInjective(s), f \notin ToSet(s) PROVE IsInjective(t)
  <2>1. \A i \in 1 .. Len(s) : s[i] # f
    BY <1>1, <1>4 DEF ToSet
  <2>2. \A i, j \in 1 .. Len(s) : s[i] = s[j] => i = j
    BY <1>1, <1>4 DEF IsInjective
  <2>3. \A i, j \in 1 .. Len(s) + 1 : t[i] = t[j] => i = j
    BY <1>1, <2>1, <2>2 DEF t
  <2> QED
    BY <1>2, <2>3 DEF IsInjective, t
<1> QED
  BY <1>1, <1>3, <1>4 DEF t

(* One call of the function that collectJSON gives to WalkDir.             *)
LEMMA RunnerVisitsStep ==
  ASSUME WalkKnows, RunnerVisits
  PROVE  WalkKnows'
<1> DEFINE m == Min(Upcoming)
           e == WalkOrder[m]
<1>1. /\ pc = "walk" /\ tool = "runner" /\ Upcoming # {} /\ cursor' = m
      /\ pc' = IF e \in unreadable THEN "fatal" ELSE "walk"
      /\ paths' = IF e \in Json THEN Append(paths, e) ELSE paths
      /\ UNCHANGED <<tool, opts, rootKind, disk, unreadable, pruned>>
  BY DEF RunnerVisits, treeVars
<1>2. /\ pruned = {} /\ cursor \in Nat /\ cursor <= Len(WalkOrder) /\ paths \in Seq(Json)
      /\ Len(WalkOrder) \in Nat
  BY <1>1, WalkOrderKnows DEF WalkKnows
<1>3. /\ m \in cursor + 1 .. Len(WalkOrder) /\ e \in Entries
      /\ e \in Dirs \/ disk[e] # Absent
      /\ \A i \in cursor + 1 .. m - 1 : WalkOrder[i] \notin Dirs /\ disk[WalkOrder[i]] = Absent
  <2>1. Upcoming \in SUBSET Nat
    BY <1>2 DEF Upcoming
  <2>2. m \in Upcoming /\ \A x \in Upcoming : m <= x
    BY <1>1, <2>1, MinIsLeast
  <2> HIDE DEF m
  <2>3. m \in cursor + 1 .. Len(WalkOrder) /\ (e \in Dirs \/ disk[e] # Absent)
    BY <2>2 DEF Upcoming
  <2>4. e \in Entries
    BY <1>2, <2>3, WalkOrderKnows
  <2>5. ASSUME NEW i \in cursor + 1 .. m - 1
        PROVE  WalkOrder[i] \notin Dirs /\ disk[WalkOrder[i]] = Absent
    <3>1. i \notin Upcoming /\ i \in cursor + 1 .. Len(WalkOrder)
      BY <1>2, <2>2, <2>3
    <3> QED
      BY <1>2, <3>1 DEF Upcoming
  <2> QED
    BY <2>3, <2>4, <2>5
<1> HIDE DEF m
<1>4. m \in Nat /\ m \in 0 .. Len(WalkOrder) /\ cursor < m
  BY <1>2, <1>3
<1>5. /\ paths' \in Seq(Json)
      /\ \A f \in Json : f \in ToSet(paths') <=> f \in ToSet(paths) \/ f = e
      /\ IsInjective(paths) /\ e \notin ToSet(paths) => IsInjective(paths')
  <2>1. CASE e \in Json
    BY <1>1, <1>2, <2>1, AppendPath
  <2>2. CASE e \notin Json
    BY <1>1, <1>2, <2>2
  <2> QED
    BY <2>1, <2>2
<1>6. ASSUME rootKind = "dir", pc' # "fatal"
      PROVE  /\ \A f \in Json : f \in ToSet(paths') <=>
                  disk[f] # Absent /\ \E i \in 1 .. m : WalkOrder[i] = f
             /\ IsInjective(paths')
             /\ \A i \in 1 .. m : WalkOrder[i] \notin unreadable
  <2>1. /\ \A f \in Json : f \in ToSet(paths) <=>
             disk[f] # Absent /\ \E i \in 1 .. cursor : WalkOrder[i] = f
        /\ IsInjective(paths)
        /\ \A i \in 1 .. cursor : WalkOrder[i] \notin unreadable
    BY <1>1, <1>6 DEF WalkKnows
  <2>2. \A i \in 1 .. m : i \in 1 .. cursor \/ i = m \/ i \in cursor + 1 .. m - 1
    BY <1>2, <1>4
  <2>3. Json \subseteq Files /\ Dirs \cap Files = {} /\ unreadable \subseteq Dirs
    BY DiscoverAssumption DEF WalkKnows
  <2>4. \A i \in 1 .. m : WalkOrder[i] \notin unreadable
    BY <1>1, <1>3, <1>6, <2>1, <2>2, <2>3
  <2>5. ASSUME NEW f \in Json
        PROVE  f \in ToSet(paths') <=> disk[f] # Absent /\ \E i \in 1 .. m : WalkOrder[i] = f
    <3>1. CASE f = e
      <4>1. f \notin Dirs
        BY <2>3
      <4>2. disk[f] # Absent
        BY <1>3, <3>1, <4>1
      <4>3. WalkOrder[m] = f /\ m \in 1 .. m
        BY <1>2, <1>4, <3>1
      <4> QED
        BY <1>5, <3>1, <4>2, <4>3
    <3>2. CASE f # e
      <4>1. f \in ToSet(paths') <=> f \in ToSet(paths)
        BY <1>5, <3>2
      <4>2. ASSUME disk[f] # Absent, NEW i \in 1 .. m, WalkOrder[i] = f
            PROVE  i \in 1 .. cursor
        BY <1>3, <2>2, <3>2, <4>2
      <4>3. 1 .. cursor \subseteq 1 .. m
        BY <1>2, <1>4
      <4> QED
        BY <2>1, <4>1, <4>2, <4>3
    <3> QED
      BY <3>1, <3>2
  <2>6. e \notin ToSet(paths)
    <3> SUFFICES ASSUME e \in ToSet(paths) PROVE FALSE
      OBVIOUS
    <3>1. e \in Json
      BY <1>2, LenProperties, ElementOfSeq DEF ToSet
    <3>2. PICK i \in 1 .. cursor : WalkOrder[i] = e
      BY <2>1, <3>1
    <3>3. i \in 1 .. Len(WalkOrder) /\ m \in 1 .. Len(WalkOrder) /\ i # m
      BY <1>2, <1>4
    <3> QED
      BY <3>2, <3>3, WalkOrderKnows
  <2> QED
    BY <1>5, <2>1, <2>4, <2>5, <2>6
<1>7. pc' = "fatal" => unreadable # {}
  BY <1>1
<1> QED
  BY <1>1, <1>2, <1>4, <1>5, <1>6, <1>7 DEF WalkKnows

LEMMA WalkStep ==
  ASSUME WalkKnows, DiscoverNext
  PROVE  WalkKnows'
<1>0. UNCHANGED <<tool, opts, rootKind, disk, unreadable>>
  BY DiscoverFrame DEF treeVars
<1>1. CASE tool = "bench"
  BY <1>0, <1>1 DEF WalkKnows
<1>2. CASE tool = "runner"
  <2>1. CASE CheckFlags
    <3>1. UNCHANGED <<cursor, pruned, paths>> /\ pc = "flags"
      BY <2>1 DEF CheckFlags
    <3>2. /\ rootKind = "dir" /\ ~FlagsRejected => pc' = "walk"
          /\ rootKind = "dir" /\ FlagsRejected => pc' = "fatal"
      BY <2>1 DEF CheckFlags
    <3>3. FlagsRejected' = FlagsRejected
      BY <1>0 DEF FlagsRejected
    <3>4. /\ paths = << >> /\ cursor = 0 /\ \A f : f \notin ToSet(paths)
          /\ IsInjective(paths) /\ \A i : i \notin 1 .. cursor
      BY <1>2, <3>1, EmptySeq DEF WalkKnows, ToSet, IsInjective
    <3>5. pc' # "flags" /\ (rootKind = "dir" => pc' \in {"walk", "fatal"})
      BY <2>1, <3>2, DiscoverFrame
    <3> QED
      BY <1>0, <1>2, <3>1, <3>3, <3>4, <3>5 DEF WalkKnows
  <2>2. CASE RunnerVisits
    BY <2>2, RunnerVisitsStep
  <2>3. CASE WalkEnds
    <3>1. UNCHANGED <<cursor, pruned, paths>> /\ pc = "walk" /\ pc' = "found" /\ Upcoming = {}
      BY <2>3 DEF WalkEnds
    <3>2. Upcoming' = Upcoming
      BY <1>0, <3>1 DEF Upcoming
    <3> QED
      BY <1>0, <1>2, <3>1, <3>2 DEF WalkKnows
  <2>4. CASE TakeSingle
    <3>1. /\ pc = "single" /\ UNCHANGED <<cursor, pruned>> /\ pc' \in {"fatal", "found"}
          /\ paths' = IF Single \in Json THEN <<Single>> ELSE paths
      BY <1>2, <2>4 DEF TakeSingle
    <3>2. paths' \in Seq(Json)
      BY <1>2, <3>1 DEF WalkKnows
    <3> QED
      BY <1>0, <1>2, <3>1, <3>2 DEF WalkKnows
  <2>5. CASE RunnerGoesOn
    <3>1. /\ UNCHANGED <<cursor, pruned, paths>> /\ pc = "found"
          /\ pc' = IF paths = << >> THEN "fatal" ELSE "load"
      BY <2>5 DEF RunnerGoesOn
    <3>2. Upcoming' = Upcoming
      BY <1>0, <3>1 DEF Upcoming
    <3> QED
      BY <1>0, <1>2, <3>1, <3>2 DEF WalkKnows
  <2> QED
    BY <1>2, <2>1, <2>2, <2>3, <2>4, <2>5 DEF DiscoverNext, BenchVisits, BenchGoesOn
<1> QED
  BY <1>1, <1>2 DEF WalkKnows

(* After the walk, zkevm-runner's files and bench's are in step.           *)
LEMMA WalkFinds == WalkKnows => RunnerFindsWhatBenchFinds
<1> SUFFICES ASSUME WalkKnows, tool = "runner", rootKind = "dir", ~FlagsRejected
             PROVE  RunnerFindsWhatBenchFinds!2
  BY DEF RunnerFindsWhatBenchFinds
<1>1. pc = "fatal" => unreadable # {} \/ paths = << >>
  BY DEF WalkKnows
<1>2. ASSUME pc \in {"found", "load"}
      PROVE  /\ {f \in BenchSees : SniffFormat(disk[f]) = "zkevm"} \subseteq ToSet(paths)
             /\ \A f \in ToSet(paths) \ BenchSees : Above[f] \cap (Hidden \ {Root}) # {}
             /\ IsInjective(paths)
  <2>1. /\ \A f \in Json : f \in ToSet(paths) <=>
             disk[f] # Absent /\ \E i \in 1 .. cursor : WalkOrder[i] = f
        /\ IsInjective(paths)
        /\ \A i \in 1 .. cursor : WalkOrder[i] \notin unreadable
        /\ Upcoming = {} /\ pruned = {} /\ unreadable \subseteq Dirs
        /\ cursor \in Nat /\ paths \in Seq(Json) /\ Len(WalkOrder) \in Nat
    BY <1>2, WalkOrderKnows DEF WalkKnows
  <2>2. ASSUME NEW e \in Entries, e \in Dirs \/ disk[e] # Absent
        PROVE  \E i \in 1 .. cursor : WalkOrder[i] = e
    <3>1. PICK i \in 1 .. Len(WalkOrder) : WalkOrder[i] = e
      BY WalkOrderKnows
    <3>2. i \notin cursor + 1 .. Len(WalkOrder)
      BY <2>1, <2>2, <3>1 DEF Upcoming
    <3>3. i \in 1 .. cursor
      BY <2>1, <3>2
    <3> QED
      BY <3>1, <3>3
  <2>3. unreadable = {}
    BY <2>1, <2>2 DEF Entries
  <2>4. \A f \in Json : f \in ToSet(paths) <=> disk[f] # Absent
    BY <2>1, <2>2, DiscoverAssumption DEF Entries
  <2>5. ToSet(paths) \subseteq Json
    BY <2>1, LenProperties, ElementOfSeq DEF ToSet
  <2>6. ASSUME NEW f \in ToSet(paths) \ BenchSees
        PROVE  Above[f] \cap (Hidden \ {Root}) # {}
    <3>1. f \in Json /\ disk[f] # Absent /\ f \in Entries
      BY <2>4, <2>5, DiscoverAssumption DEF Entries
    <3>2. Above[f] \subseteq Dirs
      BY <3>1, DiscoverAssumption
    <3>3. PICK d \in Above[f] : ({d} \cup Above[d]) \cap (Hidden \ {Root}) # {}
      BY <2>3, <3>1, <3>2 DEF BenchSees, Open
    <3>4. Above[d] \subseteq Above[f]
      BY <3>1, DiscoverAssumption
    <3> QED
      BY <3>3, <3>4
  <2>7. {f \in BenchSees : SniffFormat(disk[f]) = "zkevm"} \subseteq ToSet(paths)
    BY <2>4 DEF BenchSees
  <2> QED
    BY <2>1, <2>6, <2>7
<1> QED
  BY <1>1, <1>2

-------------------------------------------------------------------------------
(* bench's walk                                                            *)

(* Among the bad directories above an entry there is a topmost one: the    *)
(* first of them in the order of the walk.                                 *)
LEMMA TopmostBad ==
  ASSUME WalkKnows, NEW e \in Entries, Above[e] \cap Bad # {}
  PROVE  \E d \in Above[e] \cap Bad : d \in Dirs /\ Above[d] \cap Bad = {}
<1> DEFINE N == {i \in 1 .. Len(WalkOrder) : WalkOrder[i] \in Above[e] \cap Bad}
<1>1. Above[e] \subseteq Dirs /\ Dirs \subseteq Entries
  BY DiscoverAssumption DEF Entries
<1>2. N # {} /\ N \in SUBSET Nat
  BY <1>1, WalkOrderKnows
<1>3. PICK m \in N : \A k \in N : m <= k
  BY <1>2, Least
<1> DEFINE d == WalkOrder[m]
<1>4. d \in Above[e] \cap Bad /\ d \in Dirs /\ d \in Entries /\ m \in 1 .. Len(WalkOrder)
  BY <1>1
<1>5. ASSUME NEW c \in Above[d] \cap Bad PROVE FALSE
  <2>1. c \in Above[e] /\ c \in Entries
    BY <1>1, <1>4, DiscoverAssumption
  <2>2. PICK k \in 1 .. Len(WalkOrder) : WalkOrder[k] = c
    BY <2>1, WalkOrderKnows
  <2>3. k \in N /\ k \in Nat /\ m \in Nat
    BY <1>4, <2>1, <2>2
  <2>4. k < m
    BY <1>4, <2>2, WalkOrderKnows, DiscoverAssumption
  <2> QED
    BY <1>3, <2>3, <2>4
<1> QED
  BY <1>4, <1>5

(* What a file's markers say of it.                                        *)
LEMMA SniffKnows ==
  ASSUME NEW c \in Contents \cup {Absent, Locked}
  PROVE  /\ SniffFormat(c) \in {"unknown", "corpus", "zkevm"}
         /\ SniffFormat(c) = "unknown" <=> c.seen = {}
         /\ c.seen # {} => c.format \in {SniffFormat(c), "other"} /\ c # Locked /\ c # Absent
<1> DEFINE found == {i \in DOMAIN Markers : Markers[i] \in c.seen}
<1>1. /\ DOMAIN Markers = 1 .. 5 /\ Markers[1] = "stateless_input"
      /\ Markers[2] = "genesisBlockHeader" /\ Markers[3] = "engineNewPayloads"
      /\ Markers[4] = "statelessInputBytes" /\ Markers[5] = "blocks"
  BY DEF Markers
<1>2. /\ SniffFormat(c) \in {"unknown", "corpus", "zkevm"}
      /\ SniffFormat(c) = "unknown" <=> found = {}
      /\ found # {} => SniffFormat(c) = IF Min(found) = 1 THEN "corpus" ELSE "zkevm"
  BY DEF SniffFormat
<1>3. found \in SUBSET Nat
  BY <1>1
<1>4. found # {} => Min(found) \in found
  <2> HIDE DEF found
  <2> QED
    BY <1>3, MinIsLeast
<1> DEFINE first == Min(found)
<1>5. found # {} => first \in 1 .. 5 /\ Markers[first] \in c.seen
  <2> HIDE DEF first
  <2>1. found # {} => first \in found
    BY <1>4 DEF first
  <2> QED
    BY <1>1, <2>1
<1> HIDE DEF first
<1>6. /\ SniffFormat(c) = "unknown" <=> found = {}
      /\ found # {} => SniffFormat(c) = IF first = 1 THEN "corpus" ELSE "zkevm"
  BY <1>2 DEF first
<1>7. CASE c \in [format : {"corpus"}, seen : SUBSET {"stateless_input"}, blocks : {1}]
  <2>1. c.format = "corpus" /\ (c.seen = {} \/ c.seen = {"stateless_input"})
    BY <1>7
  <2>2. c.seen # {} => 1 \in found
    BY <1>1, <2>1
  <2>3. found # {} => first = 1
    BY <1>1, <1>5, <2>1
  <2>4. c # Locked /\ c # Absent
    BY <2>1 DEF Locked, Absent
  <2>5. c.seen = {} => found = {}
    OBVIOUS
  <2> HIDE DEF found
  <2> QED
    BY <1>2, <1>6, <2>1, <2>2, <2>3, <2>4, <2>5
<1>8. CASE c \in [format : {"zkevm"},
                  seen : {{}, {"genesisBlockHeader", "blocks"}, {"statelessInputBytes"}},
                  blocks : 0 .. MaxBlocks]
  <2>1. c.format = "zkevm" /\ c.seen \in {{}, {"genesisBlockHeader", "blocks"}, {"statelessInputBytes"}}
    BY <1>8
  <2>2. c.seen # {} => 2 \in found \/ 4 \in found
    BY <1>1, <2>1
  <2>3. found # {} => first # 1
    BY <1>1, <1>5, <2>1
  <2>4. c # Locked /\ c # Absent
    BY <2>1 DEF Locked, Absent
  <2>5. c.seen = {} => found = {}
    OBVIOUS
  <2> HIDE DEF found
  <2> QED
    BY <1>2, <1>6, <2>1, <2>2, <2>3, <2>4, <2>5
<1>9. CASE c \in [format : {"other"}, seen : {{}, {"blocks"}}, blocks : {0}]
  <2>1. c.format = "other" /\ c.seen \in {{}, {"blocks"}}
    BY <1>9
  <2>2. c.seen # {} => 5 \in found
    BY <1>1, <2>1
  <2>3. c # Locked /\ c # Absent
    BY <2>1 DEF Locked, Absent
  <2>4. c.seen = {} => found = {}
    OBVIOUS
  <2> HIDE DEF found
  <2> QED
    BY <1>2, <1>6, <2>1, <2>2, <2>3, <2>4
<1>10. CASE c \in {Absent, Locked}
  <2>1. c.seen = {} /\ found = {}
    BY <1>10 DEF Absent, Locked
  <2> HIDE DEF found
  <2> QED
    BY <1>2, <2>1
<1> QED
  BY <1>7, <1>8, <1>9, <1>10 DEF Contents

(* What can be run is what has a marker.                                   *)
LEMMA RunnableKnows ==
  ASSUME BenchKnows, NEW f \in Files
  PROVE  /\ Runnable(f) <=> disk[f].seen # {}
         /\ Runnable(f) => Job(f) \in FileJobs
         /\ Job(f).path = f /\ Job(f).kind = SniffFormat(disk[f])
<1>1. disk[f] \in Contents \cup {Absent, Locked}
  BY DEF BenchKnows
<1>2. /\ SniffFormat(disk[f]) \in {"unknown", "corpus", "zkevm"}
      /\ SniffFormat(disk[f]) = "unknown" <=> disk[f].seen = {}
      /\ disk[f].seen # {} => disk[f] # Locked
  BY <1>1, SniffKnows
<1> QED
  BY <1>2 DEF Runnable, Job, FileJobs

(* A job goes to the end of the jobs.                                      *)
LEMMA AppendJob ==
  ASSUME NEW s \in Seq(FileJobs), NEW j \in FileJobs
  PROVE  LET t == Append(s, j) IN
           /\ t \in Seq(FileJobs)
           /\ \A f : (\E i \in 1 .. Len(t) : t[i].path = f) <=>
                     (\E i \in 1 .. Len(s) : s[i].path = f) \/ f = j.path
           /\ \A i \in 1 .. Len(t) : t[i] = j \/ \E k \in 1 .. Len(s) : t[i] = s[k]
           /\ (/\ \A i, k \in 1 .. Len(s) : s[i].path = s[k].path => i = k
               /\ \A i \in 1 .. Len(s) : s[i].path # j.path) =>
                \A i, k \in 1 .. Len(t) : t[i].path = t[k].path => i = k
<1> DEFINE t == Append(s, j)
           n == Len(s)
<1>1. /\ n \in Nat /\ t \in Seq(FileJobs) /\ Len(t) = n + 1
      /\ \A i \in 1 .. n : t[i] = s[i]
      /\ t[n + 1] = j
  BY AppendProperties, LenProperties
<1> HIDE DEF t, n
<1>2. n + 1 \in 1 .. n + 1 /\ \A i \in 1 .. n + 1 : i \in 1 .. n \/ i = n + 1
  BY <1>1
<1>3. \A i \in 1 .. n : i \in 1 .. n + 1
  BY <1>1
<1>4. \A f : (\E i \in 1 .. n + 1 : t[i].path = f) <=>
             (\E i \in 1 .. n : s[i].path = f) \/ f = j.path
  BY <1>1, <1>2, <1>3
<1>5. \A i \in 1 .. n + 1 : t[i] = j \/ \E k \in 1 .. n : t[i] = s[k]
  BY <1>1, <1>2
<1>6. ASSUME \A i, k \in 1 .. n : s[i].path = s[k].path => i = k,
             \A i \in 1 .. n : s[i].path # j.path
      PROVE  \A i, k \in 1 .. n + 1 : t[i].path = t[k].path => i = k
  BY <1>1, <1>2, <1>6
<1> QED
  BY <1>1, <1>4, <1>5, <1>6 DEF t, n

(* What the walk comes to next. What it passes over on the way is not there*)
(* or has something bad above it; the next one has not.                    *)
LEMMA BenchGoesTo ==
  ASSUME WalkKnows, BenchKnows, tool = "bench", pc = "walk", Upcoming # {},
         NEW m, m = Min(Upcoming)
  PROVE  /\ m \in 1 .. Len(WalkOrder) /\ cursor < m /\ WalkOrder[m] \in Entries
         /\ WalkOrder[m] \in Dirs \/ disk[WalkOrder[m]] # Absent
         /\ rootKind = "dir" =>
              /\ Above[WalkOrder[m]] \cap Bad = {}
              /\ ~Reached(WalkOrder[m])
              /\ \A i \in cursor + 1 .. m - 1 :
                   \/ WalkOrder[i] \notin Dirs /\ disk[WalkOrder[i]] = Absent
                   \/ Above[WalkOrder[i]] \cap Bad # {}
<1> DEFINE e == WalkOrder[m]
<1>1. cursor \in Nat /\ cursor <= Len(WalkOrder) /\ Len(WalkOrder) \in Nat
  BY WalkOrderKnows DEF BenchKnows
<1>2. m \in Upcoming /\ \A x \in Upcoming : m <= x
  <2>1. Upcoming \in SUBSET Nat
    BY <1>1 DEF Upcoming
  <2> QED
    BY <2>1, MinIsLeast
<1>3. /\ m \in cursor + 1 .. Len(WalkOrder) /\ (e \in Dirs \/ disk[e] # Absent)
      /\ Above[e] \cap pruned = {}
  BY <1>2 DEF Upcoming
<1>4. e \in Entries /\ m \in 1 .. Len(WalkOrder) /\ cursor < m
  BY <1>1, <1>3, WalkOrderKnows
<1>5. ASSUME rootKind = "dir"
      PROVE  /\ Above[e] \cap Bad = {}
             /\ ~Reached(e)
             /\ \A i \in cursor + 1 .. m - 1 :
                  \/ WalkOrder[i] \notin Dirs /\ disk[WalkOrder[i]] = Absent
                  \/ Above[WalkOrder[i]] \cap Bad # {}
  <2>1. pruned = {d \in Bad : Reached(d)}
    BY <1>5 DEF BenchKnows
  <2>2. ASSUME NEW i \in cursor + 1 .. m - 1
        PROVE  \/ WalkOrder[i] \notin Dirs /\ disk[WalkOrder[i]] = Absent
               \/ Above[WalkOrder[i]] \cap Bad # {}
    <3>1. i \notin Upcoming /\ i \in cursor + 1 .. Len(WalkOrder)
      BY <1>1, <1>2, <1>4
    <3>2. \/ WalkOrder[i] \notin Dirs /\ disk[WalkOrder[i]] = Absent
          \/ Above[WalkOrder[i]] \cap pruned # {}
      BY <3>1 DEF Upcoming
    <3> QED
      BY <2>1, <3>2
  <2>3. ASSUME Above[e] \cap Bad # {} PROVE FALSE
    <3>1. PICK d \in Above[e] \cap Bad : d \in Dirs /\ Above[d] \cap Bad = {}
      BY <1>4, <2>3, TopmostBad
    <3>2. PICK i \in 1 .. Len(WalkOrder) : WalkOrder[i] = d
      BY <3>1, WalkOrderKnows DEF Entries
    <3>3. i < m
      BY <1>4, <3>2, WalkOrderKnows, DiscoverAssumption
    <3>4. CASE i \in 1 .. cursor
      <4>1. Reached(d)
        BY <3>1, <3>2, <3>4 DEF Reached
      <4> QED
        BY <1>3, <2>1, <4>1
    <3>5. CASE i \in cursor + 1 .. m - 1
      BY <2>2, <3>1, <3>2, <3>5
    <3>6. i \in 1 .. cursor \/ i \in cursor + 1 .. m - 1
      BY <1>1, <1>4, <3>3
    <3> QED
      BY <3>4, <3>5, <3>6
  <2>4. ~Reached(e)
    <3> SUFFICES ASSUME NEW i \in 1 .. cursor, WalkOrder[i] = e PROVE FALSE
      BY DEF Reached
    <3>1. i \in 1 .. Len(WalkOrder) /\ i # m
      BY <1>1, <1>4
    <3> QED
      BY <1>4, <3>1, WalkOrderKnows
  <2> QED
    BY <2>2, <2>3, <2>4
<1> QED
  BY <1>3, <1>4, <1>5

(* One call of the function that discover gives to WalkDir.                *)
LEMMA BenchVisitsStep ==
  ASSUME WalkKnows, BenchKnows, BenchVisits
  PROVE  BenchKnows'
<1>1. PICK m : m = Min(Upcoming)
  OBVIOUS
<1> DEFINE e == WalkOrder[m]
<1>2. /\ pc = "walk" /\ tool = "bench" /\ Upcoming # {} /\ cursor' = m
      /\ UNCHANGED <<tool, opts, rootKind, disk, unreadable, pc>>
      /\ e \in Dirs => VisitDir(e)
      /\ e \notin Dirs => VisitFile(e)
  BY <1>1 DEF BenchVisits, treeVars
<1>3. /\ m \in 1 .. Len(WalkOrder) /\ cursor < m /\ e \in Entries
      /\ e \in Dirs \/ disk[e] # Absent
      /\ rootKind = "dir" =>
           /\ Above[e] \cap Bad = {}
           /\ ~Reached(e)
           /\ \A i \in cursor + 1 .. m - 1 :
                \/ WalkOrder[i] \notin Dirs /\ disk[WalkOrder[i]] = Absent
                \/ Above[WalkOrder[i]] \cap Bad # {}
  BY <1>1, <1>2, BenchGoesTo
<1>4. /\ cursor \in Nat /\ Len(WalkOrder) \in Nat /\ cursor <= Len(WalkOrder)
      /\ jobs \in Seq(FileJobs) /\ skipped \in Seq(Entries)
      /\ \A i \in 1 .. Len(jobs) : jobs[i].kind = SniffFormat(disk[jobs[i].path])
  BY <1>2, WalkOrderKnows DEF BenchKnows
<1>5. Dirs \cap Files = {} /\ Json \subseteq Files /\ Hidden \subseteq Dirs /\ unreadable \subseteq Dirs
      /\ Root \in Dirs
  BY DiscoverAssumption DEF WalkKnows, Dirs
<1>6. /\ Bad' = Bad
      /\ \A x : Found(x)' = Found(x) /\ PassedUp(x)' = PassedUp(x)
      /\ \A x : SniffFormat(disk'[x]) = SniffFormat(disk[x])
  BY <1>2 DEF Bad, Found, PassedUp
<1> DEFINE isJob  == e \in Files /\ e \in Json /\ Runnable(e)
           isSkip == PassedUp(e)
<1>7. /\ e \notin Dirs => e \in Files /\ (Runnable(e) <=> disk[e].seen # {})
      /\ isJob <=> Found(e)
  <2>1. e \notin Dirs => e \in Files
    BY <1>3 DEF Entries
  <2>2. e \in Files => (Runnable(e) <=> disk[e].seen # {})
    BY RunnableKnows
  <2> QED
    BY <1>3, <1>5, <2>1, <2>2 DEF Found
<1>8. /\ jobs' = IF isJob THEN Append(jobs, Job(e)) ELSE jobs
      /\ skipped' = IF isSkip THEN Append(skipped, e) ELSE skipped
      /\ pruned' = IF e \in Bad THEN pruned \cup {e} ELSE pruned
  <2>1. CASE e \in Dirs
    BY <1>2, <1>5, <2>1 DEF VisitDir, PassedUp, Bad
  <2>2. CASE e \notin Dirs
    BY <1>2, <1>3, <1>5, <1>7, <2>2 DEF VisitFile, PassedUp, Bad
  <2> QED
    BY <2>1, <2>2
<1>9. /\ jobs' \in Seq(FileJobs)
      /\ \A f : (\E i \in 1 .. Len(jobs') : jobs'[i].path = f) <=>
                (\E i \in 1 .. Len(jobs) : jobs[i].path = f) \/ (isJob /\ f = e)
      /\ \A i \in 1 .. Len(jobs') : jobs'[i].kind = SniffFormat(disk[jobs'[i].path])
      /\ (/\ \A i, k \in 1 .. Len(jobs) : jobs[i].path = jobs[k].path => i = k
          /\ isJob => \A i \in 1 .. Len(jobs) : jobs[i].path # e) =>
           \A i, k \in 1 .. Len(jobs') : jobs'[i].path = jobs'[k].path => i = k
  <2>1. CASE ~isJob
    BY <1>4, <1>8, <2>1
  <2>2. CASE isJob
    <3>1. Job(e) \in FileJobs /\ Job(e).path = e /\ Job(e).kind = SniffFormat(disk[e])
      BY <2>2, RunnableKnows
    <3>2. jobs' = Append(jobs, Job(e))
      BY <1>8, <2>2
    <3>3. /\ jobs' \in Seq(FileJobs)
          /\ \A f : (\E i \in 1 .. Len(jobs') : jobs'[i].path = f) <=>
                    (\E i \in 1 .. Len(jobs) : jobs[i].path = f) \/ f = Job(e).path
          /\ \A i \in 1 .. Len(jobs') : jobs'[i] = Job(e) \/ \E k \in 1 .. Len(jobs) : jobs'[i] = jobs[k]
          /\ (/\ \A i, k \in 1 .. Len(jobs) : jobs[i].path = jobs[k].path => i = k
              /\ \A i \in 1 .. Len(jobs) : jobs[i].path # Job(e).path) =>
               \A i, k \in 1 .. Len(jobs') : jobs'[i].path = jobs'[k].path => i = k
      BY <1>4, <3>1, <3>2, AppendJob
    <3>4. \A i \in 1 .. Len(jobs') : jobs'[i].kind = SniffFormat(disk[jobs'[i].path])
      BY <1>4, <3>1, <3>3
    <3> QED
      BY <2>2, <3>1, <3>3, <3>4
  <2> QED
    BY <2>1, <2>2
<1>10. /\ skipped' \in Seq(Entries)
       /\ \A x : x \in ToSet(skipped') <=> x \in ToSet(skipped) \/ (isSkip /\ x = e)
       /\ IsInjective(skipped) /\ (isSkip => e \notin ToSet(skipped)) => IsInjective(skipped')
  <2>1. CASE ~isSkip
    BY <1>4, <1>8, <2>1
  <2>2. CASE isSkip
    BY <1>3, <1>4, <1>8, <2>2, AppendPath
  <2> QED
    BY <2>1, <2>2
<1>11. ASSUME rootKind = "dir"
       PROVE  /\ pruned' = {d \in Bad : Reached(d)'}
              /\ \A f \in Files :
                   (\E i \in 1 .. Len(jobs') : jobs'[i].path = f) <=> Found(f) /\ Reached(f)'
              /\ \A i, j \in 1 .. Len(jobs') : jobs'[i].path = jobs'[j].path => i = j
              /\ \A x \in Entries : x \in ToSet(skipped') <=> PassedUp(x) /\ Reached(x)'
              /\ IsInjective(skipped')
  <2>1. /\ pruned = {d \in Bad : Reached(d)}
        /\ \A f \in Files : (\E i \in 1 .. Len(jobs) : jobs[i].path = f) <=> Found(f) /\ Reached(f)
        /\ \A i, j \in 1 .. Len(jobs) : jobs[i].path = jobs[j].path => i = j
        /\ \A x \in Entries : x \in ToSet(skipped) <=> PassedUp(x) /\ Reached(x)
        /\ IsInjective(skipped)
    BY <1>2, <1>11 DEF BenchKnows
  <2>2. ASSUME NEW x, x \in Dirs \/ disk[x] # Absent
        PROVE  Reached(x)' <=> Reached(x) \/ x = e
    <3>1. Reached(x)' <=> (\E i \in 1 .. m : WalkOrder[i] = x) /\ Above[x] \cap Bad = {}
      BY <1>2, <1>6 DEF Reached
    <3>2. \A i \in 1 .. m : i \in 1 .. cursor \/ i = m \/ i \in cursor + 1 .. m - 1
      BY <1>3, <1>4
    <3>3. m \in 1 .. m /\ \A i \in 1 .. cursor : i \in 1 .. m
      BY <1>3, <1>4
    <3>4. ASSUME Reached(x)' PROVE Reached(x) \/ x = e
      <4>1. PICK i \in 1 .. m : WalkOrder[i] = x
        BY <3>1, <3>4
      <4>2. i \notin cursor + 1 .. m - 1
        BY <1>3, <1>11, <2>2, <3>1, <3>4, <4>1
      <4> QED
        BY <3>1, <3>2, <3>4, <4>1, <4>2 DEF Reached
    <3>5. ASSUME Reached(x) PROVE Reached(x)'
      BY <3>1, <3>3, <3>5 DEF Reached
    <3>6. ASSUME x = e PROVE Reached(x)'
      BY <1>3, <1>11, <3>1, <3>3, <3>6
    <3> QED
      BY <3>4, <3>5, <3>6
  <2>3. /\ \A d \in Bad : d \in Dirs
        /\ \A f : Found(f) => f \in Files /\ disk[f] # Absent
        /\ \A x : PassedUp(x) => x \in Dirs \/ disk[x] # Absent
    BY <1>5 DEF Bad, Found, PassedUp
  <2>4. pruned' = {d \in Bad : Reached(d)'}
    BY <1>8, <2>1, <2>2, <2>3
  <2>5. \A f \in Files :
          (\E i \in 1 .. Len(jobs') : jobs'[i].path = f) <=> Found(f) /\ Reached(f)'
    <3> HIDE DEF isJob, e
    <3> SUFFICES ASSUME NEW f \in Files
                 PROVE  (\E i \in 1 .. Len(jobs') : jobs'[i].path = f) <=> Found(f) /\ Reached(f)'
      OBVIOUS
    <3>1. (\E i \in 1 .. Len(jobs') : jobs'[i].path = f) <=> (Found(f) /\ Reached(f)) \/ (isJob /\ f = e)
      BY <1>9, <2>1, Zenon
    <3>2. Found(f) => (Reached(f)' <=> Reached(f) \/ f = e)
      BY <2>2, <2>3
    <3>3. isJob /\ f = e => Found(f)
      BY <1>7
    <3>4. Found(f) /\ f = e => isJob
      BY <1>7
    <3> QED
      BY <3>1, <3>2, <3>3, <3>4
  <2>6. \A x \in Entries : x \in ToSet(skipped') <=> PassedUp(x) /\ Reached(x)'
    BY <1>10, <2>1, <2>2, <2>3
  <2>7. isJob => \A i \in 1 .. Len(jobs) : jobs[i].path # e
    BY <1>3, <1>11, <2>1
  <2>8. isSkip => e \notin ToSet(skipped)
    BY <1>3, <1>11, <2>1
  <2> QED
    BY <1>9, <1>10, <2>1, <2>4, <2>5, <2>6, <2>7, <2>8
<1> HIDE DEF isJob, isSkip
<1>12. disk' \in [Files -> Contents \cup {Absent, Locked}] /\ pc' = "walk" /\ tool' = "bench"
  BY <1>2 DEF BenchKnows
<1>13. m \in 0 .. Len(WalkOrder)
  BY <1>3, <1>4
<1> QED
  BY <1>2, <1>6, <1>9, <1>10, <1>11, <1>12, <1>13 DEF BenchKnows

(* What discover returns: the jobs of the walk in the order of their paths.*)
Sorts(t, s) ==
  /\ t \in Seq(FileJobs) /\ Len(t) = Len(s)
  /\ \A i \in 1 .. Len(t) : \E k \in 1 .. Len(s) : t[i] = s[k]
  /\ \A f : (\E i \in 1 .. Len(t) : t[i].path = f) <=> (\E i \in 1 .. Len(s) : s[i].path = f)
  /\ (\A i, j \in 1 .. Len(s) : s[i].path = s[j].path => i = j) =>
       /\ \A i, j \in 1 .. Len(t) : t[i].path = t[j].path => i = j
       /\ \A i, j \in 1 .. Len(t) : i < j => PathRank[t[i].path] < PathRank[t[j].path]

(* discover's sort of its jobs keeps each job and puts the paths in order. *)
LEMMA JobsSorted ==
  ASSUME NEW s \in Seq(FileJobs)
  PROVE  Sorts(SliceStable(LAMBDA x, y : PathRank[x.path] < PathRank[y.path], s), s)
<1> DEFINE A == Range(s)
           R == {p \in A \X A : PathRank[p[1].path] < PathRank[p[2].path]}
           t == SortedBy(R, s)
           n == Len(s)
           key == [x \in A |-> PathRank[x.path]]
<1>1. t = SliceStable(LAMBDA x, y : PathRank[x.path] < PathRank[y.path], s)
  BY DEF SliceStable
<1>2. n \in Nat /\ s \in Seq(A) /\ \A i \in 1 .. n : s[i] \in FileJobs /\ s[i] \in A
  BY LenProperties, ElementOfSeq, SeqOfRange
<1>3. \A x \in A : x \in FileJobs
  BY LenProperties, ElementOfSeq DEF Range
<1>4. \A x \in FileJobs : x.path \in Files /\ PathRank[x.path] \in Nat
  BY DiscoverAssumption DEF FileJobs
<1>5. \A x \in A : key[x] = PathRank[x.path] /\ key[x] \in Int
  BY <1>3, <1>4
<1>6. \A x, y \in A : <<x, y>> \in R <=> PathRank[x.path] < PathRank[y.path]
  OBVIOUS
<1> HIDE DEF A, R, key
<1>7. IsLess(R, A)
  BY <1>5, <1>6, KeyIsLess
<1>8. t \in Seq(A) /\ Len(t) = n /\ \A i \in 1 .. n : t[i] \in A
  <2>1. t \in Seq(A) /\ Len(t) = n
    BY <1>2, SortedArranges
  <2> QED
    BY <2>1, ElementOfSeq
<1>9. PICK p : Arranges(p, t, s, n) /\ InOrder(R, p, t, n)
  BY <1>2, <1>7, SortedArranges
<1> HIDE DEF t, n
<1>10. /\ p \in [1 .. n -> 1 .. n]
       /\ \A i, j \in 1 .. n : p[i] = p[j] => i = j
       /\ \A i \in 1 .. n : \E k \in 1 .. n : p[k] = i
       /\ \A k \in 1 .. n : t[k] = s[p[k]]
  BY <1>9 DEF Arranges
<1>11. t \in Seq(FileJobs)
  BY <1>3, <1>8, SeqMonotonic
<1>12. \A i \in 1 .. n : \E k \in 1 .. n : t[i] = s[k]
  BY <1>10
<1>13. \A f : (\E i \in 1 .. n : t[i].path = f) <=> (\E i \in 1 .. n : s[i].path = f)
  <2> SUFFICES ASSUME NEW f
               PROVE  (\E i \in 1 .. n : t[i].path = f) <=> (\E i \in 1 .. n : s[i].path = f)
    OBVIOUS
  <2>1. ASSUME NEW i \in 1 .. n, t[i].path = f PROVE \E k \in 1 .. n : s[k].path = f
    BY <1>12, <2>1
  <2>2. ASSUME NEW i \in 1 .. n, s[i].path = f PROVE \E k \in 1 .. n : t[k].path = f
    <3>1. PICK k \in 1 .. n : p[k] = i
      BY <1>10
    <3>2. t[k] = s[i]
      BY <1>10, <3>1
    <3> QED
      BY <2>2, <3>2
  <2> QED
    BY <2>1, <2>2
<1>14. ASSUME \A i, j \in 1 .. n : s[i].path = s[j].path => i = j
       PROVE  /\ \A i, j \in 1 .. n : t[i].path = t[j].path => i = j
              /\ \A i, j \in 1 .. n : i < j => PathRank[t[i].path] < PathRank[t[j].path]
  <2>1. ASSUME NEW i \in 1 .. n, NEW j \in 1 .. n, t[i].path = t[j].path PROVE i = j
    <3>1. p[i] \in 1 .. n /\ p[j] \in 1 .. n /\ t[i] = s[p[i]] /\ t[j] = s[p[j]]
      BY <1>10
    <3>2. s[p[i]].path = s[p[j]].path
      BY <2>1, <3>1
    <3>3. p[i] = p[j]
      BY <1>14, <3>1, <3>2
    <3> QED
      BY <1>10, <3>3
  <2>2. ASSUME NEW i \in 1 .. n, NEW j \in 1 .. n, i < j
        PROVE  PathRank[t[i].path] < PathRank[t[j].path]
    <3>1. t[i].path # t[j].path
      BY <1>2, <2>1, <2>2
    <3>2. ~(PathRank[t[j].path] < PathRank[t[i].path])
      BY <1>6, <1>8, <1>9, <2>2 DEF InOrder
    <3>3. /\ t[i].path \in Files /\ PathRank[t[i].path] \in Nat
          /\ t[j].path \in Files /\ PathRank[t[j].path] \in Nat
      BY <1>3, <1>4, <1>8
    <3>4. PathRank[t[i].path] # PathRank[t[j].path]
      BY <3>1, <3>3, DiscoverAssumption
    <3> QED
      BY <3>2, <3>3, <3>4
  <2> QED
    BY <2>1, <2>2
<1> QED
  BY <1>1, <1>8, <1>11, <1>12, <1>13, <1>14 DEF Sorts, n

(* How many jobs have their file in d.                                     *)
LEMMA SuitesFinite ==
  ASSUME jobs \in Seq(FileJobs)
  PROVE  /\ Len(jobs) \in Nat /\ DOMAIN jobs = 1 .. Len(jobs)
         /\ \A i \in 1 .. Len(jobs) : jobs[i].kind \in {"corpus", "zkevm"}
         /\ \A I \in SUBSET (1 .. Len(jobs)) : IsFiniteSet(I) /\ Cardinality(I) \in Nat
         /\ Cardinality(1 .. Len(jobs)) = Len(jobs)
<1>1. Len(jobs) \in Nat /\ DOMAIN jobs = 1 .. Len(jobs)
  BY LenProperties
<1>2. \A i \in 1 .. Len(jobs) : jobs[i].kind \in {"corpus", "zkevm"}
  <2>1. \A i \in 1 .. Len(jobs) : jobs[i] \in FileJobs
    BY ElementOfSeq
  <2>2. \A x \in FileJobs : x.kind \in {"corpus", "zkevm"}
    BY DEF FileJobs
  <2> QED
    BY <2>1, <2>2
<1>3. IsFiniteSet(1 .. Len(jobs)) /\ Cardinality(1 .. Len(jobs)) = Len(jobs)
  BY <1>1, FS_Interval
<1> QED
  BY <1>1, <1>2, <1>3, FS_Subset, FS_CardinalityType

(* What printCensus prints adds up.                                        *)
LEMMA CensusCorrect ==
  ASSUME jobs \in Seq(FileJobs), NEW C, C = Census
  PROVE  CensusAddsUp(C)
<1> DEFINE n == Len(jobs)
           own(d) == {i \in 1 .. n : suiteOf(jobs[i].path) = d}
           suites == {suiteOf(jobs[i].path) : i \in 1 .. n}
           q == SetToSeq(suites)
           names == SliceStable(LAMBDA s, t : FilesIn(s) > FilesIn(t), q)
           c == Len(names)
           shown == IF c > MaxSuitesShown THEN SubSeq(names, 1, MaxSuitesShown) ELSE names
           h == Len(shown)
<1>1. /\ n \in Nat /\ DOMAIN jobs = 1 .. n /\ Cardinality(1 .. n) = n
      /\ \A i \in 1 .. n : jobs[i].kind \in {"corpus", "zkevm"}
      /\ \A I \in SUBSET (1 .. n) : IsFiniteSet(I) /\ Cardinality(I) \in Nat
  BY SuitesFinite
<1>2. \A d : FilesIn(d) = Cardinality(own(d)) /\ FilesIn(d) \in Nat /\ IsFiniteSet(own(d))
  <2>1. ASSUME NEW d PROVE FilesIn(d) = Cardinality(own(d)) /\ own(d) \in SUBSET (1 .. n)
    BY <1>1 DEF FilesIn
  <2> HIDE DEF own, n
  <2> QED
    BY <1>1, <2>1
<1>3. /\ C.byKind["corpus"] = Cardinality({i \in 1 .. n : jobs[i].kind = "corpus"})
      /\ C.byKind["zkevm"] = Cardinality({i \in 1 .. n : jobs[i].kind = "zkevm"})
      /\ C.shown = [i \in DOMAIN shown |-> FilesIn(shown[i])]
      /\ C.rest = Total([i \in 1 .. c - h |-> FilesIn(names[h + i])])
  <2>1. Census = [byKind |-> [k \in {"corpus", "zkevm"} |->
                                Cardinality({i \in DOMAIN jobs : jobs[i].kind = k})],
                  shown  |-> [i \in DOMAIN shown |-> FilesIn(shown[i])],
                  rest   |-> Total([i \in 1 .. c - h |-> FilesIn(names[h + i])])]
    BY <1>1, Zenon DEF Census
  <2> HIDE DEF shown, names, c, h
  <2>2. C.byKind = [k \in {"corpus", "zkevm"} |->
                           Cardinality({i \in DOMAIN jobs : jobs[i].kind = k})]
    BY <2>1
  <2>3. /\ C.byKind["corpus"] = Cardinality({i \in DOMAIN jobs : jobs[i].kind = "corpus"})
        /\ C.byKind["zkevm"] = Cardinality({i \in DOMAIN jobs : jobs[i].kind = "zkevm"})
    BY <2>2
  <2>4. /\ C.byKind["corpus"] = Cardinality({i \in 1 .. n : jobs[i].kind = "corpus"})
        /\ C.byKind["zkevm"] = Cardinality({i \in 1 .. n : jobs[i].kind = "zkevm"})
    BY <1>1, <2>3, Zenon
  <2> QED
    BY <2>1, <2>4
<1>4. C.byKind["corpus"] + C.byKind["zkevm"] = n
  <2> DEFINE O == {i \in 1 .. n : jobs[i].kind = "corpus"}
             Z == {i \in 1 .. n : jobs[i].kind = "zkevm"}
  <2>1. O \cup Z = 1 .. n /\ O \cap Z = {} /\ O \in SUBSET (1 .. n) /\ Z \in SUBSET (1 .. n)
    BY <1>1
  <2>2. C.byKind["corpus"] = Cardinality(O) /\ C.byKind["zkevm"] = Cardinality(Z)
    BY <1>3
  <2> HIDE DEF O, Z, n
  <2>3. IsFiniteSet(O) /\ IsFiniteSet(Z)
    BY <1>1, <2>1
  <2> QED
    BY <1>1, <2>1, <2>2, <2>3, DisjointCount
<1>5. /\ \A d \in suites : \E i \in 1 .. n : i \in own(d)
      /\ \A i \in 1 .. n : suiteOf(jobs[i].path) \in suites /\ i \in own(suiteOf(jobs[i].path))
      /\ \A d, e : d # e => own(d) \cap own(e) = {}
      /\ \A d : own(d) \subseteq 1 .. n
      /\ \A d : d \notin suites => own(d) = {}
  OBVIOUS
<1>6. IsFiniteSet(suites)
  <2>1. IsFiniteSet(1 .. n)
    BY <1>1, FS_Interval
  <2> DEFINE g == [i \in 1 .. n |-> suiteOf(jobs[i].path)]
  <2>2. g \in Surjection(1 .. n, suites)
    BY DEF Surjection
  <2> HIDE DEF g, suites, n
  <2> QED
    BY <2>1, <2>2, FS_Surjection
<1>7. q \in Seq(suites) /\ Enumerates(q, Len(q), suites)
  <2> HIDE DEF suites
  <2> QED
    BY <1>6, SetToSeqLists
<1> HIDE DEF suites, own, q, n
<1> DEFINE R == {p \in Range(q) \X Range(q) : FilesIn(p[1]) > FilesIn(p[2])}
           key == [d \in suites |-> 0 - FilesIn(d)]
<1>8. names = SortedBy(R, q)
  BY DEF SliceStable
<1>9. Range(q) = suites
  <2>1. DOMAIN q = 1 .. Len(q) /\ \A i \in 1 .. Len(q) : q[i] \in suites
    BY <1>7, LenProperties, ElementOfSeq
  <2> QED
    BY <1>7, <2>1 DEF Enumerates, Range
<1>10. IsLess(R, suites)
  <2>1. \A d, e \in suites : <<d, e>> \in R <=> FilesIn(d) > FilesIn(e)
    BY <1>9
  <2>2. \A d \in suites : key[d] = 0 - FilesIn(d) /\ key[d] \in Int
    BY <1>2
  <2> HIDE DEF R, key
  <2>3. ASSUME NEW d \in suites, NEW e \in suites PROVE <<d, e>> \in R <=> key[d] < key[e]
    <3> DEFINE x == FilesIn(d)
               y == FilesIn(e)
    <3>1. x \in Nat /\ y \in Nat /\ key[d] = 0 - x /\ key[e] = 0 - y /\ (<<d, e>> \in R <=> x > y)
      BY <1>2, <2>1, <2>2
    <3> HIDE DEF x, y
    <3> QED
      BY <3>1
  <2> QED
    BY <2>2, <2>3, KeyIsLess
<1>11. /\ names \in Seq(suites) /\ Enumerates(names, c, suites)
       /\ \A i, j \in 1 .. c : i < j => <<names[j], names[i]>> \notin R
  <2> HIDE DEF R
  <2> QED
    BY <1>7, <1>8, <1>10, SortedEnumerates
<1>12. /\ c \in Nat /\ DOMAIN names = 1 .. c /\ \A i \in 1 .. c : names[i] \in suites
       /\ \A i, j \in 1 .. c : names[i] = names[j] => i = j
       /\ \A d \in suites : \E k \in 1 .. c : names[k] = d
  BY <1>11, LenProperties, ElementOfSeq DEF Enumerates
<1>13. \A i, j \in 1 .. c : i < j => FilesIn(names[j]) <= FilesIn(names[i])
  <2>1. ASSUME NEW d \in suites, NEW e \in suites, <<d, e>> \notin R PROVE FilesIn(d) <= FilesIn(e)
    <3>1. ~(FilesIn(d) > FilesIn(e))
      BY <1>9, <2>1
    <3>2. FilesIn(d) \in Nat /\ FilesIn(e) \in Nat
      BY <1>2
    <3> QED
      BY <3>1, <3>2
  <2> HIDE DEF R, names, c
  <2> QED
    BY <1>11, <1>12, <2>1
<1> HIDE DEF R, names
<1>14. /\ h \in 0 .. c /\ DOMAIN shown = 1 .. h /\ \A i \in 1 .. h : shown[i] = names[i]
       /\ h < MaxSuitesShown => h = c
  <2>1. MaxSuitesShown \in Nat
    BY DiscoverAssumption
  <2>2. CASE c > MaxSuitesShown
    <3>1. \A i \in 1 .. MaxSuitesShown : names[i] \in suites
      BY <1>12, <2>1, <2>2
    <3> DEFINE w == SubSeq(names, 1, MaxSuitesShown)
    <3>2. /\ w \in Seq(suites)
          /\ Len(w) = IF 1 <= MaxSuitesShown THEN MaxSuitesShown - 1 + 1 ELSE 0
          /\ \A i \in 1 .. MaxSuitesShown - 1 + 1 : w[i] = names[1 + i - 1]
      BY <2>1, <3>1, SubSeqProperties
    <3> HIDE DEF w
    <3>3. Len(w) = MaxSuitesShown /\ DOMAIN w = 1 .. Len(w)
          /\ \A i \in 1 .. MaxSuitesShown : w[i] = names[i]
      BY <2>1, <3>2, LenProperties
    <3>4. shown = w
      BY <2>2 DEF w
    <3> HIDE DEF shown, c
    <3> QED
      BY <1>12, <2>1, <2>2, <3>3, <3>4
  <2>3. CASE ~(c > MaxSuitesShown)
    <3>1. shown = names /\ h = c
      BY <2>3
    <3> HIDE DEF shown, h, c
    <3> QED
      BY <1>12, <2>1, <3>1
  <2> QED
    BY <2>2, <2>3
<1> HIDE DEF c, h, shown
<1> DEFINE top == [i \in 1 .. h |-> FilesIn(names[i])]
           low == [i \in 1 .. c - h |-> FilesIn(names[h + i])]
<1>15. C.shown = top /\ C.rest = Total(low)
  <2>1. [i \in DOMAIN shown |-> FilesIn(shown[i])] = top
    BY <1>14
  <2> QED
    BY <1>3, <2>1
<1>16. /\ top \in Seq(Nat) /\ Len(top) = h /\ DOMAIN top = 1 .. h
       /\ low \in Seq(Nat) /\ Len(low) = c - h
       /\ h \in Nat /\ c - h \in Nat
       /\ \A i \in 1 .. h : i \in 1 .. c
       /\ \A i \in 1 .. c - h : h + i \in 1 .. c /\ h + i > h
  <2>1. h \in Nat /\ c - h \in Nat
    BY <1>12, <1>14
  <2>2. top \in [1 .. h -> Nat] /\ low \in [1 .. c - h -> Nat]
    BY <1>2
  <2> HIDE DEF top, low
  <2>3. top \in Seq(Nat) /\ Len(top) = h /\ DOMAIN top = 1 .. h
    BY <2>1, <2>2, FunctionIsSeq
  <2>4. low \in Seq(Nat) /\ Len(low) = c - h
    BY <2>1, <2>2, FunctionIsSeq
  <2> QED
    BY <1>12, <1>14, <2>1, <2>3, <2>4
<1> DEFINE P == [i \in 1 .. h |-> own(names[i])]
           Q == [i \in 1 .. c - h |-> own(names[h + i])]
           X == UNION {P[i] : i \in 1 .. h}
           Y == UNION {Q[i] : i \in 1 .. c - h}
<1>17. Sizes(top, P, h)
  <2>1. \A k \in 1 .. h : IsFiniteSet(P[k]) /\ top[k] = Cardinality(P[k])
    BY <1>2
  <2>2. \A i, j \in 1 .. h : i # j => P[i] \cap P[j] = {}
    <3>1. \A i, j \in 1 .. h : i # j => names[i] # names[j]
      BY <1>12, <1>16
    <3> QED
      BY <1>5, <3>1
  <2> HIDE DEF top, P
  <2> QED
    BY <1>16, <2>1, <2>2 DEF Sizes
<1>18. Sizes(low, Q, c - h)
  <2>1. \A k \in 1 .. c - h : IsFiniteSet(Q[k]) /\ low[k] = Cardinality(Q[k])
    BY <1>2
  <2>2. \A i, j \in 1 .. c - h : i # j => Q[i] \cap Q[j] = {}
    <3>1. \A i, j \in 1 .. c - h : i # j => h + i # h + j
      BY <1>16
    <3>2. \A i, j \in 1 .. c - h : i # j => names[h + i] # names[h + j]
      BY <1>12, <1>16, <3>1
    <3> QED
      BY <1>5, <3>2
  <2> HIDE DEF low, Q
  <2> QED
    BY <1>16, <2>1, <2>2 DEF Sizes
<1>19. X \cap Y = {} /\ X \cup Y = 1 .. n
  <2>1. X \cup Y \subseteq 1 .. n
    BY <1>5
  <2>2. X \cap Y = {}
    <3> SUFFICES ASSUME NEW i \in 1 .. h, NEW j \in 1 .. c - h PROVE P[i] \cap Q[j] = {}
      OBVIOUS
    <3>1. i \in 1 .. c /\ h + j \in 1 .. c /\ i # h + j
      BY <1>16
    <3>2. names[i] # names[h + j]
      BY <1>12, <3>1
    <3> QED
      BY <1>5, <3>2
  <2>3. ASSUME NEW x \in 1 .. n PROVE x \in X \cup Y
    <3>1. PICK k \in 1 .. c : x \in own(names[k])
      BY <1>5, <1>12
    <3>2. CASE k <= h
      <4>1. k \in 1 .. h
        BY <1>16, <3>2
      <4> QED
        BY <3>1, <4>1
    <3>3. CASE ~(k <= h)
      <4>1. k - h \in 1 .. c - h /\ h + (k - h) = k
        BY <1>12, <1>16, <3>3
      <4>2. x \in Q[k - h]
        BY <3>1, <4>1
      <4> QED
        BY <4>1, <4>2
    <3> QED
      BY <3>2, <3>3
  <2> QED
    BY <2>1, <2>2, <2>3
<1>20. /\ Total(top) = Cardinality(X) /\ IsFiniteSet(X)
       /\ Total(low) = Cardinality(Y) /\ IsFiniteSet(Y)
  <2> HIDE DEF P, Q, top, low
  <2>1. Total(top) = Cardinality(X) /\ IsFiniteSet(X)
    BY <1>17, TotalOfSizes
  <2>2. Total(low) = Cardinality(Y) /\ IsFiniteSet(Y)
    BY <1>18, TotalOfSizes
  <2> QED
    BY <2>1, <2>2
<1>21. Total(C.shown) + C.rest = n
  <2> HIDE DEF X, Y, top, low
  <2> QED
    BY <1>1, <1>15, <1>19, <1>20, DisjointCount
<1>22. Len(C.shown) < MaxSuitesShown => C.rest = 0
  <2> SUFFICES ASSUME h < MaxSuitesShown PROVE Total(low) = 0
    BY <1>15, <1>16
  <2>1. c - h = 0
    BY <1>12, <1>14
  <2>2. Y = {}
    BY <2>1
  <2> HIDE DEF Y, low
  <2> QED
    BY <1>20, <2>2, FS_EmptySet
<1>23. ASSUME NEW i \in 1 .. h
       PROVE  Cardinality({d \in Dirs : FilesIn(d) > top[i]}) < i
  <2> DEFINE B == {d \in Dirs : FilesIn(d) > top[i]}
             first == {names[l] : l \in 1 .. i - 1}
  <2>1. top[i] = FilesIn(names[i]) /\ i \in 1 .. c /\ i \in Nat
    BY <1>16
  <2>2. ASSUME NEW d \in B PROVE d \in first
    <3>1. FilesIn(d) > FilesIn(names[i])
      BY <2>1
    <3>2. d \in suites
      <4>1. FilesIn(d) \in Nat /\ FilesIn(names[i]) \in Nat
        BY <1>2
      <4>2. FilesIn(d) # 0
        BY <3>1, <4>1
      <4> QED
        BY <1>2, <1>5, <4>2, FS_EmptySet
    <3>3. PICK k \in 1 .. c : names[k] = d
      BY <1>12, <3>2
    <3>4. k < i
      <4>1. FilesIn(d) \in Nat /\ FilesIn(names[i]) \in Nat
        BY <1>2
      <4>2. k # i /\ ~(i < k)
        BY <1>13, <2>1, <3>1, <3>3, <4>1
      <4> QED
        BY <1>12, <2>1, <4>2
    <3>5. k \in 1 .. i - 1
      BY <2>1, <3>4
    <3> QED
      BY <3>3, <3>5
  <2>3. IsFiniteSet(first) /\ Cardinality(first) = i - 1
    <3> DEFINE k == i - 1
    <3>1. k \in 0 .. c /\ Enumerates(names, c, suites)
      BY <1>11, <1>12, <2>1
    <3> HIDE DEF k
    <3>2. ASSUME NEW b, Enumerates(b, c, suites)
          PROVE  IsFiniteSet({b[l] : l \in 1 .. k}) /\ Cardinality({b[l] : l \in 1 .. k}) = k
      BY <3>1, <3>2, FirstCount
    <3>3. IsFiniteSet({names[l] : l \in 1 .. k}) /\ Cardinality({names[l] : l \in 1 .. k}) = k
      BY <3>1, <3>2
    <3> QED
      BY <3>3 DEF k
  <2>4. B \in SUBSET first
    BY <2>2
  <2> HIDE DEF B, first
  <2>5. Cardinality(B) <= i - 1 /\ Cardinality(B) \in Nat
    BY <2>3, <2>4, FS_Subset, FS_CardinalityType
  <2>6. Cardinality(B) < i
    BY <2>1, <2>5
  <2> QED
    BY <2>6 DEF B
<1> HIDE DEF top, low
<1> QED
  BY <1>4, <1>15, <1>16, <1>21, <1>22, <1>23 DEF CensusAddsUp, n

(* Nothing is found before the walk.                                       *)
LEMMA BenchInit == DiscoverInit => BenchKnows
<1> SUFFICES ASSUME DiscoverInit PROVE BenchKnows
  OBVIOUS
<1>1. disk \in [Files -> Contents \cup {Absent, Locked}]
  <2>1. DOMAIN disk = Files /\ disk = [f \in Files |-> disk[f]] /\ \A f \in Files : disk[f] \in MayHold[f]
    BY DEF DiscoverInit
  <2>2. \A f \in Files : MayHold[f] \subseteq Contents \cup {Absent, Locked}
    BY MayHoldAssumption
  <2> QED
    BY <2>1, <2>2
<1>2. /\ jobs = << >> /\ skipped = << >> /\ pruned = {} /\ cursor = 0 /\ pc = "flags"
      /\ << >> \in Seq(FileJobs) /\ << >> \in Seq(Entries) /\ Len(<< >>) = 0
      /\ 0 \in 0 .. Len(WalkOrder)
  BY EmptySeq, WalkOrderKnows DEF DiscoverInit
<1> QED
  BY <1>1, <1>2 DEF BenchKnows

(* Until the census is printed: where neither the walk nor what it found   *)
(* changes, what bench knows does not.                                     *)
LEMMA BenchStays ==
  ASSUME BenchKnows, UNCHANGED <<tool, opts, rootKind, disk, unreadable, cursor, pruned, jobs, skipped>>,
         pc' # "flags", tool = "bench" /\ rootKind = "dir" => pc' # "single",
         tool = "bench" /\ rootKind = "dir" /\ pc' \in {"walk", "found", "run", "done"} =>
           pc \in {"found", "run", "done"} /\ pc' # "walk",
         pc' = "done" => tool = "bench" /\ (opts.dryRun => CensusAddsUp(census)')
  PROVE  BenchKnows'
<1>1. /\ Bad' = Bad /\ Upcoming' = Upcoming
      /\ \A x : Found(x)' = Found(x) /\ PassedUp(x)' = PassedUp(x)
  BY DEF Bad, Upcoming, Found, PassedUp
<1>2. \A x : Reached(x)' = Reached(x)
  BY <1>1 DEF Reached
<1> QED
  BY <1>1, <1>2 DEF BenchKnows

(* Each step of discover keeps what was found in step with the walk.       *)
LEMMA BenchStep ==
  ASSUME WalkKnows, BenchKnows, DiscoverNext
  PROVE  BenchKnows'
<1>1. UNCHANGED <<tool, opts, rootKind, disk, unreadable>>
  BY DiscoverFrame DEF treeVars
<1>2. CASE CheckFlags
  <2>1. /\ UNCHANGED <<cursor, pruned, jobs, skipped>> /\ pc = "flags"
        /\ pc' \in {"walk", "single", "found", "fatal"}
        /\ rootKind = "dir" => pc' \in {"walk", "fatal"}
    BY <1>2 DEF CheckFlags, WalkKnows
  <2>2. ASSUME tool = "bench"
        PROVE  /\ cursor = 0 /\ pruned = {} /\ jobs = << >> /\ skipped = << >>
               /\ \A x : ~Reached(x)' /\ x \notin ToSet(skipped)
               /\ IsInjective(skipped) /\ Len(jobs) = 0
    <3>1. cursor = 0 /\ pruned = {} /\ jobs = << >> /\ skipped = << >>
      BY <2>1, <2>2 DEF BenchKnows
    <3>2. \A x : ~Reached(x)'
      BY <2>1, <3>1 DEF Reached
    <3> QED
      BY <3>1, <3>2, EmptySeq DEF ToSet, IsInjective
  <2> QED
    BY <1>1, <2>1, <2>2 DEF BenchKnows
<1>3. CASE BenchVisits
  BY <1>3, BenchVisitsStep
<1>4. CASE RunnerVisits
  <2>1. tool = "runner" /\ UNCHANGED <<jobs, skipped>> /\ pc' \in {"walk", "fatal"}
    BY <1>4 DEF RunnerVisits
  <2> QED
    BY <1>1, <2>1 DEF BenchKnows
<1>5. CASE WalkEnds /\ tool = "bench"
  <2>1. /\ pc = "walk" /\ pc' = "found" /\ Upcoming = {} /\ UNCHANGED <<cursor, pruned, skipped>>
        /\ jobs' = SliceStable(LAMBDA x, y : PathRank[x.path] < PathRank[y.path], jobs)
    BY <1>5 DEF WalkEnds
  <2>2. jobs \in Seq(FileJobs)
    BY <1>5 DEF BenchKnows
  <2>3. Sorts(jobs', jobs)
    BY <2>1, <2>2, JobsSorted
  <2>4. /\ Bad' = Bad /\ Upcoming' = Upcoming
        /\ \A x : Found(x)' = Found(x) /\ PassedUp(x)' = PassedUp(x)
    BY <1>1, <2>1 DEF Bad, Upcoming, Found, PassedUp
  <2>5. \A x : Reached(x)' = Reached(x)
    BY <2>1, <2>4 DEF Reached
  <2>6. jobs' \in Seq(FileJobs)
        /\ \A i \in 1 .. Len(jobs') : jobs'[i].kind = SniffFormat(disk[jobs'[i].path])
    <3>1. \A k \in 1 .. Len(jobs) : jobs[k].kind = SniffFormat(disk[jobs[k].path])
      BY <1>5 DEF BenchKnows
    <3>2. jobs' \in Seq(FileJobs) /\ \A i \in 1 .. Len(jobs') : \E k \in 1 .. Len(jobs) : jobs'[i] = jobs[k]
      BY <2>3 DEF Sorts
    <3> QED
      BY <3>1, <3>2, Zenon
  <2>7. ASSUME rootKind = "dir"
        PROVE  /\ \A f \in Files :
                    (\E i \in 1 .. Len(jobs') : jobs'[i].path = f) <=> Found(f) /\ Reached(f)
               /\ \A i, j \in 1 .. Len(jobs') : jobs'[i].path = jobs'[j].path => i = j
               /\ \A i, j \in 1 .. Len(jobs') :
                    i < j => PathRank[jobs'[i].path] < PathRank[jobs'[j].path]
    <3>1. /\ \A f \in Files : (\E i \in 1 .. Len(jobs) : jobs[i].path = f) <=> Found(f) /\ Reached(f)
          /\ \A i, j \in 1 .. Len(jobs) : jobs[i].path = jobs[j].path => i = j
      BY <1>5, <2>1, <2>7 DEF BenchKnows
    <3>2. \A f : (\E i \in 1 .. Len(jobs') : jobs'[i].path = f) <=>
                 (\E i \in 1 .. Len(jobs) : jobs[i].path = f)
      BY <2>3 DEF Sorts
    <3> QED
      BY <2>3, <3>1, <3>2 DEF Sorts
  <2> QED
    BY <1>1, <1>5, <2>1, <2>4, <2>5, <2>6, <2>7 DEF BenchKnows
<1>6. CASE WalkEnds /\ tool # "bench"
  <2>1. pc' = "found"
    BY <1>6 DEF WalkEnds
  <2> QED
    BY <1>1, <1>6, <2>1 DEF BenchKnows
<1>7. CASE TakeSingle
  <2>1. /\ pc = "single" /\ pc' \in {"fatal", "found"} /\ UNCHANGED cursor
        /\ tool = "bench" =>
             /\ jobs' = IF Runnable(Single) THEN <<Job(Single)>> ELSE jobs
             /\ skipped' \in {skipped, <<Single>>}
    BY <1>7 DEF TakeSingle
  <2>2. Single \in Files /\ Single \in Entries
    BY DiscoverAssumption DEF Entries
  <2>3. ASSUME tool = "bench"
        PROVE  /\ jobs' \in Seq(FileJobs) /\ skipped' \in Seq(Entries)
               /\ \A i \in 1 .. Len(jobs') : jobs'[i].kind = SniffFormat(disk[jobs'[i].path])
    <3>1. /\ jobs \in Seq(FileJobs) /\ skipped' \in Seq(Entries)
          /\ \A i \in 1 .. Len(jobs) : jobs[i].kind = SniffFormat(disk[jobs[i].path])
      <4>1. /\ jobs \in Seq(FileJobs) /\ skipped \in Seq(Entries)
            /\ \A i \in 1 .. Len(jobs) : jobs[i].kind = SniffFormat(disk[jobs[i].path])
        BY <2>3 DEF BenchKnows
      <4>2. <<Single>> \in Seq(Entries)
        BY <2>2
      <4> QED
        BY <2>1, <2>3, <4>1, <4>2
    <3>2. CASE ~Runnable(Single)
      BY <2>1, <2>3, <3>1, <3>2
    <3>3. CASE Runnable(Single)
      <4>1. Job(Single) \in FileJobs /\ Job(Single).path = Single
            /\ Job(Single).kind = SniffFormat(disk[Single])
        BY <2>2, <3>3, RunnableKnows
      <4>2. jobs' = <<Job(Single)>>
        BY <2>1, <2>3, <3>3
      <4>3. jobs' \in Seq(FileJobs) /\ Len(jobs') = 1 /\ jobs'[1] = Job(Single)
        BY <4>1, <4>2
      <4> QED
        BY <3>1, <4>1, <4>3
    <3> QED
      BY <3>2, <3>3
  <2>4. tool = "bench" => rootKind # "dir"
    BY <2>1 DEF BenchKnows
  <2> QED
    BY <1>1, <2>1, <2>3, <2>4 DEF BenchKnows
<1>8. CASE BenchGoesOn
  <2>1. /\ pc = "found" /\ tool = "bench" /\ UNCHANGED <<cursor, pruned, jobs, skipped>>
        /\ pc' \in {"done", "run", "fatal"}
        /\ opts.dryRun => census' = Census
    BY <1>8 DEF BenchGoesOn
  <2>2. opts.dryRun => CensusAddsUp(census)'
    <3> SUFFICES ASSUME opts.dryRun PROVE CensusAddsUp(census)'
      OBVIOUS
    <3>1. CensusAddsUp(census')
      BY <2>1, CensusCorrect DEF BenchKnows
    <3> QED
      BY <2>1, <3>1 DEF CensusAddsUp, FilesIn
  <2> QED
    BY <1>1, <2>1, <2>2, BenchStays
<1>9. CASE RunnerGoesOn
  <2>1. tool = "runner" /\ pc' \in {"fatal", "load"}
    BY <1>9 DEF RunnerGoesOn
  <2> QED
    BY <1>1, <2>1 DEF BenchKnows
<1> QED
  BY <1>2, <1>3, <1>4, <1>5, <1>6, <1>7, <1>8, <1>9 DEF DiscoverNext

(* After the walk there is nothing left: bench has reached all that has    *)
(* nothing bad above it.                                                   *)
LEMMA BenchFinds == WalkKnows /\ BenchKnows => DiscoveryIsComplete
<1> SUFFICES ASSUME WalkKnows, BenchKnows PROVE DiscoveryIsComplete
  OBVIOUS
<1>1. (pc = "done" /\ opts.dryRun) => CensusAddsUp(census)
  BY DEF BenchKnows
<1>2. ASSUME tool = "bench", rootKind = "dir", pc \in {"found", "run", "done"}
      PROVE  /\ {jobs[i].path : i \in DOMAIN jobs} = {f \in BenchSees : disk[f].seen # {}}
             /\ \A i, j \in DOMAIN jobs : i < j => PathRank[jobs[i].path] < PathRank[jobs[j].path]
             /\ \A i \in DOMAIN jobs : disk[jobs[i].path].format \in {jobs[i].kind, "other"}
             /\ ToSet(skipped) =
                  {f \in BenchSees : disk[f].seen = {}}
                    \cup {d \in unreadable :
                            Above[d] \subseteq Open(Hidden) /\ (d = Root \/ d \notin Hidden)}
             /\ IsInjective(skipped)
  <2>1. /\ pruned = {d \in Bad : Reached(d)}
        /\ \A f \in Files : (\E i \in 1 .. Len(jobs) : jobs[i].path = f) <=> Found(f) /\ Reached(f)
        /\ \A e \in Entries : e \in ToSet(skipped) <=> PassedUp(e) /\ Reached(e)
        /\ IsInjective(skipped) /\ Upcoming = {}
        /\ \A i, j \in 1 .. Len(jobs) : i < j => PathRank[jobs[i].path] < PathRank[jobs[j].path]
        /\ \A i \in 1 .. Len(jobs) : jobs[i].kind = SniffFormat(disk[jobs[i].path])
        /\ jobs \in Seq(FileJobs) /\ skipped \in Seq(Entries)
        /\ cursor \in 0 .. Len(WalkOrder) /\ Len(WalkOrder) \in Nat
        /\ disk \in [Files -> Contents \cup {Absent, Locked}]
    BY <1>2, WalkOrderKnows DEF BenchKnows
  <2>2. /\ DOMAIN jobs = 1 .. Len(jobs) /\ \A i \in 1 .. Len(jobs) : jobs[i] \in FileJobs
        /\ DOMAIN skipped = 1 .. Len(skipped) /\ \A i \in 1 .. Len(skipped) : skipped[i] \in Entries
    BY <2>1, LenProperties, ElementOfSeq
  <2>3. /\ Json \subseteq Files /\ Dirs \cap Files = {} /\ unreadable \subseteq Dirs
        /\ Hidden \subseteq Dirs /\ Files \subseteq Entries /\ Dirs \subseteq Entries
        /\ \A e \in Entries : Above[e] \subseteq Dirs
        /\ \A e \in Entries : \A d \in Above[e] : Above[d] \subseteq Above[e]
    BY DiscoverAssumption DEF WalkKnows, Entries
  <2>4. \A e \in Entries : Above[e] \subseteq Open(Hidden) <=> Above[e] \cap Bad = {}
    <3> SUFFICES ASSUME NEW e \in Entries
                 PROVE  Above[e] \subseteq Open(Hidden) <=> Above[e] \cap Bad = {}
      OBVIOUS
    <3>1. \A d : d \in Open(Hidden) <=> d \in Dirs /\ ({d} \cup Above[d]) \cap Bad = {}
      BY DEF Open, Bad
    <3> QED
      BY <2>3, <3>1
  <2>5. ASSUME NEW e \in Entries, e \in Dirs \/ disk[e] # Absent
        PROVE  Reached(e) <=> Above[e] \subseteq Open(Hidden)
    <3>1. ASSUME Above[e] \cap Bad = {} PROVE \E i \in 1 .. cursor : WalkOrder[i] = e
      <4>1. PICK i \in 1 .. Len(WalkOrder) : WalkOrder[i] = e
        BY WalkOrderKnows
      <4>2. Above[e] \cap pruned = {}
        BY <2>1, <3>1
      <4>3. i \notin cursor + 1 .. Len(WalkOrder)
        BY <2>1, <2>5, <4>1, <4>2 DEF Upcoming
      <4>4. i \in 1 .. cursor
        BY <2>1, <4>3
      <4> QED
        BY <4>1, <4>4
    <3> QED
      BY <2>4, <3>1 DEF Reached
  <2>6. \A f \in Files : f \in BenchSees <=> f \in Json /\ disk[f] # Absent /\ Reached(f)
    BY <2>3, <2>5 DEF BenchSees
  <2>7. {jobs[i].path : i \in DOMAIN jobs} = {f \in BenchSees : disk[f].seen # {}}
    <3>1. \A i \in 1 .. Len(jobs) : jobs[i].path \in Files
      BY <2>2 DEF FileJobs
    <3>2. \A f \in Files : (\E i \in 1 .. Len(jobs) : jobs[i].path = f) <=>
                           f \in BenchSees /\ disk[f].seen # {}
      BY <2>1, <2>6 DEF Found
    <3>3. \A f \in BenchSees : f \in Files
      BY <2>3 DEF BenchSees
    <3> QED
      BY <2>2, <3>1, <3>2, <3>3
  <2>8. ASSUME NEW i \in DOMAIN jobs PROVE disk[jobs[i].path].format \in {jobs[i].kind, "other"}
    <3>1. jobs[i].path \in Files /\ jobs[i].kind \in {"corpus", "zkevm"}
      BY <2>2 DEF FileJobs
    <3>2. disk[jobs[i].path] \in Contents \cup {Absent, Locked}
      BY <2>1, <3>1
    <3>3. jobs[i].kind = SniffFormat(disk[jobs[i].path]) /\ jobs[i].kind # "unknown"
      BY <2>1, <2>2, <3>1
    <3> QED
      BY <3>2, <3>3, SniffKnows
  <2>9. ToSet(skipped) =
          {f \in BenchSees : disk[f].seen = {}}
            \cup {d \in unreadable : Above[d] \subseteq Open(Hidden) /\ (d = Root \/ d \notin Hidden)}
    <3>1. \A e \in ToSet(skipped) : e \in Entries
      BY <2>2 DEF ToSet
    <3>2. \A e \in Entries : e \in ToSet(skipped) <=>
            \/ e \in BenchSees /\ disk[e].seen = {}
            \/ e \in unreadable /\ Above[e] \subseteq Open(Hidden) /\ (e = Root \/ e \notin Hidden)
      <4> SUFFICES ASSUME NEW e \in Entries
                   PROVE  (PassedUp(e) /\ Reached(e)) <=>
            \/ e \in BenchSees /\ disk[e].seen = {}
            \/ e \in unreadable /\ Above[e] \subseteq Open(Hidden) /\ (e = Root \/ e \notin Hidden)
        BY <2>1
      <4>1. CASE e \in Dirs
        BY <2>3, <2>5, <4>1 DEF PassedUp, BenchSees
      <4>2. CASE e \in Files
        BY <2>3, <2>6, <4>2 DEF PassedUp
      <4> QED
        BY <4>1, <4>2 DEF Entries
    <3>3. \A f : f \in BenchSees \/ f \in unreadable => f \in Entries
      BY <2>3 DEF BenchSees
    <3> QED
      BY <3>1, <3>2, <3>3
  <2> QED
    BY <2>1, <2>2, <2>7, <2>8, <2>9
<1> QED
  BY <1>1, <1>2, Zenon DEF DiscoveryIsComplete

-------------------------------------------------------------------------------
(* main's loop and its goroutines                                          *)

LEMMA RunnerInit == Init => RunnerTypes /\ MainKnows /\ ItemsKnow /\ SumsKnow
<1> SUFFICES ASSUME Init PROVE RunnerTypes /\ MainKnows /\ ItemsKnow /\ SumsKnow
  OBVIOUS
<1>1. opts \in BenchOpts \cup RunnerOpts /\ tool \in {"bench", "runner"} /\ pc = "flags"
  BY DEF Init, DiscoverInit
<1>2. opts.jobs \in Int /\ opts.dumpDir \in BOOLEAN /\ opts.report \in BOOLEAN
  BY <1>1, DiscoverAssumption
<1>3. NumItems = 0 /\ Bound \subseteq Nat \ {0}
  BY BoundIsFinite, EmptySeq DEF Init, NumItems
<1>4. results \in [1 .. NumItems -> TestResults]
  BY <1>3 DEF Init
<1>5. None \in TestResults
  BY DEF None, TestResults
<1>6. RunnerTypes
  BY <1>2, <1>3, <1>4, <1>5 DEF Init, RunnerTypes, NoCount
<1>7. MainKnows
  BY <1>1 DEF Init, MainKnows, Busy
<1>8. ItemsKnow
  BY <1>3 DEF Init, ItemsKnow, Stored
<1>9. SumsKnow
  BY <1>1 DEF Init, SumsKnow
<1> QED
  BY <1>6, <1>7, <1>8, <1>9

(* The three copies of the rule that sorts a result into a class.          *)
LEMMA OneClass ==
  ASSUME NEW r \in TestResults
  PROVE  Status(r) \in Classes /\ SummaryClass(r) = Status(r) /\ ReportClass(r) = Status(r)
BY DEF TestResults, Status, SummaryClass, ReportClass, Classes

LEMMA JudgedIsResult ==
  ASSUME opts.dumpDir \in BOOLEAN, NEW o \in Outcomes
  PROVE  Judged(o) \in TestResults /\ Judged(o).err = o.err
<1>1. o.err \in {"nil", "missing input", "other"} /\ o.match \in BOOLEAN
  BY DEF Outcomes
<1>2. (opts.dumpDir \/ (o.err = "nil" /\ o.match)) \in BOOLEAN
  OBVIOUS
<1> QED
  BY <1>1, <1>2 DEF Judged, TestResults

(* What every step of an item's goroutine has in common.                   *)
LEMMA WorkerFrame ==
  ASSUME RunnerTypes, MainKnows, ItemsKnow, NEW i \in Bound, Worker(i)
  PROVE  /\ UNCHANGED <<discoverVars, items, started, rows, summary, report, exit>>
         /\ Busy(i) /\ pc = "loop" /\ i \in 1 .. started /\ started # 0 /\ i \in 1 .. NumItems
         /\ \E w \in {"count", "store", "release", "leave", "left"} :
              worker' = [worker EXCEPT ![i] = w]
         /\ \A h \in Bound : h # i => worker'[h] = worker[h]
<1>1. /\ UNCHANGED <<discoverVars, items, started, rows, summary, report, exit>>
      /\ Busy(i)
      /\ \E w \in {"count", "store", "release", "leave", "left"} :
           worker' = [worker EXCEPT ![i] = w]
  BY DEF Worker, RunItem, CountItem, StoreItem, ReleaseItem, LeaveItem, Moves, Busy
<1>2. pc = "loop"
  BY <1>1 DEF MainKnows
<1>3. worker[i] # "none" /\ i <= started
  BY <1>1 DEF Busy, ItemsKnow
<1>4. NumItems \in Nat /\ i \in Nat \ {0} /\ started \in Nat /\ started <= NumItems
  BY BoundIsFinite DEF RunnerTypes
<1>5. i \in 1 .. started /\ started # 0 /\ i \in 1 .. NumItems
  BY <1>3, <1>4
<1>6. \A h \in Bound : h # i => worker'[h] = worker[h]
  BY <1>1 DEF RunnerTypes
<1> QED
  BY <1>1, <1>2, <1>5, <1>6

(* What StartItem does.                                                    *)
LEMMA StartFrame ==
  ASSUME RunnerTypes, ItemsKnow, StartItem
  PROVE  /\ started + 1 \in Bound /\ started + 1 \in 1 .. NumItems /\ started \in Nat
         /\ started' = started + 1 /\ worker[started + 1] = "none"
         /\ worker' = [worker EXCEPT ![started + 1] = "run"]
         /\ pc = "loop" /\ sem < opts.jobs /\ sem' = sem + 1 /\ wg' = wg + 1
         /\ UNCHANGED <<discoverVars, items, done, outcome, lines, results, rows, summary, report,
                        dumps, exit>>
<1>1. /\ started' = started + 1 /\ worker' = [worker EXCEPT ![started + 1] = "run"]
      /\ pc = "loop" /\ sem < opts.jobs /\ sem' = sem + 1 /\ wg' = wg + 1
      /\ UNCHANGED <<discoverVars, items, done, outcome, lines, results, rows, summary, report,
                     dumps, exit>>
      /\ started < NumItems
  BY DEF StartItem
<1>2. NumItems \in Nat /\ 1 .. NumItems \subseteq Bound /\ started \in Nat
  BY BoundIsFinite DEF RunnerTypes
<1>3. started + 1 \in 1 .. NumItems /\ started + 1 \in Bound /\ ~(started + 1 <= started)
  BY <1>1, <1>2
<1>4. worker[started + 1] = "none"
  BY <1>3 DEF ItemsKnow
<1> QED
  BY <1>1, <1>2, <1>3, <1>4

LEMMA TypesStep ==
  ASSUME WalkKnows, RunnerTypes, MainKnows, ItemsKnow, [Next]_vars
  PROVE  RunnerTypes'
<1>1. CASE Discovers
  <2>1. UNCHANGED <<opts, items, started, worker, outcome, results, lines>>
    BY <1>1, DiscoverFrame DEF Discovers, treeVars
  <2> QED
    BY <2>1 DEF RunnerTypes, NumItems
<1>2. CASE Load
  <2>1. /\ Len(items') \in Bound /\ started' = 0 /\ results' = [i \in 1 .. Len(items') |-> None]
        /\ UNCHANGED <<opts, worker, outcome, lines>>
    BY <1>2 DEF Load, treeVars, MainKnows
  <2>2. Len(items') \in Nat /\ None \in TestResults
    BY <2>1, BoundIsFinite DEF None, TestResults
  <2> QED
    BY <2>1, <2>2 DEF RunnerTypes, NumItems
<1>3. CASE StartItem
  <2>1. started' \in 0 .. NumItems
    BY <1>3, StartFrame
  <2> QED
    BY <1>3, <2>1, StartFrame DEF RunnerTypes, NumItems, discoverVars
<1>4. CASE LoadFails \/ AllAsleep \/ PrintSummary \/ WriteReport \/ Ended \/ UNCHANGED vars
  <2>1. UNCHANGED <<opts, items, started, worker, outcome, results, lines>>
    BY <1>4 DEF LoadFails, AllAsleep, PrintSummary, WriteReport, Ended, vars, runnerVars,
                discoverVars, treeVars
  <2> QED
    BY <2>1 DEF RunnerTypes, NumItems
<1>5. ASSUME NEW i \in Bound, Worker(i) PROVE RunnerTypes'
  <2>1. /\ UNCHANGED <<opts, items, started>> /\ i \in 1 .. NumItems
        /\ worker' \in [Bound -> {"none", "run", "count", "store", "release", "leave", "left"}]
    BY <1>5, WorkerFrame DEF discoverVars, RunnerTypes
  <2>2. CASE RunItem(i)
    <3>1. UNCHANGED <<results, lines>>
      BY <2>2 DEF RunItem
    <3>2. outcome' \in [Bound -> TestResults]
      BY <2>2, JudgedIsResult DEF RunItem, RunnerTypes
    <3> QED
      BY <2>1, <3>1, <3>2 DEF RunnerTypes, NumItems
  <2>3. CASE CountItem(i)
    <3>1. UNCHANGED <<results, outcome>> /\ lines' = [lines EXCEPT ![Status(outcome[i])] = @ + 1]
      BY <2>3 DEF CountItem
    <3>2. lines' \in [Classes -> Nat]
      BY <3>1, OneClass DEF RunnerTypes
    <3> QED
      BY <2>1, <3>1, <3>2 DEF RunnerTypes, NumItems
  <2>4. CASE StoreItem(i)
    BY <2>1, <2>4 DEF StoreItem, RunnerTypes, NumItems
  <2>5. CASE ReleaseItem(i) \/ LeaveItem(i)
    BY <2>1, <2>5 DEF ReleaseItem, LeaveItem, RunnerTypes, NumItems
  <2> QED
    BY <1>5, <2>2, <2>3, <2>4, <2>5 DEF Worker
<1> QED
  BY <1>1, <1>2, <1>3, <1>4, <1>5 DEF Next, Main

(* A dump goes to a place of its own and leaves the others alone.          *)
LEMMA DumpedKeeps ==
  ASSUME NEW i \in Bound, NEW what
  PROVE  /\ Dest(i) \in DOMAIN Dumped(i, what) /\ Dumped(i, what)[Dest(i)] = what
         /\ \A h \in Bound : h # i /\ Dest(h) \in DOMAIN dumps =>
              /\ Dest(h) \in DOMAIN Dumped(i, what)
              /\ Dumped(i, what)[Dest(h)] = dumps[Dest(h)]
<1>1. \A h \in Bound : h # i => Dest(h) # Dest(i)
  BY DEF Dest
<1> QED
  BY <1>1 DEF Dumped

LEMMA ItemsStep ==
  ASSUME WalkKnows, RunnerTypes, MainKnows, ItemsKnow, [Next]_vars
  PROVE  ItemsKnow'
<1>1. CASE UNCHANGED <<opts, items, started, worker, outcome, results, dumps>>
  BY <1>1 DEF ItemsKnow, Stored, Dest
<1>2. CASE Discovers
  BY <1>1, <1>2, DiscoverFrame DEF Discovers, treeVars
<1>3. CASE Load
  <2>1. UNCHANGED <<worker, started>> /\ started = 0
    BY <1>3 DEF Load, MainKnows
  <2>2. \A i \in Bound : worker[i] = "none" /\ ~(i <= 0)
    BY <2>1, BoundIsFinite DEF ItemsKnow
  <2> QED
    BY <2>1, <2>2 DEF ItemsKnow, Stored
<1>4. CASE StartItem
  <2>1. /\ started + 1 \in Bound /\ started \in Nat /\ started' = started + 1
        /\ worker' = [worker EXCEPT ![started + 1] = "run"]
        /\ UNCHANGED <<opts, items, outcome, results, dumps>>
    BY <1>4, StartFrame DEF discoverVars
  <2> SUFFICES ASSUME NEW i \in Bound PROVE ItemsKnow!(i)'
    BY DEF ItemsKnow
  <2>2. i \in Nat /\ Dest(i)' = Dest(i)
    BY <2>1, BoundIsFinite DEF Dest
  <2>3. CASE i = started + 1
    BY <2>1, <2>2, <2>3 DEF RunnerTypes, Stored
  <2>4. CASE i # started + 1
    <3>1. worker'[i] = worker[i] /\ (i <= started' <=> i <= started)
      BY <2>1, <2>2, <2>4 DEF RunnerTypes
    <3> QED
      BY <2>1, <2>2, <3>1 DEF ItemsKnow, Stored
  <2> QED
    BY <2>3, <2>4
<1>5. CASE LoadFails \/ AllAsleep \/ PrintSummary \/ WriteReport \/ Ended \/ UNCHANGED vars
  <2>1. UNCHANGED <<opts, items, started, worker, outcome, results, dumps>>
    BY <1>5 DEF LoadFails, AllAsleep, PrintSummary, WriteReport, Ended, vars, runnerVars,
                discoverVars, treeVars
  <2> QED
    BY <1>1, <2>1
<1>6. ASSUME NEW i \in Bound, Worker(i) PROVE ItemsKnow'
  <2>1. /\ UNCHANGED <<opts, items, started>> /\ i \in 1 .. started /\ i \in 1 .. NumItems
        /\ \A h \in Bound : h # i => worker'[h] = worker[h]
        /\ \A h \in Bound : Dest(h)' = Dest(h)
    BY <1>6, WorkerFrame DEF discoverVars, Dest
  <2>2. started \in Nat /\ i \in Nat /\ i <= started
    BY <2>1, BoundIsFinite DEF RunnerTypes
  <2>3. CASE RunItem(i)
    <3>1. PICK o \in Outcomes :
            /\ outcome' = [outcome EXCEPT ![i] = Judged(o)]
            /\ \/ dumps' = Dumped(i, i)  /\ opts.dumpDir /\ o.err = "nil"
               \/ dumps' = Dumped(i, 0)  /\ opts.dumpDir /\ o.err = "other"
               \/ dumps' = dumps         /\ ~(opts.dumpDir /\ o.err = "nil")
      BY <2>3 DEF RunItem
    <3>2. worker[i] = "run" /\ worker'[i] = "count" /\ results' = results
      BY <2>3 DEF RunItem, Moves, RunnerTypes
    <3>3. outcome'[i].err = o.err /\ \A h \in Bound : h # i => outcome'[h] = outcome[h]
      BY <3>1, JudgedIsResult DEF RunnerTypes
    <3>4. (opts.dumpDir /\ o.err = "nil") => Dest(i) \in DOMAIN dumps' /\ dumps'[Dest(i)] = i
      BY <3>1, DumpedKeeps
    <3>5. \A h \in Bound : h # i /\ Dest(h) \in DOMAIN dumps =>
            Dest(h) \in DOMAIN dumps' /\ dumps'[Dest(h)] = dumps[Dest(h)]
      BY <3>1, DumpedKeeps
    <3> SUFFICES ASSUME NEW h \in Bound PROVE ItemsKnow!(h)'
      BY DEF ItemsKnow
    <3>6. CASE h = i
      BY <2>1, <2>2, <3>2, <3>3, <3>4, <3>6 DEF Stored
    <3>7. CASE h # i
      BY <2>1, <3>2, <3>3, <3>5, <3>7 DEF ItemsKnow, Stored
    <3> QED
      BY <3>6, <3>7
  <2>4. CASE CountItem(i)
    BY <2>1, <2>2, <2>4 DEF CountItem, Moves, RunnerTypes, ItemsKnow, Stored
  <2>5. CASE StoreItem(i)
    <3>1. /\ worker[i] = "store" /\ worker'[i] = "release" /\ UNCHANGED <<outcome, dumps>>
          /\ results'[i] = outcome[i]
          /\ \A h \in 1 .. NumItems : h # i => results'[h] = results[h]
      BY <2>1, <2>5 DEF StoreItem, Moves, RunnerTypes
    <3>2. \A h \in Bound : Stored(h) => h \in 1 .. NumItems
      <4>1. NumItems \in Nat /\ started <= NumItems
        BY BoundIsFinite DEF RunnerTypes
      <4> QED
        BY <2>2, <4>1, BoundIsFinite DEF ItemsKnow, Stored
    <3> SUFFICES ASSUME NEW h \in Bound PROVE ItemsKnow!(h)'
      BY DEF ItemsKnow
    <3>3. CASE h = i
      BY <2>1, <2>2, <3>1, <3>3 DEF ItemsKnow
    <3>4. CASE h # i
      BY <2>1, <3>1, <3>2, <3>4 DEF ItemsKnow, Stored
    <3> QED
      BY <3>3, <3>4
  <2>6. CASE ReleaseItem(i) \/ LeaveItem(i)
    BY <2>1, <2>2, <2>6 DEF ReleaseItem, LeaveItem, Moves, RunnerTypes, ItemsKnow, Stored
  <2> QED
    BY <1>6, <2>3, <2>4, <2>5, <2>6 DEF Worker
<1> QED
  BY <1>2, <1>3, <1>4, <1>5, <1>6 DEF Next, Main

-------------------------------------------------------------------------------
(* sem, wg and the progress lines                                          *)

Holders == {i \in Bound : Busy(i) /\ worker[i] # "leave"}
Alive   == {i \in Bound : Busy(i)}
In(k)   == {i \in Bound : Counted(i) /\ Status(outcome[i]) = k}

LEMMA CountersInit == Init => CountersKnow
<1> SUFFICES ASSUME Init PROVE CountersKnow
  OBVIOUS
<1>1. Holders = {} /\ Alive = {} /\ \A k \in Classes : In(k) = {}
  BY DEF Init, Holders, Alive, In, Busy, Counted
<1>2. Cardinality({}) = 0
  BY FS_EmptySet
<1>3. sem = 0 /\ wg = 0 /\ \A k \in Classes : lines[k] = 0
  BY DEF Init, NoCount
<1> QED
  BY <1>1, <1>2, <1>3, Zenon DEF CountersKnow, Holders, Alive, In

LEMMA CountersFinite ==
  ASSUME CountersKnow
  PROVE  /\ IsFiniteSet(Holders) /\ sem = Cardinality(Holders) /\ sem \in Nat
         /\ IsFiniteSet(Alive) /\ wg = Cardinality(Alive) /\ wg \in Nat
         /\ \A k \in Classes : IsFiniteSet(In(k)) /\ lines[k] = Cardinality(In(k))
<1>1. Holders \in SUBSET Bound /\ Alive \in SUBSET Bound /\ \A k : In(k) \in SUBSET Bound
  BY DEF Holders, Alive, In
<1>2. /\ sem = Cardinality(Holders) /\ wg = Cardinality(Alive)
      /\ \A k \in Classes : lines[k] = Cardinality(In(k))
  BY DEF CountersKnow, Holders, Alive, In
<1> QED
  BY <1>1, <1>2, BoundIsFinite

LEMMA CountersKept ==
  ASSUME Holders' = Holders, Alive' = Alive, \A k \in Classes : In(k)' = In(k),
         UNCHANGED <<sem, wg, lines>>, CountersKnow
  PROVE  CountersKnow'
BY CountersFinite, Zenon DEF CountersKnow, Holders, Alive, In

LEMMA CountersStep ==
  ASSUME WalkKnows, RunnerTypes, MainKnows, ItemsKnow, CountersKnow, [Next]_vars
  PROVE  CountersKnow'
<1>1. CASE UNCHANGED <<worker, outcome, sem, wg, lines>>
  <2>1. Holders' = Holders /\ Alive' = Alive /\ \A k \in Classes : In(k)' = In(k)
    BY <1>1 DEF Holders, Alive, In, Busy, Counted
  <2> QED
    BY <1>1, <2>1, CountersKept
<1>2. CASE StartItem
  <2>0. PICK n \in Bound : n = started + 1
    BY <1>2, StartFrame
  <2>1. /\ worker[n] = "none" /\ worker' = [worker EXCEPT ![n] = "run"]
        /\ sem' = sem + 1 /\ wg' = wg + 1 /\ UNCHANGED <<outcome, lines>>
    BY <1>2, <2>0, StartFrame
  <2>2. /\ Holders' = Holders \cup {n} /\ n \notin Holders
        /\ Alive' = Alive \cup {n} /\ n \notin Alive
    BY <2>1 DEF Holders, Alive, Busy, RunnerTypes
  <2>3. \A k \in Classes : In(k)' = In(k)
    BY <2>1 DEF In, Counted, RunnerTypes
  <2>4. Cardinality(Holders') = sem + 1 /\ Cardinality(Alive') = wg + 1
    <3>0. /\ IsFiniteSet(Holders) /\ sem = Cardinality(Holders)
          /\ IsFiniteSet(Alive) /\ wg = Cardinality(Alive)
      BY CountersFinite
    <3>1. Cardinality(Holders \cup {n}) = sem + 1
      BY <2>2, <3>0, FS_AddElement
    <3>2. Cardinality(Alive \cup {n}) = wg + 1
      BY <2>2, <3>0, FS_AddElement
    <3> QED
      BY <2>2, <3>1, <3>2
  <2>5. \A k \in Classes : lines'[k] = Cardinality(In(k)')
    BY <2>1, <2>3, CountersFinite
  <2> QED
    BY <2>1, <2>4, <2>5 DEF CountersKnow, Holders, Alive, In
<1>3. CASE Discovers \/ LoadFails \/ Load \/ AllAsleep \/ PrintSummary \/ WriteReport \/ Ended
             \/ UNCHANGED vars
  <2>1. UNCHANGED <<worker, outcome, sem, wg, lines>>
    BY <1>3 DEF Discovers, LoadFails, Load, AllAsleep, PrintSummary, WriteReport, Ended, vars,
                runnerVars
  <2> QED
    BY <1>1, <2>1
<1>4. ASSUME NEW i \in Bound, RunItem(i) PROVE CountersKnow'
  <2>1. /\ worker[i] = "run" /\ worker' = [worker EXCEPT ![i] = "count"]
        /\ \A h \in Bound : h # i => outcome'[h] = outcome[h]
        /\ UNCHANGED <<sem, wg, lines>>
    BY <1>4 DEF RunItem, Moves, RunnerTypes
  <2>2. Holders' = Holders /\ Alive' = Alive
    BY <2>1 DEF Holders, Alive, Busy, RunnerTypes
  <2>3. \A k \in Classes : In(k)' = In(k)
    BY <2>1 DEF In, Counted, RunnerTypes
  <2> QED
    BY <2>1, <2>2, <2>3, CountersKept
<1>5. ASSUME NEW i \in Bound, CountItem(i) PROVE CountersKnow'
  <2>0. PICK c \in Classes : c = Status(outcome[i])
    BY OneClass DEF RunnerTypes
  <2>1. /\ worker[i] = "count" /\ worker' = [worker EXCEPT ![i] = "store"]
        /\ lines' = [lines EXCEPT ![c] = @ + 1] /\ UNCHANGED <<sem, wg, outcome>>
    BY <1>5, <2>0 DEF CountItem, Moves
  <2>3. Holders' = Holders /\ Alive' = Alive
    BY <2>1 DEF Holders, Alive, Busy, RunnerTypes
  <2>4. /\ i \notin In(c) /\ In(c)' = In(c) \cup {i}
        /\ \A k \in Classes : k # c => In(k)' = In(k)
    BY <2>0, <2>1 DEF In, Counted, RunnerTypes
  <2>5. /\ lines'[c] = lines[c] + 1
        /\ \A k \in Classes : k # c => lines'[k] = lines[k]
    BY <2>1 DEF RunnerTypes
  <2>6. Cardinality(In(c)') = lines[c] + 1
    <3>1. IsFiniteSet(In(c)) /\ lines[c] = Cardinality(In(c))
      BY CountersFinite
    <3>2. Cardinality(In(c) \cup {i}) = Cardinality(In(c)) + 1
      BY <2>4, <3>1, FS_AddElement
    <3> QED
      BY <2>4, <3>1, <3>2
  <2>7. \A k \in Classes : lines'[k] = Cardinality(In(k)')
    <3> SUFFICES ASSUME NEW k \in Classes PROVE lines'[k] = Cardinality(In(k)')
      OBVIOUS
    <3>1. CASE k = c
      BY <2>5, <2>6, <3>1
    <3>2. CASE k # c
      BY <2>4, <2>5, <3>2, CountersFinite
    <3> QED
      BY <3>1, <3>2
  <2>8. sem' = Cardinality(Holders') /\ wg' = Cardinality(Alive')
    BY <2>1, <2>3, CountersFinite
  <2> QED
    BY <2>7, <2>8 DEF CountersKnow, Holders, Alive, In
<1>6. ASSUME NEW i \in Bound, StoreItem(i) PROVE CountersKnow'
  <2>1. /\ worker[i] = "store" /\ worker' = [worker EXCEPT ![i] = "release"]
        /\ UNCHANGED <<outcome, sem, wg, lines>>
    BY <1>6 DEF StoreItem, Moves
  <2>2. Holders' = Holders /\ Alive' = Alive /\ \A k \in Classes : In(k)' = In(k)
    BY <2>1 DEF Holders, Alive, In, Busy, Counted, RunnerTypes
  <2> QED
    BY <2>1, <2>2, CountersKept
<1>7. ASSUME NEW i \in Bound, ReleaseItem(i) PROVE CountersKnow'
  <2>1. /\ worker[i] = "release" /\ worker' = [worker EXCEPT ![i] = "leave"]
        /\ sem' = sem - 1 /\ UNCHANGED <<outcome, wg, lines>>
    BY <1>7 DEF ReleaseItem, Moves
  <2>2. /\ i \in Holders /\ Holders' = Holders \ {i}
        /\ Alive' = Alive /\ \A k \in Classes : In(k)' = In(k)
    BY <2>1 DEF Holders, Alive, In, Busy, Counted, RunnerTypes
  <2>3. Cardinality(Holders') = sem - 1
    BY <2>2, CountersFinite, FS_RemoveElement
  <2>4. wg' = Cardinality(Alive') /\ \A k \in Classes : lines'[k] = Cardinality(In(k)')
    BY <2>1, <2>2, CountersFinite
  <2> QED
    BY <2>1, <2>3, <2>4 DEF CountersKnow, Holders, Alive, In
<1>8. ASSUME NEW i \in Bound, LeaveItem(i) PROVE CountersKnow'
  <2>1. /\ worker[i] = "leave" /\ worker' = [worker EXCEPT ![i] = "left"]
        /\ wg' = wg - 1 /\ UNCHANGED <<outcome, sem, lines>>
    BY <1>8 DEF LeaveItem, Moves
  <2>2. /\ i \in Alive /\ Alive' = Alive \ {i}
        /\ Holders' = Holders /\ \A k \in Classes : In(k)' = In(k)
    BY <2>1 DEF Holders, Alive, In, Busy, Counted, RunnerTypes
  <2>3. Cardinality(Alive') = wg - 1
    BY <2>2, CountersFinite, FS_RemoveElement
  <2>4. sem' = Cardinality(Holders') /\ \A k \in Classes : lines'[k] = Cardinality(In(k)')
    BY <2>1, <2>2, CountersFinite
  <2> QED
    BY <2>1, <2>3, <2>4 DEF CountersKnow, Holders, Alive, In
<1> QED
  BY <1>2, <1>3, <1>4, <1>5, <1>6, <1>7, <1>8 DEF Next, Main, Worker

(* With no goroutine alive, no place is taken and main has nothing to wait *)
(* for; and if wg is 0, none is alive.                                     *)
LEMMA NoneAlive ==
  ASSUME CountersKnow
  PROVE  /\ wg = 0 => \A i \in Bound : ~Busy(i)
         /\ (\A i \in Bound : ~Busy(i)) => sem = 0 /\ wg = 0
<1>1. wg = 0 => Alive = {}
  BY CountersFinite, FS_EmptySet
<1>2. Alive = {} => Holders = {}
  BY DEF Alive, Holders
<1>3. Alive = {} => sem = 0 /\ wg = 0
  BY <1>2, CountersFinite, FS_EmptySet
<1> QED
  BY <1>1, <1>3 DEF Alive

-------------------------------------------------------------------------------
(* Where main is                                                           *)

LEMMA MainStep ==
  ASSUME WalkKnows, RunnerTypes, MainKnows, ItemsKnow, CountersKnow, [Next]_vars
  PROVE  MainKnows'
<1>1. CASE Discovers
  <2>1. /\ UNCHANGED <<tool, opts, items, started, worker, rows, dumps>>
        /\ pc \in {"flags", "walk", "single", "found"}
        /\ pc' \in {"walk", "single", "found", "load", "fatal", "done", "run"}
        /\ pc' = "load" => tool = "runner"
        /\ pc' = "done" => tool = "bench"
        /\ exit' = CASE pc' = "fatal" -> 1 [] pc' = "done" -> 0 [] OTHER -> exit
    BY <1>1, DiscoverFrame DEF Discovers, treeVars
  <2>2. /\ exit = -1 /\ started = 0 /\ rows = << >> /\ \A i \in Bound : ~Busy(i)
        /\ dumps = << >>
    BY <2>1 DEF MainKnows
  <2>3. /\ exit' # 2 /\ pc' = "fatal" => exit' = 1
        /\ exit' # -1 => pc' \in {"fatal", "done"}
    BY <2>1, <2>2
  <2>4. tool \in {"bench", "runner"}
    BY DEF WalkKnows
  <2> QED
    BY <2>1, <2>2, <2>3, <2>4 DEF MainKnows, Busy
<1>2. CASE LoadFails
  <2>1. /\ UNCHANGED <<tool, opts, items, started, worker, rows, dumps>>
        /\ pc = "load" /\ pc' = "end" /\ exit' = 1
    BY <1>2 DEF LoadFails, treeVars
  <2> QED
    BY <2>1 DEF MainKnows, Busy
<1>3. CASE Load
  <2>1. /\ UNCHANGED <<tool, opts, started, worker, rows, dumps>>
        /\ pc = "load" /\ Len(items') \in Bound
        /\ pc' = IF opts.jobs < 0 THEN "end" ELSE "loop"
        /\ exit' = IF opts.jobs < 0 THEN 2 ELSE exit
    BY <1>3 DEF Load, treeVars
  <2>2. started = 0 /\ rows = << >> /\ dumps = << >> /\ exit = -1 /\ tool # "bench"
        /\ \A i \in Bound : ~Busy(i)
    BY <2>1 DEF MainKnows
  <2>3. opts.jobs < 0 => opts.jobs < 1
    BY DEF RunnerTypes
  <2> QED
    BY <2>1, <2>2, <2>3 DEF MainKnows, Busy, NumItems
<1>4. CASE StartItem
  <2>1. /\ UNCHANGED <<tool, opts, pc, items, rows, dumps, exit>>
        /\ pc = "loop" /\ started' # 0 /\ sem < opts.jobs
    BY <1>4, StartFrame DEF discoverVars
  <2>2. ~(opts.jobs < 1)
    BY <2>1, CountersFinite DEF RunnerTypes
  <2> QED
    BY <2>1, <2>2 DEF MainKnows, NumItems
<1>5. CASE AllAsleep
  <2>1. /\ UNCHANGED <<tool, opts, items, started, worker, rows, dumps>>
        /\ pc = "loop" /\ pc' = "end" /\ exit' = 2
        /\ sem >= opts.jobs \/ wg > 0
        /\ \A i \in Bound : ~Busy(i)
    BY <1>5 DEF AllAsleep, treeVars
  <2>2. sem = 0 /\ wg = 0
    BY <2>1, NoneAlive
  <2>3. opts.jobs < 1
    BY <2>1, <2>2 DEF RunnerTypes
  <2> QED
    BY <2>1, <2>3 DEF MainKnows, Busy
<1>6. CASE PrintSummary
  <2>1. /\ UNCHANGED <<tool, opts, items, started, worker, dumps>> /\ pc = "loop" /\ wg = 0
        /\ pc' = IF opts.report THEN "report" ELSE "end"
        /\ exit' = IF opts.report THEN exit ELSE 0
    BY <1>6 DEF PrintSummary, treeVars
  <2>2. \A i \in Bound : ~Busy(i)
    BY <2>1, NoneAlive
  <2>3. exit = -1
    BY <2>1 DEF MainKnows
  <2> QED
    BY <2>1, <2>2, <2>3 DEF MainKnows, Busy
<1>7. CASE WriteReport
  <2>1. /\ UNCHANGED <<tool, opts, items, started, worker, rows, dumps>> /\ pc = "report"
        /\ pc' = "end" /\ exit' \in {0, 1}
    BY <1>7 DEF WriteReport, treeVars
  <2> QED
    BY <2>1 DEF MainKnows, Busy
<1>8. CASE Ended \/ UNCHANGED vars
  <2>1. UNCHANGED <<tool, opts, pc, items, started, worker, rows, dumps, exit>>
    BY <1>8 DEF Ended, vars, runnerVars, discoverVars
  <2> QED
    BY <2>1 DEF MainKnows, Busy, NumItems
<1>9. ASSUME NEW i \in Bound, Worker(i) PROVE MainKnows'
  <2>1. /\ UNCHANGED <<tool, opts, pc, items, started, rows, exit>>
        /\ pc = "loop" /\ started # 0
    BY <1>9, WorkerFrame DEF discoverVars
  <2> QED
    BY <2>1 DEF MainKnows, NumItems
<1> QED
  BY <1>1, <1>2, <1>3, <1>4, <1>5, <1>6, <1>7, <1>8, <1>9 DEF Next, Main

-------------------------------------------------------------------------------
(* The sums                                                                *)

(* An order of 1 .. n counts what there is to count once.                  *)
LEMMA OrderCounts ==
  ASSUME NEW n \in Nat, NEW p \in [1 .. n -> 1 .. n], IsInjective(p), NEW T \in SUBSET (1 .. n)
  PROVE  Cardinality({i \in 1 .. n : p[i] \in T}) = Cardinality(T)
<1> DEFINE S == {i \in 1 .. n : p[i] \in T}
           q == [i \in S |-> p[i]]
<1>1. IsFiniteSet(1 .. n)
  BY FS_Interval
<1>2. p \in Injection(1 .. n, 1 .. n)
  BY DEF Injection
<1>3. p \in Surjection(1 .. n, 1 .. n)
  BY <1>1, <1>2, FS_Injection
<1>4. IsFiniteSet(S)
  BY <1>1, FS_Subset
<1>5. q \in [S -> T]
  OBVIOUS
<1>6. \A a, b \in S : q[a] = q[b] => a = b
  BY DEF IsInjective
<1>7. \A t \in T : \E s \in S : q[s] = t
  <2> SUFFICES ASSUME NEW t \in T PROVE \E s \in S : q[s] = t
    OBVIOUS
  <2>1. PICK s \in 1 .. n : p[s] = t
    BY <1>3 DEF Surjection
  <2> QED
    BY <2>1
<1> HIDE DEF q, S
<1>8. q \in Injection(S, T)
  BY <1>5, <1>6 DEF Injection, IsInjective
<1>9. q \in Surjection(S, T)
  BY <1>5, <1>7 DEF Surjection
<1>10. ExistsBijection(S, T)
  BY <1>8, <1>9 DEF ExistsBijection, Bijection
<1> QED
  BY <1>4, <1>10, FS_Bijection DEF S

(* When main has started every item and wg is 0, every goroutine is gone,  *)
(* and the results that were counted are all of them.                      *)
LEMMA AllLeft ==
  ASSUME RunnerTypes, ItemsKnow, CountersKnow, started = NumItems, wg = 0
  PROVE  /\ \A i \in 1 .. NumItems : worker[i] = "left" /\ results[i] = outcome[i]
         /\ \A k \in Classes : In(k) = {i \in 1 .. NumItems : SummaryClass(results[i]) = k}
<1>1. \A i \in Bound : ~Busy(i)
  BY NoneAlive
<1>2. NumItems \in Nat /\ 1 .. NumItems \subseteq Bound /\ Bound \subseteq Nat \ {0}
  BY BoundIsFinite DEF RunnerTypes
<1>3. \A i \in Bound : i \in 1 .. NumItems <=> i <= started
  BY <1>2
<1>4. \A i \in 1 .. NumItems : worker[i] = "left" /\ results[i] = outcome[i]
  BY <1>1, <1>2, <1>3 DEF Busy, RunnerTypes, ItemsKnow, Stored
<1>5. \A i \in Bound : Counted(i) <=> i \in 1 .. NumItems
  BY <1>3, <1>4 DEF ItemsKnow, Counted
<1>6. \A i \in 1 .. NumItems : SummaryClass(results[i]) = Status(outcome[i])
  BY <1>2, <1>4, OneClass DEF RunnerTypes
<1> QED
  BY <1>2, <1>4, <1>5, <1>6 DEF In

LEMMA PrintSummaryStep ==
  ASSUME RunnerTypes, MainKnows, ItemsKnow, CountersKnow, PrintSummary
  PROVE  /\ started = NumItems /\ NumItems \in Bound
         /\ \A i \in 1 .. NumItems : worker[i] = "left"
         /\ rows' \in [1 .. NumItems -> TestResults]
         /\ summary' = Count(rows', SummaryClass) /\ summary' = lines
<1>1. /\ started = NumItems /\ wg = 0 /\ pc = "loop"
      /\ summary' = Count(rows', SummaryClass)
  BY DEF PrintSummary
<1>2. PICK p \in SortedByName : rows' = [i \in 1 .. NumItems |-> results[p[i]]]
  BY DEF PrintSummary
<1>3. /\ NumItems \in Bound /\ NumItems \in Nat
      /\ p \in [1 .. NumItems -> 1 .. NumItems] /\ IsInjective(p)
  BY <1>1, BoundIsFinite DEF MainKnows, SortedByName
<1>4. rows' \in [1 .. NumItems -> TestResults]
  BY <1>2, <1>3 DEF RunnerTypes
<1>5. ASSUME NEW k \in Classes PROVE summary'[k] = lines[k]
  <2> DEFINE T == {i \in 1 .. NumItems : SummaryClass(results[i]) = k}
  <2>1. {i \in DOMAIN rows' : SummaryClass(rows'[i]) = k} = {i \in 1 .. NumItems : p[i] \in T}
    BY <1>2, <1>3
  <2>2. Cardinality({i \in 1 .. NumItems : p[i] \in T}) = Cardinality(T)
    BY <1>3, OrderCounts
  <2>3. T = In(k)
    BY <1>1, AllLeft
  <2>4. lines[k] = Cardinality(In(k))
    BY CountersFinite
  <2>5. summary'[k] = Cardinality({i \in DOMAIN rows' : SummaryClass(rows'[i]) = k})
    BY <1>1 DEF Count
  <2> QED
    BY <2>1, <2>2, <2>3, <2>4, <2>5, Zenon
<1>6. summary' = [k \in Classes |-> summary'[k]]
  BY <1>1 DEF Count
<1>7. summary' = lines
  BY <1>5, <1>6 DEF RunnerTypes
<1>8. \A i \in 1 .. NumItems : worker[i] = "left"
  BY <1>1, AllLeft
<1> QED
  BY <1>1, <1>3, <1>4, <1>7, <1>8

LEMMA SumsStep ==
  ASSUME WalkKnows, RunnerTypes, MainKnows, ItemsKnow, CountersKnow, SumsKnow, [Next]_vars
  PROVE  SumsKnow'
<1>0. CASE ~(rows # << >> \/ pc = "report" \/ (tool = "runner" /\ exit = 0))'
  BY <1>0 DEF SumsKnow
<1>1. CASE Discovers
  <2>1. /\ UNCHANGED <<tool, rows>> /\ pc \in {"flags", "walk", "single", "found"}
        /\ pc' \in {"walk", "single", "found", "load", "fatal", "done", "run"}
        /\ pc' = "done" => tool = "bench"
        /\ exit' = CASE pc' = "fatal" -> 1 [] pc' = "done" -> 0 [] OTHER -> exit
    BY <1>1, DiscoverFrame DEF Discovers, treeVars
  <2>2. exit = -1 /\ rows = << >>
    BY <2>1 DEF MainKnows
  <2> QED
    BY <1>0, <2>1, <2>2
<1>2. CASE LoadFails \/ Load \/ AllAsleep \/ StartItem \/ \E i \in Bound : Worker(i)
  <2>1. CASE LoadFails \/ Load \/ AllAsleep \/ StartItem
    <3>1. UNCHANGED <<tool, rows>> /\ pc \in {"load", "loop"} /\ pc' # "report" /\ exit' \in {1, 2, exit}
      BY <2>1 DEF LoadFails, Load, AllAsleep, StartItem, treeVars, discoverVars
    <3>2. exit = -1 /\ rows = << >>
      BY <3>1 DEF MainKnows
    <3> QED
      BY <1>0, <3>1, <3>2
  <2>2. ASSUME NEW i \in Bound, Worker(i) PROVE SumsKnow'
    <3>1. UNCHANGED <<tool, rows, pc, exit>> /\ pc = "loop"
      BY <2>2, WorkerFrame DEF discoverVars
    <3>2. exit = -1 /\ rows = << >>
      BY <3>1 DEF MainKnows
    <3> QED
      BY <1>0, <3>1, <3>2
  <2> QED
    BY <1>2, <2>1, <2>2
<1>3. CASE PrintSummary
  <2>1. /\ UNCHANGED <<tool, opts, items, started, worker, lines>> /\ pc = "loop"
        /\ exit' = IF opts.report THEN exit ELSE 0
    BY <1>3 DEF PrintSummary, treeVars
  <2>2. exit = -1
    BY <2>1 DEF MainKnows
  <2>3. (tool = "runner" /\ exit = 0 /\ opts.report)' => FALSE
    BY <2>1, <2>2
  <2> QED
    BY <1>3, <2>1, <2>3, PrintSummaryStep DEF SumsKnow, NumItems
<1>4. CASE WriteReport
  <2>1. /\ UNCHANGED <<tool, opts, items, started, worker, lines, rows, summary>> /\ pc = "report"
        /\ report' = Count(rows, ReportClass) \/ exit' = 1
    BY <1>4 DEF WriteReport, treeVars
  <2>2. Count(rows, SummaryClass)' = Count(rows, SummaryClass)
        /\ Count(rows, ReportClass)' = Count(rows, ReportClass)
    BY <2>1 DEF Count
  <2> QED
    BY <2>1, <2>2 DEF SumsKnow, NumItems
<1>5. CASE Ended \/ UNCHANGED vars
  <2>1. UNCHANGED <<tool, opts, pc, items, started, worker, lines, rows, summary, report, exit>>
    BY <1>5 DEF Ended, vars, runnerVars, discoverVars
  <2>2. Count(rows, SummaryClass)' = Count(rows, SummaryClass)
        /\ Count(rows, ReportClass)' = Count(rows, ReportClass)
    BY <2>1 DEF Count
  <2> QED
    BY <2>1, <2>2 DEF SumsKnow, NumItems
<1> QED
  BY <1>1, <1>2, <1>3, <1>4, <1>5 DEF Next, Main

-------------------------------------------------------------------------------

LEMMA InitRunnerIInv == Init => RunnerIInv
BY WalkInit, BenchInit, RunnerInit, CountersInit DEF Init, RunnerIInv

LEMMA NextRunnerIInv == RunnerIInv /\ [Next]_vars => RunnerIInv'
<1> SUFFICES ASSUME RunnerIInv, [Next]_vars PROVE RunnerIInv'
  OBVIOUS
<1> USE DEF RunnerIInv
<1>1. WalkKnows'
  <2>1. CASE Discovers
    BY <2>1, WalkStep DEF Discovers
  <2>2. CASE LoadFails \/ Load \/ AllAsleep \/ PrintSummary \/ WriteReport
    <3>1. /\ UNCHANGED <<tool, opts, rootKind, disk, unreadable, pruned, cursor, paths>>
          /\ pc' \in {"loop", "report", "end"}
      BY <2>2 DEF LoadFails, Load, AllAsleep, PrintSummary, WriteReport, treeVars
    <3> QED
      BY <3>1 DEF WalkKnows
  <2>3. CASE UNCHANGED discoverVars
    <3>1. UNCHANGED <<tool, opts, rootKind, disk, unreadable, pc, pruned, cursor, paths>>
      BY <2>3 DEF discoverVars
    <3>2. FlagsRejected' = FlagsRejected /\ Upcoming' = Upcoming
      BY <3>1 DEF FlagsRejected, Upcoming
    <3> QED
      BY <3>1, <3>2 DEF WalkKnows
  <2>4. CASE StartItem \/ Ended \/ UNCHANGED vars
    BY <2>3, <2>4 DEF StartItem, Ended, vars
  <2>5. ASSUME NEW i \in Bound, Worker(i) PROVE UNCHANGED discoverVars
    BY <2>5, WorkerFrame
  <2> QED
    BY <2>1, <2>2, <2>3, <2>4, <2>5 DEF Next, Main
<1>2. BenchKnows'
  <2>1. CASE Discovers
    BY <2>1, BenchStep DEF Discovers
  <2>2. CASE LoadFails \/ Load \/ AllAsleep \/ PrintSummary \/ WriteReport
    <3>1. /\ UNCHANGED <<tool, opts, rootKind, disk, unreadable, pruned, cursor, jobs, skipped>>
          /\ pc' \in {"loop", "report", "end"}
      BY <2>2 DEF LoadFails, Load, AllAsleep, PrintSummary, WriteReport, treeVars
    <3> QED
      BY <3>1, BenchStays
  <2>3. CASE UNCHANGED discoverVars
    <3>1. UNCHANGED <<tool, opts, rootKind, disk, unreadable, pc, pruned, cursor, jobs, skipped, census>>
      BY <2>3 DEF discoverVars
    <3>2. /\ Bad' = Bad /\ Upcoming' = Upcoming /\ CensusAddsUp(census)' = CensusAddsUp(census)
          /\ \A x : Found(x)' = Found(x) /\ PassedUp(x)' = PassedUp(x)
      BY <3>1 DEF Bad, Upcoming, Found, PassedUp, CensusAddsUp, FilesIn
    <3>3. \A x : Reached(x)' = Reached(x)
      BY <3>1, <3>2 DEF Reached
    <3> QED
      BY <3>1, <3>2, <3>3 DEF BenchKnows
  <2>4. CASE StartItem \/ Ended \/ UNCHANGED vars
    BY <2>3, <2>4 DEF StartItem, Ended, vars
  <2>5. ASSUME NEW i \in Bound, Worker(i) PROVE UNCHANGED discoverVars
    BY <2>5, WorkerFrame
  <2> QED
    BY <2>1, <2>2, <2>3, <2>4, <2>5 DEF Next, Main
<1> QED
  BY <1>1, <1>2, TypesStep, MainStep, ItemsStep, CountersStep, SumsStep

LEMMA AlwaysRunnerIInv == Spec => []RunnerIInv
BY InitRunnerIInv, NextRunnerIInv, PTL DEF Spec

(* In any tree, bench finds every fixture that it can reach, each once, in *)
(* the order of the paths and with its own format; it reports everything   *)
(* else that it can reach; and its census adds up to what it found.        *)
THEOREM DiscoveryAlwaysComplete == Spec => []DiscoveryIsComplete
<1>1. RunnerIInv => DiscoveryIsComplete
  BY BenchFinds DEF RunnerIInv
<1> QED
  BY <1>1, AlwaysRunnerIInv, PTL

(* In any tree without a directory that cannot be listed, zkevm-runner     *)
(* finds every EEST fixture that bench finds.                              *)
THEOREM RunnerFindsAll == Spec => []RunnerFindsWhatBenchFinds
BY AlwaysRunnerIInv, WalkFinds, PTL DEF RunnerIInv

(* No dump overwrites another one, whatever the names are cut to.          *)
THEOREM DumpsAreKept == Spec => []DumpsKept
<1>1. RunnerIInv => DumpsKept
  BY DEF RunnerIInv, ItemsKnow, DumpsKept
<1> QED
  BY <1>1, AlwaysRunnerIInv, PTL

(* main never waits for a place in sem or for a goroutine that does not    *)
(* come: Go's runtime ends the program only when there are no jobs, and    *)
(* then before anything was run.                                           *)
THEOREM NoDeadlockWithJobs == Spec => []CrashesOnlyWithoutJobs
<1>1. RunnerIInv => CrashesOnlyWithoutJobs
  <2> SUFFICES ASSUME RunnerIInv, exit = 2
               PROVE  opts.jobs < 1 /\ lines = NoCount /\ dumps = << >>
    BY DEF CrashesOnlyWithoutJobs
  <2>1. started = 0 /\ opts.jobs < 1 /\ dumps = << >>
    BY DEF RunnerIInv, MainKnows
  <2>2. \A i \in Bound : worker[i] = "none"
    BY <2>1, BoundIsFinite DEF RunnerIInv, ItemsKnow
  <2>3. \A k \in Classes : In(k) = {}
    BY <2>2 DEF In, Counted
  <2>4. \A k \in Classes : lines[k] = 0
    BY <2>3, CountersFinite, FS_EmptySet DEF RunnerIInv
  <2>5. lines = NoCount
    BY <2>4 DEF RunnerIInv, RunnerTypes, NoCount
  <2> QED
    BY <2>1, <2>5
<1> QED
  BY <1>1, AlwaysRunnerIInv, PTL

(* The progress lines, the summary and the report show the same numbers,   *)
(* and these are all the items.                                            *)
THEOREM TalliesCorrect == Spec => []TalliesAgree
<1>1. RunnerIInv => TalliesAgree
  <2> SUFFICES ASSUME RunnerIInv, pc = "report" \/ (exit = 0 /\ tool = "runner")
               PROVE  /\ summary = lines
                      /\ lines["passed"] + lines["failed"] + lines["errored"]
                           + lines["skipped"] = NumItems
                      /\ exit = 0 /\ tool = "runner" /\ opts.report => report = summary
    BY DEF TalliesAgree
  <2>1. /\ started = NumItems /\ NumItems \in Bound
        /\ \A i \in 1 .. NumItems : worker[i] = "left"
        /\ rows \in [1 .. NumItems -> TestResults]
        /\ summary = Count(rows, SummaryClass) /\ summary = lines
        /\ exit = 0 /\ tool = "runner" /\ opts.report => report = Count(rows, ReportClass)
    BY DEF RunnerIInv, SumsKnow
  <2>2. Count(rows, ReportClass) = Count(rows, SummaryClass)
    <3>1. \A i \in 1 .. NumItems : ReportClass(rows[i]) = SummaryClass(rows[i])
      BY <2>1, OneClass
    <3>2. \A k \in Classes : {i \in DOMAIN rows : ReportClass(rows[i]) = k} =
                             {i \in DOMAIN rows : SummaryClass(rows[i]) = k}
      BY <2>1, <3>1
    <3> QED
      BY <3>2 DEF Count
  <2>3. /\ NumItems \in Nat /\ 1 .. NumItems \subseteq Bound /\ IsFiniteSet(1 .. NumItems)
        /\ Cardinality(1 .. NumItems) = NumItems
    BY <2>1, BoundIsFinite, FS_Interval
  <2>4. \A i \in Bound : Counted(i) <=> i \in 1 .. NumItems
    BY <2>1, <2>3, BoundIsFinite DEF RunnerIInv, ItemsKnow, Counted
  <2>5. \A i \in 1 .. NumItems : Status(outcome[i]) \in Classes
    BY <2>3, OneClass DEF RunnerIInv, RunnerTypes
  <2> DEFINE A == In("passed")
             B == In("failed")
             C == In("errored")
             D == In("skipped")
  <2>6. /\ A \cap B = {} /\ (A \cup B) \cap C = {} /\ (A \cup B \cup C) \cap D = {}
        /\ A \cup B \cup C \cup D = 1 .. NumItems
    BY <2>3, <2>4, <2>5 DEF In, Classes
  <2>7. /\ IsFiniteSet(A) /\ lines["passed"] = Cardinality(A)
        /\ IsFiniteSet(B) /\ lines["failed"] = Cardinality(B)
        /\ IsFiniteSet(C) /\ lines["errored"] = Cardinality(C)
        /\ IsFiniteSet(D) /\ lines["skipped"] = Cardinality(D)
    BY CountersFinite DEF Classes, RunnerIInv
  <2> HIDE DEF A, B, C, D
  <2>8. \A S : IsFiniteSet(S) => Cardinality(S) \in Nat
    BY FS_CardinalityType
  <2>9. IsFiniteSet(A \cup B) /\ Cardinality(A \cup B) = Cardinality(A) + Cardinality(B)
    BY <2>6, <2>7, DisjointCount
  <2>10. /\ IsFiniteSet(A \cup B \cup C)
         /\ Cardinality(A \cup B \cup C) = Cardinality(A \cup B) + Cardinality(C)
    BY <2>6, <2>7, <2>9, DisjointCount
  <2>11. Cardinality(A \cup B \cup C \cup D) = Cardinality(A \cup B \cup C) + Cardinality(D)
    BY <2>6, <2>7, <2>10, DisjointCount
  <2>12. lines["passed"] + lines["failed"] + lines["errored"] + lines["skipped"] = NumItems
    BY <2>3, <2>6, <2>7, <2>8, <2>9, <2>10, <2>11
  <2> QED
    BY <2>1, <2>2, <2>12
<1> QED
  BY <1>1, AlwaysRunnerIInv, PTL

-------------------------------------------------------------------------------
(* The loop implements the parallel map                                    *)

Through == {i \in Bound : worker[i] \in {"leave", "left"}}
Value   == [i \in Through |-> results[i]]
Answer  == IF rows # << >> THEN results ELSE << >>

(* The items that the map calls active are those with a place in sem.      *)
LEMMA ActiveAreHolders ==
  /\ {i \in Bound : worker[i] \in {"run", "count", "store", "release"}} = Holders
  /\ Map!Cardinality(Holders) = Cardinality(Holders)
<1>1. Map!Cardinality(Holders) = Cardinality(Holders)
  BY DEF Map!Cardinality, Map!IsFiniteSet, Cardinality, IsFiniteSet
<1> QED
  BY <1>1 DEF Holders, Busy

LEMMA MapInit == Init => Map!Init
<1> SUFFICES ASSUME Init PROVE Map!Init
  OBVIOUS
<1>1. Holders = {} /\ Through = {} /\ rows = << >>
  BY DEF Init, Holders, Through, Busy
<1>2. NumItems \in Nat
  BY EmptySeq DEF Init, NumItems
<1>3. opts.jobs \in Int
  BY RunnerInit DEF RunnerTypes
<1>4. << >> = Map!Nothing /\ Value = Map!Nothing
  BY <1>1 DEF Map!Nothing, Value
<1> QED
  BY <1>1, <1>2, <1>3, <1>4, ActiveAreHolders, Zenon DEF Map!Init, Through, Value

(* Where the map does not look, nothing it can see changes.                *)
LEMMA MapStutters ==
  ASSUME NumItems' = NumItems, opts'.jobs = opts.jobs, Holders' = Holders, Through' = Through,
         \A i \in Through : results'[i] = results[i], rows' = rows,
         rows # << >> => results' = results
  PROVE  UNCHANGED (Map!vars)
<1>1. Value' = Value
  BY DEF Value
<1>2. Answer' = Answer
  BY DEF Answer
<1>3. {i \in Bound : worker[i] \in {"run", "count", "store", "release"}}' =
        {i \in Bound : worker[i] \in {"run", "count", "store", "release"}}
  <2>1. Holders' = {i \in Bound : worker[i] \in {"run", "count", "store", "release"}}'
    BY DEF Holders, Busy
  <2> QED
    BY <2>1, ActiveAreHolders
<1> QED
  BY <1>1, <1>2, <1>3 DEF Map!vars, Through, Value, Answer

LEMMA MapStep == RunnerIInv /\ [Next]_vars => [Map!Next]_(Map!vars)
<1> SUFFICES ASSUME RunnerIInv, [Next]_vars PROVE [Map!Next]_(Map!vars)
  OBVIOUS
<1> USE DEF RunnerIInv
<1> DEFINE Active == {i \in Bound : worker[i] \in {"run", "count", "store", "release"}}
<1>0. Active = Holders /\ Active' = Holders'
  BY DEF Holders, Busy
<1>1. CASE Load
  <2>1. /\ UNCHANGED <<opts, worker, rows>> /\ started = 0 /\ rows = << >>
        /\ NumItems' \in Nat
    BY <1>1, BoundIsFinite DEF Load, treeVars, MainKnows, NumItems
  <2>2. \A i \in Bound : worker[i] = "none"
    BY <2>1, BoundIsFinite DEF ItemsKnow
  <2>3. Active = {} /\ Active' = {} /\ Through = {} /\ Through' = {}
    BY <2>1, <2>2 DEF Through
  <2>4. Value = Map!Nothing /\ Value' = Map!Nothing
    BY <2>3 DEF Value, Map!Nothing
  <2>5. Answer' = Answer
    BY <2>1 DEF Answer
  <2>6. Map!List
    BY <2>1, <2>3, <2>4, <2>5, Zenon DEF Map!List, Value, Answer, Through
  <2> QED
    BY <2>6 DEF Map!Next
<1>2. CASE StartItem
  <2>0. PICK n \in Bound : n = started + 1
    BY <1>2, StartFrame
  <2>1. /\ n \in 1 .. NumItems /\ worker[n] = "none" /\ sem < opts.jobs
        /\ worker' = [worker EXCEPT ![n] = "run"]
        /\ UNCHANGED <<opts, items, results, rows>>
    BY <1>2, <2>0, StartFrame DEF discoverVars
  <2>2. /\ Active' = Active \cup {n} /\ n \notin Active
        /\ Through' = Through /\ n \notin Through
    BY <2>1 DEF Through, RunnerTypes
  <2>3. Map!Cardinality(Active) < opts.jobs
    BY <1>0, <2>1, CountersFinite, ActiveAreHolders
  <2>4. Value' = Value /\ DOMAIN Value = Through
    BY <2>1, <2>2 DEF Value
  <2>5. Answer' = Answer /\ NumItems' = NumItems /\ (rows # << >>)' = (rows # << >>)
    BY <2>1 DEF Answer, NumItems
  <2>6. Map!Start(n)
    BY <2>1, <2>2, <2>3, <2>4, <2>5, Zenon DEF Map!Start, Through, Value, Answer
  <2> QED
    BY <2>1, <2>6 DEF Map!Next, Map!Items
<1>3. ASSUME NEW i \in Bound, ReleaseItem(i) PROVE Map!Next
  <2>1. /\ worker[i] = "release" /\ worker' = [worker EXCEPT ![i] = "leave"]
        /\ UNCHANGED <<opts, items, results, rows>>
    BY <1>3 DEF ReleaseItem, Moves, discoverVars
  <2>2. i \in Active /\ Active' = Active \ {i} /\ Through' = Through \cup {i}
    BY <2>1 DEF Through, RunnerTypes
  <2>3. /\ DOMAIN Value' = DOMAIN Value \cup {i}
        /\ \A h \in DOMAIN Value : Value'[h] = Value[h]
    BY <2>1, <2>2 DEF Value
  <2>4. Answer' = Answer /\ NumItems' = NumItems /\ (rows # << >>)' = (rows # << >>)
    BY <2>1 DEF Answer, NumItems
  <2>5. Map!Finish(i)
    BY <2>1, <2>2, <2>3, <2>4 DEF Map!Finish, Through, Value, Answer
  <2>6. i \in 1 .. NumItems
    BY <1>3, WorkerFrame DEF Worker
  <2> QED
    BY <2>5, <2>6 DEF Map!Next, Map!Items
<1>4. CASE PrintSummary
  <2>1. /\ UNCHANGED <<opts, items, worker, results>> /\ rows = << >>
        /\ started = NumItems /\ wg = 0
    BY <1>4 DEF PrintSummary, treeVars, MainKnows
  <2>2. /\ NumItems \in Nat /\ NumItems \in Bound /\ 1 .. NumItems \subseteq Bound
        /\ rows' \in [1 .. NumItems -> TestResults]
    BY <1>4, PrintSummaryStep, BoundIsFinite
  <2>3. rows' # << >>
    <3>1. 1 \in DOMAIN rows'
      BY <2>2, BoundIsFinite
    <3> QED
      BY <3>1
  <2>4. Through = 1 .. NumItems
    <3>1. \A i \in 1 .. NumItems : worker[i] = "left"
      BY <2>1, AllLeft
    <3>2. \A i \in Bound : i \notin 1 .. NumItems => worker[i] = "none"
      BY <2>1, <2>2, BoundIsFinite DEF ItemsKnow
    <3> QED
      BY <2>2, <3>1, <3>2 DEF Through
  <2>5. Answer' = Value
    BY <2>1, <2>3, <2>4 DEF Answer, Value, RunnerTypes
  <2>6. Active' = Active /\ Value' = Value /\ DOMAIN Value = 1 .. NumItems /\ NumItems' = NumItems
    BY <2>1, <2>4 DEF Value, Through, NumItems
  <2>7. Map!Return
    BY <2>1, <2>3, <2>5, <2>6, Zenon DEF Map!Return, Map!Items, Through, Value, Answer
  <2> QED
    BY <2>7 DEF Map!Next
<1>5. CASE Discovers \/ LoadFails \/ AllAsleep \/ WriteReport \/ Ended \/ UNCHANGED vars
  <2>1. UNCHANGED <<opts, items, worker, results, rows>>
    <3>1. CASE Discovers
      BY <3>1, DiscoverFrame DEF Discovers, treeVars
    <3> QED
      BY <1>5, <3>1 DEF LoadFails, AllAsleep, WriteReport, Ended, vars, runnerVars, discoverVars,
                        treeVars
  <2> QED
    BY <2>1, MapStutters DEF NumItems, Holders, Through, Busy
<1>6. ASSUME NEW i \in Bound, RunItem(i) \/ CountItem(i) \/ StoreItem(i) \/ LeaveItem(i)
      PROVE  UNCHANGED (Map!vars)
  <2>1. /\ UNCHANGED <<opts, items, rows>> /\ pc = "loop"
        /\ \A h \in Bound : h # i => worker'[h] = worker[h]
    BY <1>6, WorkerFrame DEF discoverVars, Worker
  <2>2. /\ worker[i] # "leave" => /\ worker[i] \in {"run", "count", "store"}
                                  /\ worker'[i] \in {"count", "store", "release"}
        /\ worker[i] = "leave" => worker'[i] = "left"
        /\ \A h \in 1 .. NumItems : h # i => results'[h] = results[h]
        /\ worker[i] = "leave" => results' = results
    BY <1>6 DEF RunItem, CountItem, StoreItem, LeaveItem, Moves, RunnerTypes
  <2>3. Holders' = Holders /\ Through' = Through
    BY <2>1, <2>2 DEF Holders, Through, Busy
  <2>4. \A h \in Through : results'[h] = results[h]
    <3>1. NumItems \in Nat /\ started \in Nat /\ started <= NumItems
      BY BoundIsFinite DEF RunnerTypes
    <3>2. \A h \in Through : h \in 1 .. NumItems
      BY <3>1, BoundIsFinite DEF Through, ItemsKnow
    <3> QED
      BY <2>2, <3>2 DEF Through
  <2>5. rows = << >>
    BY <2>1 DEF MainKnows
  <2> QED
    BY <2>1, <2>3, <2>4, <2>5, MapStutters DEF NumItems
<1> QED
  BY <1>1, <1>2, <1>3, <1>4, <1>5, <1>6 DEF Next, Main, Worker

(* main handles every item once, never more than -jobs at a time, and sums *)
(* up the results of all of them, each in its own place.                   *)
THEOREM LoopIsParallelMap == Spec => ImplementsParallelMap
BY MapInit, MapStep, AlwaysRunnerIInv, PTL DEF Spec, ImplementsParallelMap, Map!Spec
===============================================================================
