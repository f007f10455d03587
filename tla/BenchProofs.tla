------------------------------ MODULE BenchProofs -----------------------------
(***************************************************************************)
(* For any number of files, any units in them and any number of jobs: the  *)
(* progress lines are sane, runAll returns what a sequential run would, and*)
(* it implements the parallel map.                                         *)
(***************************************************************************)
EXTENDS Bench, FiniteSetTheorems, SequenceTheorems, TLAPS

(* The sets the counters count.                                            *)
Holders == {f \in Files : Working(f)}
Alive   == {f \in Files : worker[f] \notin {"none", "left"}}

LEMMA SetsFinite ==
  /\ IsFiniteSet(Files) /\ Cardinality(Files) = NumFiles
  /\ \A S \in SUBSET Files : IsFiniteSet(S) /\ Cardinality(S) \in Nat
  /\ \A S \in SUBSET (0 .. MaxUnits) : IsFiniteSet(S) /\ Cardinality(S) \in Nat
  /\ \A S \in SUBSET (Files \X (0 .. MaxUnits)) : IsFiniteSet(S) /\ Cardinality(S) \in Nat
<1>1. IsFiniteSet(Files) /\ Cardinality(Files) = NumFiles
  BY BenchAssumption, FS_Interval DEF Files
<1>2. IsFiniteSet(0 .. MaxUnits)
  BY BenchAssumption, FS_Interval
<1>3. IsFiniteSet(Files \X (0 .. MaxUnits))
  BY <1>1, <1>2, FS_Product
<1> QED
  BY <1>1, <1>2, <1>3, FS_Subset, FS_CardinalityType

(* What every step of a file's goroutine has in common.                    *)
LEMMA WorkerFrame ==
  ASSUME BenchTypes, NEW f \in Files, Worker(f)
  PROVE  /\ UNCHANGED <<size, started, collected, results>>
         /\ \E w \in {"run", "count", "print", "release", "leave", "left"} :
              worker' = [worker EXCEPT ![f] = w]
BY DEF Worker, Expand, RunUnit, CountUnit, PrintUnit, FinishFile, Release, Leave

-------------------------------------------------------------------------------
(* The goroutines and their files                                          *)

LEMMA FilesInit == Init => BenchTypes /\ FilesKnow
<1> SUFFICES ASSUME Init PROVE BenchTypes /\ FilesKnow
  OBVIOUS
<1>1. << >> \in Seq(Rows) /\ Len(<< >>) = 0
  BY EmptySeq
<1>2. Files \subseteq Nat \ {0} /\ 0 \in 0 .. NumFiles
  BY BenchAssumption DEF Files
<1> QED
  BY <1>1, <1>2 DEF Init, BenchTypes, FilesKnow, Unreadable

LEMMA FilesStep ==
  ASSUME BenchTypes, FilesKnow, done \in Nat, [Next]_vars
  PROVE  BenchTypes' /\ FilesKnow'
<1> USE DEF FilesKnow
<1>0. /\ started \in Nat /\ NumFiles \in Nat /\ MaxUnits \in Nat /\ Files \subseteq Nat
      /\ Unreadable \notin Nat
  BY BenchAssumption DEF Files, BenchTypes, Unreadable
<1>1. CASE StartFile
  <2>1. started + 1 \in Files /\ started' = started + 1
    BY <1>0, <1>1, BenchAssumption DEF StartFile, Files, BenchTypes
  <2>2. BenchTypes'
    <3>1. started' \in 0 .. NumFiles
      BY <1>0, <1>1, <2>1 DEF StartFile
    <3> QED
      BY <1>1, <2>1, <3>1 DEF StartFile, BenchTypes
  <2>3. FilesKnow'
    BY <1>0, <1>1, <2>1 DEF StartFile, BenchTypes
  <2> QED
    BY <2>2, <2>3
<1>2. CASE Collect
  <2>1. collected + 1 \in Files /\ collected' \in 0 .. NumFiles
    BY <1>0, <1>2 DEF Collect, Files, BenchTypes
  <2>2. perFile[collected + 1] \in Seq(Rows)
    BY <2>1 DEF BenchTypes
  <2>3. results' \in Seq(Rows)
    BY <1>2, <2>2, ConcatProperties DEF Collect, BenchTypes
  <2> QED
    BY <1>2, <2>1, <2>3 DEF Collect, BenchTypes
<1>3. ASSUME NEW f \in Files, Expand(f) PROVE BenchTypes' /\ FilesKnow'
  <2>1. BenchTypes'
    BY <1>3 DEF Expand, BenchTypes
  <2>2. CASE size[f] = Unreadable
    <3>1. /\ worker[f] = "expand" /\ worker' = [worker EXCEPT ![f] = "release"]
          /\ UNCHANGED <<size, started, out>> /\ perFile'[f] = out[f]
          /\ \A h \in Files : h # f => perFile'[h] = perFile[h]
      BY <1>3, <2>2 DEF Expand, BenchTypes
    <3>2. ASSUME NEW h \in Files PROVE FilesKnow!(h)'
      <4>1. CASE h = f
        BY <1>0, <2>2, <3>1, <4>1 DEF BenchTypes
      <4>2. CASE h # f
        BY <3>1, <4>2 DEF BenchTypes
      <4> QED
        BY <4>1, <4>2
    <3> QED
      BY <2>1, <3>2
  <2>3. CASE size[f] # Unreadable
    <3>1. out[f] = << >> /\ Len(out[f]) = 0 /\ size[f] \in 0 .. MaxUnits
      BY <1>3, <2>3, EmptySeq DEF Expand, BenchTypes
    <3> QED
      BY <1>0, <1>3, <2>1, <2>3, <3>1 DEF Expand, BenchTypes
  <2> QED
    BY <2>1, <2>2, <2>3
<1>4. ASSUME NEW f \in Files, RunUnit(f) PROVE BenchTypes' /\ FilesKnow'
  <2>1. BenchTypes'
    BY <1>4 DEF RunUnit, BenchTypes
  <2>2. ASSUME NEW h \in Files PROVE FilesKnow!(h)'
    <3>1. CASE h = f
      BY <1>0, <1>4, <3>1 DEF RunUnit, BenchTypes
    <3>2. CASE h # f
      BY <1>4, <3>2 DEF RunUnit, BenchTypes
    <3> QED
      BY <3>1, <3>2
  <2> QED
    BY <2>1, <2>2
<1>5. ASSUME NEW f \in Files, CountUnit(f) PROVE BenchTypes' /\ FilesKnow'
  <2>1. BenchTypes'
    BY <1>5, <1>0 DEF CountUnit, BenchTypes
  <2>2. ASSUME NEW h \in Files PROVE FilesKnow!(h)'
    <3>1. CASE h = f
      BY <1>0, <1>5, <3>1 DEF CountUnit, BenchTypes
    <3>2. CASE h # f
      BY <1>5, <3>2 DEF CountUnit, BenchTypes
    <3> QED
      BY <3>1, <3>2
  <2> QED
    BY <2>1, <2>2
<1>6. ASSUME NEW f \in Files, PrintUnit(f) PROVE BenchTypes' /\ FilesKnow'
  <2> DEFINE row == [file |-> f, unit |-> Len(out[f]) + 1]
  <2>1. /\ out[f] \in Seq(Rows) /\ Len(out[f]) \in Nat /\ size[f] \in 0 .. MaxUnits
        /\ Len(out[f]) < size[f]
    BY <1>0, <1>6, LenProperties DEF PrintUnit, BenchTypes
  <2>2. row \in Rows
    BY <1>0, <2>1 DEF Rows
  <2>3. out' = [out EXCEPT ![f] = Append(out[f], row)]
    BY <1>6 DEF PrintUnit, BenchTypes
  <2>4. /\ out'[f] \in Seq(Rows) /\ Len(out'[f]) = Len(out[f]) + 1
        /\ \A i \in 1 .. Len(out[f]) : out'[f][i] = out[f][i]
        /\ out'[f][Len(out[f]) + 1] = row
    BY <2>1, <2>2, <2>3, AppendProperties DEF BenchTypes
  <2>5. BenchTypes'
    BY <1>6, <2>3, <2>4 DEF PrintUnit, BenchTypes
  <2>6. FilesKnow'
    <3> SUFFICES ASSUME NEW h \in Files
                 PROVE  FilesKnow!(h)'
      OBVIOUS
    <3> QED
      BY <1>0, <1>6, <2>1, <2>3, <2>4 DEF PrintUnit, BenchTypes
  <2> QED
    BY <2>5, <2>6
<1>7. ASSUME NEW f \in Files, FinishFile(f) PROVE BenchTypes' /\ FilesKnow'
  <2>1. BenchTypes'
    BY <1>7 DEF FinishFile, BenchTypes
  <2>2. ASSUME NEW h \in Files PROVE FilesKnow!(h)'
    <3>1. CASE h = f
      BY <1>0, <1>7, <3>1 DEF FinishFile, BenchTypes
    <3>2. CASE h # f
      BY <1>7, <3>2 DEF FinishFile, BenchTypes
    <3> QED
      BY <3>1, <3>2
  <2> QED
    BY <2>1, <2>2
<1>8. ASSUME NEW f \in Files, Release(f) \/ Leave(f) PROVE BenchTypes' /\ FilesKnow'
  <2>1. CASE Release(f)
    BY <1>0, <2>1 DEF Release, BenchTypes
  <2>2. CASE Leave(f)
    BY <1>0, <2>2 DEF Leave, BenchTypes
  <2> QED
    BY <1>8, <2>1, <2>2
<1>9. CASE UNCHANGED vars
  BY <1>9 DEF vars, BenchTypes
<1> QED
  BY <1>1, <1>2, <1>3, <1>4, <1>5, <1>6, <1>7, <1>8, <1>9 DEF Next, Main, Worker, Done

-------------------------------------------------------------------------------
(* sem and wg                                                              *)

LEMMA TokensInit == Init => TokensCount
<1> SUFFICES ASSUME Init PROVE TokensCount
  OBVIOUS
<1>1. {f \in Files : Working(f)} = {} /\ {f \in Files : worker[f] \notin {"none", "left"}} = {}
  BY DEF Init, Working
<1>2. /\ Cardinality({f \in Files : Working(f)}) = 0
      /\ Cardinality({f \in Files : worker[f] \notin {"none", "left"}}) = 0
  BY <1>1, FS_EmptySet, Zenon
<1>3. sem = 0 /\ wg = 0 /\ 0 <= parallelism
  BY BenchAssumption DEF Init
<1> QED
  BY <1>2, <1>3, Zenon DEF TokensCount

LEMMA TokensStep ==
  ASSUME BenchTypes, FilesKnow, TokensCount, [Next]_vars
  PROVE  TokensCount'
<1>1. /\ sem = Cardinality(Holders) /\ sem \in Nat /\ sem <= parallelism
      /\ wg = Cardinality(Alive) /\ wg \in Nat /\ parallelism \in Nat
      /\ IsFiniteSet(Holders) /\ IsFiniteSet(Alive)
  <2>1. Holders \in SUBSET Files /\ Alive \in SUBSET Files
    BY DEF Holders, Alive
  <2> QED
    BY <2>1, SetsFinite, BenchAssumption DEF TokensCount, Holders, Alive
<1>2. CASE Holders' = Holders /\ Alive' = Alive /\ sem' = sem /\ wg' = wg
  BY <1>1, <1>2 DEF TokensCount, Holders, Alive
<1>3. CASE StartFile
  <2>1. started + 1 \in Files /\ worker[started + 1] = "none"
    BY <1>3, BenchAssumption DEF StartFile, Files, BenchTypes, FilesKnow
  <2>2. Holders' = Holders \cup {started + 1} /\ Alive' = Alive \cup {started + 1}
    BY <1>3, <2>1 DEF StartFile, BenchTypes, Holders, Alive, Working
  <2>3. started + 1 \notin Holders /\ started + 1 \notin Alive
    BY <2>1 DEF Holders, Alive, Working
  <2>4. Cardinality(Holders') = sem + 1 /\ Cardinality(Alive') = wg + 1
    BY <1>1, <2>2, <2>3, FS_AddElement
  <2> QED
    BY <1>1, <1>3, <2>4 DEF StartFile, TokensCount, Holders, Alive
<1>4. ASSUME NEW f \in Files, Release(f) PROVE TokensCount'
  <2>1. Holders' = Holders \ {f} /\ Alive' = Alive /\ f \in Holders
    BY <1>4 DEF Release, BenchTypes, Holders, Alive, Working
  <2>2. Cardinality(Holders') = sem - 1
    BY <1>1, <2>1, FS_RemoveElement
  <2> QED
    BY <1>1, <1>4, <2>1, <2>2 DEF Release, TokensCount, Holders, Alive
<1>5. ASSUME NEW f \in Files, Leave(f) PROVE TokensCount'
  <2>1. Alive' = Alive \ {f} /\ Holders' = Holders /\ f \in Alive
    BY <1>5 DEF Leave, BenchTypes, Holders, Alive, Working
  <2>2. Cardinality(Alive') = wg - 1
    BY <1>1, <2>1, FS_RemoveElement
  <2> QED
    BY <1>1, <1>5, <2>1, <2>2 DEF Leave, TokensCount, Holders, Alive
<1>6. ASSUME NEW f \in Files,
             Expand(f) \/ RunUnit(f) \/ CountUnit(f) \/ PrintUnit(f) \/ FinishFile(f)
      PROVE  TokensCount'
  <2>1. /\ sem' = sem /\ wg' = wg /\ worker[f] \in {"expand", "run", "count", "print"}
        /\ \E w \in {"run", "count", "print", "release"} : worker' = [worker EXCEPT ![f] = w]
    BY <1>6 DEF Expand, RunUnit, CountUnit, PrintUnit, FinishFile
  <2>2. Holders' = Holders /\ Alive' = Alive
    BY <2>1 DEF BenchTypes, Holders, Alive, Working
  <2> QED
    BY <1>2, <2>1, <2>2
<1>7. CASE Collect \/ UNCHANGED vars
  <2>1. UNCHANGED <<sem, wg, worker>>
    BY <1>7 DEF Collect, vars
  <2> QED
    BY <1>2, <2>1 DEF Holders, Alive, Working
<1> QED
  BY <1>3, <1>4, <1>5, <1>6, <1>7 DEF Next, Main, Worker, Done

(* When main has started every file and wg is 0, every goroutine is gone.  *)
LEMMA AllLeft ==
  ASSUME BenchTypes, FilesKnow, TokensCount, started = NumFiles, wg = 0
  PROVE  \A f \in Files : worker[f] = "left"
<1>1. Alive = {}
  <2>1. Alive \in SUBSET Files
    BY DEF Alive
  <2>2. IsFiniteSet(Alive) /\ Cardinality(Alive) = 0
    BY <2>1, SetsFinite DEF TokensCount, Alive
  <2> QED
    BY <2>2, FS_EmptySet
<1>2. \A f \in Files : worker[f] # "none"
  BY BenchAssumption DEF FilesKnow, Files
<1> QED
  BY <1>1, <1>2 DEF Alive

-------------------------------------------------------------------------------
(* The progress counters                                                   *)

LEMMA CountUpTo == \A k \in Nat : IsFiniteSet(1 .. k) /\ Cardinality(1 .. k) = k
<1> SUFFICES ASSUME NEW k \in Nat PROVE IsFiniteSet(1 .. k) /\ Cardinality(1 .. k) = k
  OBVIOUS
<1>1. IsFiniteSet(1 .. k) /\ Cardinality(1 .. k) = IF 1 > k THEN 0 ELSE k - 1 + 1
  BY FS_Interval
<1> QED
  BY <1>1

Parts == [Files -> SUBSET (0 .. MaxUnits)]

(* A set of numbers and the pairs of one file with them are equally many.  *)
LEMMA CountOfOne ==
  ASSUME NEW f, NEW S \in SUBSET (0 .. MaxUnits)
  PROVE  /\ IsFiniteSet({f} \X S) /\ Cardinality({f} \X S) = Cardinality(S)
         /\ Cardinality(S) \in Nat
<1>1. IsFiniteSet(S) /\ Cardinality(S) \in Nat
  BY SetsFinite
<1>2. IsFiniteSet({f}) /\ Cardinality({f}) = 1
  BY FS_Singleton
<1>3. IsFiniteSet({f} \X S) /\ Cardinality({f} \X S) = Cardinality({f}) * Cardinality(S)
  BY <1>1, <1>2, FS_Product
<1>4. 1 * Cardinality(S) = Cardinality(S)
  BY <1>1
<1> QED
  BY <1>1, <1>2, <1>3, <1>4

(* A change of one file's part changes the count by the difference.        *)
LEMMA CountChange ==
  ASSUME NEW C \in Parts, NEW f \in Files, NEW S \in SUBSET (0 .. MaxUnits)
  PROVE  /\ Cardinality(Pairs([C EXCEPT ![f] = S])) = Cardinality(Pairs(C)) - Cardinality(C[f]) + Cardinality(S)
         /\ Cardinality(Pairs(C)) \in Nat
<1> DEFINE D == [C EXCEPT ![f] = S]
           others == {p \in Pairs(C) : p[1] # f}
<1>1. C[f] \in SUBSET (0 .. MaxUnits)
  BY DEF Parts
<1>2. Pairs(C) = others \cup ({f} \X C[f])
  BY <1>1 DEF Pairs
<1>3. Pairs(D) = others \cup ({f} \X S)
  BY DEF Pairs, Parts
<1>4. others \cap ({f} \X C[f]) = {} /\ others \cap ({f} \X S) = {}
  OBVIOUS
<1>5. IsFiniteSet(others) /\ Cardinality(others) \in Nat
  <2>1. others \in SUBSET (Files \X (0 .. MaxUnits))
    BY DEF Pairs
  <2> QED
    BY <2>1, SetsFinite
<1>6. /\ IsFiniteSet({f} \X C[f]) /\ Cardinality({f} \X C[f]) = Cardinality(C[f])
      /\ IsFiniteSet({f} \X S) /\ Cardinality({f} \X S) = Cardinality(S)
      /\ Cardinality(C[f]) \in Nat /\ Cardinality(S) \in Nat
  BY <1>1, CountOfOne
<1> HIDE DEF others, D
<1>7. Cardinality(Pairs(C)) = Cardinality(others) + Cardinality(C[f])
  <2>1. Cardinality(others \cup ({f} \X C[f])) =
          Cardinality(others) + Cardinality({f} \X C[f]) - Cardinality(others \cap ({f} \X C[f]))
    BY <1>5, <1>6, FS_Union
  <2>2. Cardinality(others \cap ({f} \X C[f])) = 0
    BY <1>4, FS_EmptySet
  <2> QED
    BY <1>2, <1>5, <1>6, <2>1, <2>2
<1>8. Cardinality(Pairs(D)) = Cardinality(others) + Cardinality(S)
  <2>1. Cardinality(others \cup ({f} \X S)) =
          Cardinality(others) + Cardinality({f} \X S) - Cardinality(others \cap ({f} \X S))
    BY <1>5, <1>6, FS_Union
  <2>2. Cardinality(others \cap ({f} \X S)) = 0
    BY <1>4, FS_EmptySet
  <2> QED
    BY <1>3, <1>5, <1>6, <2>1, <2>2
<1> QED
  BY <1>5, <1>6, <1>7, <1>8 DEF D

(* The parts, and that what is counted of a file is expected of it.        *)
LEMMA PartsTypes ==
  ASSUME BenchTypes, FilesKnow
  PROVE  /\ ExpectedPart \in Parts /\ CountedPart \in Parts
         /\ \A f \in Files : CountedPart[f] \subseteq ExpectedPart[f]
<1> SUFFICES ASSUME NEW f \in Files
             PROVE  /\ ExpectedPart[f] \in SUBSET (0 .. MaxUnits)
                    /\ CountedPart[f] \in SUBSET (0 .. MaxUnits)
                    /\ CountedPart[f] \subseteq ExpectedPart[f]
  BY DEF Parts, ExpectedPart, CountedPart
<1>1. MaxUnits \in Nat /\ Len(out[f]) \in Nat /\ size[f] \in {Unreadable} \cup 0 .. MaxUnits
  BY BenchAssumption, LenProperties DEF BenchTypes
<1>2. CASE size[f] = Unreadable
  BY <1>1, <1>2 DEF ExpectedPart, CountedPart
<1>3. CASE size[f] # Unreadable /\ worker[f] \in {"none", "expand"}
  BY <1>1, <1>3 DEF ExpectedPart, CountedPart
<1>4. CASE size[f] # Unreadable /\ worker[f] \notin {"none", "expand"}
  <2>1. size[f] \in 0 .. MaxUnits /\ UnitsCounted(f) \in 0 .. size[f]
    BY <1>1, <1>4 DEF UnitsCounted, FilesKnow
  <2>2. ExpectedPart[f] = 1 .. size[f] /\ CountedPart[f] = 1 .. UnitsCounted(f)
    BY <1>4 DEF ExpectedPart, CountedPart
  <2> QED
    BY <1>1, <2>1, <2>2
<1> QED
  BY <1>2, <1>3, <1>4

LEMMA ProgressInit == Init => ProgressCounts
<1> SUFFICES ASSUME Init PROVE ProgressCounts
  OBVIOUS
<1>1. Pairs(ExpectedPart) = Files \X {0}
  BY BenchAssumption DEF Init, Pairs, ExpectedPart
<1>2. Cardinality(Files \X {0}) = NumFiles * 1
  <2>1. IsFiniteSet({0}) /\ Cardinality({0}) = 1
    BY FS_Singleton
  <2> QED
    BY <2>1, SetsFinite, FS_Product
<1>3. Pairs(CountedPart) = {}
  BY DEF Init, Pairs, CountedPart
<1>4. Cardinality(Pairs(CountedPart)) = 0
  BY <1>3, FS_EmptySet
<1>5. /\ total = NumFiles /\ done = 0 /\ \A f \in Files : n[f] = 0
      /\ printed.n = 0 /\ printed.total = NumFiles /\ NumFiles \in Nat
  BY BenchAssumption DEF Init
<1> QED
  BY <1>1, <1>2, <1>4, <1>5 DEF ProgressCounts

(* The count cannot overtake the total.                                    *)
LEMMA CountBelowTotal ==
  ASSUME BenchTypes, FilesKnow, ProgressCounts
  PROVE  done \in Nat /\ total \in Nat /\ done <= total
<1>1. Pairs(CountedPart) \in SUBSET Pairs(ExpectedPart)
  BY PartsTypes DEF Pairs
<1>2. Pairs(ExpectedPart) \in SUBSET (Files \X (0 .. MaxUnits))
  BY DEF Pairs
<1>3. Pairs(CountedPart) \in SUBSET (Files \X (0 .. MaxUnits))
  BY DEF Pairs
<1> QED
  BY <1>1, <1>2, <1>3, SetsFinite, FS_Subset DEF ProgressCounts

(* The steps that change neither part.                                     *)
LEMMA ProgressKept ==
  ASSUME ProgressCounts, ExpectedPart' = ExpectedPart, CountedPart' = CountedPart,
         UNCHANGED <<done, total, n, printed>>
  PROVE  ProgressCounts'
<1>1. Pairs(ExpectedPart)' = Pairs(ExpectedPart) /\ Pairs(CountedPart)' = Pairs(CountedPart)
  BY DEF Pairs
<1> QED
  BY <1>1 DEF ProgressCounts

LEMMA ProgressStep ==
  ASSUME BenchTypes, FilesKnow, ProgressCounts, [Next]_vars
  PROVE  ProgressCounts'
<1>0. /\ done \in Nat /\ total \in Nat /\ done <= total
      /\ done = Cardinality(Pairs(CountedPart)) /\ total = Cardinality(Pairs(ExpectedPart))
      /\ ExpectedPart \in Parts /\ CountedPart \in Parts
      /\ \A f \in Files : n[f] \in Nat /\ n[f] <= done
      /\ \A f \in Files : Len(out[f]) \in Nat
      /\ MaxUnits \in Nat
  BY CountBelowTotal, PartsTypes, LenProperties, BenchAssumption DEF ProgressCounts, BenchTypes
<1>1. ASSUME NEW f \in Files, Expand(f), size[f] = Unreadable PROVE ProgressCounts'
  <2>1. /\ done' = done + 1 /\ UNCHANGED <<total, n, printed, out, size>>
        /\ worker' = [worker EXCEPT ![f] = "release"] /\ worker[f] = "expand"
    BY <1>1 DEF Expand
  <2>2. ExpectedPart' = ExpectedPart
    BY <1>1, <2>1 DEF ExpectedPart, BenchTypes
  <2>3. CountedPart' = [CountedPart EXCEPT ![f] = {0}] /\ CountedPart[f] = {}
    BY <1>1, <2>1 DEF CountedPart, UnitsCounted, BenchTypes
  <2>4. Cardinality(Pairs(CountedPart')) = done - 0 + 1
    <3>1. {0} \in SUBSET (0 .. MaxUnits)
      BY <1>0
    <3>2. Cardinality({0}) = 1 /\ Cardinality({}) = 0
      BY FS_Singleton, FS_EmptySet
    <3> QED
      BY <1>0, <2>3, <3>1, <3>2, CountChange
  <2>5. \A h \in Files : n'[h] <= done'
    BY <1>0, <2>1
  <2> QED
    BY <1>0, <2>1, <2>2, <2>4, <2>5 DEF ProgressCounts, Pairs
<1>2. ASSUME NEW f \in Files, Expand(f), size[f] # Unreadable PROVE ProgressCounts'
  <2>1. /\ total' = total + size[f] - 1 /\ UNCHANGED <<done, n, printed, out, size>>
        /\ worker' = [worker EXCEPT ![f] = "run"] /\ worker[f] = "expand"
    BY <1>2 DEF Expand
  <2>2. size[f] \in 0 .. MaxUnits /\ out[f] = << >> /\ Len(out[f]) = 0
    BY <1>2, <2>1, EmptySeq DEF BenchTypes, FilesKnow
  <2>3. CountedPart' = CountedPart
    <3>1. CountedPart'[f] = {} /\ CountedPart[f] = {}
      BY <1>2, <2>1, <2>2 DEF CountedPart, UnitsCounted, BenchTypes
    <3>2. \A h \in Files : h # f => CountedPart'[h] = CountedPart[h]
      BY <2>1 DEF CountedPart, UnitsCounted, BenchTypes
    <3> QED
      BY <3>1, <3>2 DEF CountedPart
  <2>4. ExpectedPart' = [ExpectedPart EXCEPT ![f] = 1 .. size[f]] /\ ExpectedPart[f] = {0}
    BY <1>2, <2>1 DEF ExpectedPart, BenchTypes
  <2>5. Cardinality(Pairs(ExpectedPart')) = total - 1 + size[f]
    <3>1. 1 .. size[f] \in SUBSET (0 .. MaxUnits)
      BY <1>0, <2>2
    <3>2. Cardinality(1 .. size[f]) = size[f]
      BY <2>2, CountUpTo
    <3>3. Cardinality({0}) = 1
      BY FS_Singleton
    <3>4. Cardinality(Pairs([ExpectedPart EXCEPT ![f] = 1 .. size[f]])) =
            Cardinality(Pairs(ExpectedPart)) - Cardinality(ExpectedPart[f]) + Cardinality(1 .. size[f])
      BY <1>0, <3>1, CountChange
    <3> QED
      BY <1>0, <2>4, <3>2, <3>3, <3>4
  <2> QED
    BY <1>0, <2>1, <2>2, <2>3, <2>5 DEF ProgressCounts, Pairs
<1>3. ASSUME NEW f \in Files, CountUnit(f) PROVE ProgressCounts'
  <2>1. /\ done' = done + 1 /\ n' = [n EXCEPT ![f] = done + 1]
        /\ UNCHANGED <<total, printed, out, size>>
        /\ worker' = [worker EXCEPT ![f] = "print"] /\ worker[f] = "count"
    BY <1>3 DEF CountUnit
  <2>2. size[f] \in 0 .. MaxUnits /\ size[f] # Unreadable /\ Len(out[f]) < size[f]
    BY <2>1 DEF BenchTypes, FilesKnow
  <2>3. ExpectedPart' = ExpectedPart
    BY <2>1 DEF ExpectedPart, BenchTypes
  <2> DEFINE k == Len(out[f])
  <2>4. /\ CountedPart' = [CountedPart EXCEPT ![f] = 1 .. k + 1]
        /\ CountedPart[f] = 1 .. k
    <3>1. CountedPart'[f] = 1 .. k + 1 /\ CountedPart[f] = 1 .. k
      BY <2>1, <2>2 DEF CountedPart, UnitsCounted, BenchTypes
    <3>2. \A h \in Files : h # f => CountedPart'[h] = CountedPart[h]
      BY <2>1 DEF CountedPart, UnitsCounted, BenchTypes
    <3> QED
      BY <3>1, <3>2 DEF CountedPart
  <2>5. Cardinality(Pairs(CountedPart')) = done - k + (k + 1)
    <3>1. 1 .. k + 1 \in SUBSET (0 .. MaxUnits)
      BY <1>0, <2>2
    <3>2. Cardinality(1 .. k + 1) = k + 1 /\ Cardinality(1 .. k) = k
      BY <1>0, CountUpTo
    <3>3. Cardinality(Pairs([CountedPart EXCEPT ![f] = 1 .. k + 1])) =
            Cardinality(Pairs(CountedPart)) - Cardinality(CountedPart[f]) + Cardinality(1 .. k + 1)
      BY <1>0, <3>1, CountChange
    <3> QED
      BY <1>0, <2>4, <3>2, <3>3
  <2>6. \A h \in Files : n'[h] <= done'
    BY <1>0, <2>1 DEF BenchTypes
  <2>7. total' = Cardinality(Pairs(ExpectedPart)')
    BY <1>0, <2>1, <2>3 DEF Pairs
  <2>8. done' = Cardinality(Pairs(CountedPart)')
    <3>1. Pairs(CountedPart)' = Pairs(CountedPart')
      BY DEF Pairs
    <3> QED
      BY <1>0, <2>1, <2>5, <3>1
  <2>9. printed'.n \in Nat /\ printed'.total \in Nat /\ printed'.n <= printed'.total
    BY <2>1 DEF ProgressCounts
  <2> QED
    BY <2>6, <2>7, <2>8, <2>9 DEF ProgressCounts
<1>4. ASSUME NEW f \in Files, PrintUnit(f) PROVE ProgressCounts'
  <2>1. /\ printed' = [n |-> n[f], total |-> total] /\ UNCHANGED <<done, total, n, size>>
        /\ out' = [out EXCEPT ![f] = Append(out[f], [file |-> f, unit |-> Len(out[f]) + 1])]
        /\ worker' = [worker EXCEPT ![f] = "run"] /\ worker[f] = "print"
    BY <1>4 DEF PrintUnit, BenchTypes
  <2>2. ExpectedPart' = ExpectedPart
    BY <2>1 DEF ExpectedPart, BenchTypes
  <2>3. Len(out'[f]) = Len(out[f]) + 1
    <3>1. size[f] \in 0 .. MaxUnits /\ Len(out[f]) < size[f]
      BY <2>1 DEF BenchTypes, FilesKnow
    <3>2. [file |-> f, unit |-> Len(out[f]) + 1] \in Rows
      BY <1>0, <3>1 DEF Rows
    <3> QED
      BY <2>1, <3>2, AppendProperties DEF BenchTypes
  <2>4. CountedPart' = CountedPart
    <3>1. CountedPart'[f] = CountedPart[f]
      BY <2>1, <2>3 DEF CountedPart, UnitsCounted, BenchTypes
    <3>2. \A h \in Files : h # f => CountedPart'[h] = CountedPart[h]
      BY <2>1 DEF CountedPart, UnitsCounted, BenchTypes
    <3> QED
      BY <3>1, <3>2 DEF CountedPart
  <2>5. total' = Cardinality(Pairs(ExpectedPart)') /\ done' = Cardinality(Pairs(CountedPart)')
    BY <1>0, <2>1, <2>2, <2>4 DEF Pairs
  <2>6. \A h \in Files : n'[h] <= done'
    BY <2>1 DEF ProgressCounts
  <2>7. printed'.n \in Nat /\ printed'.total \in Nat /\ printed'.n <= printed'.total
    BY <1>0, <2>1 DEF BenchTypes, ProgressCounts
  <2> QED
    BY <2>5, <2>6, <2>7 DEF ProgressCounts
<1>5. ASSUME NEW f \in Files, RunUnit(f) \/ FinishFile(f) \/ Release(f) \/ Leave(f)
      PROVE  ProgressCounts'
  <2>1. /\ UNCHANGED <<done, total, n, printed, out, size>>
        /\ worker[f] \in {"run", "release", "leave"}
        /\ \E w \in {"count", "release", "leave", "left"} : worker' = [worker EXCEPT ![f] = w]
    BY <1>5 DEF RunUnit, FinishFile, Release, Leave
  <2>2. ExpectedPart' = ExpectedPart
    BY <2>1 DEF ExpectedPart, BenchTypes
  <2>3. CountedPart' = CountedPart
    BY <2>1 DEF CountedPart, UnitsCounted, BenchTypes
  <2> QED
    BY <2>1, <2>2, <2>3, ProgressKept
<1>6. CASE StartFile
  <2>1. /\ started + 1 \in Files /\ worker[started + 1] = "none"
        /\ UNCHANGED <<done, total, n, printed, out, size>>
        /\ worker' = [worker EXCEPT ![started + 1] = "expand"]
    BY <1>6, BenchAssumption DEF StartFile, Files, BenchTypes, FilesKnow
  <2>2. ExpectedPart' = ExpectedPart
    BY <2>1 DEF ExpectedPart, BenchTypes
  <2>3. CountedPart' = CountedPart
    BY <2>1 DEF CountedPart, UnitsCounted, BenchTypes
  <2> QED
    BY <2>1, <2>2, <2>3, ProgressKept
<1>7. CASE Collect \/ UNCHANGED vars
  <2>1. UNCHANGED <<done, total, n, printed, out, size, worker>>
    BY <1>7 DEF Collect, vars
  <2> QED
    BY <2>1, ProgressKept DEF ExpectedPart, CountedPart, UnitsCounted
<1> QED
  BY <1>1, <1>2, <1>3, <1>4, <1>5, <1>6, <1>7 DEF Next, Main, Worker, Done

-------------------------------------------------------------------------------
(* The results                                                             *)

LEMMA ResultsInit == Init => ResultsPlaced
<1> SUFFICES ASSUME Init PROVE ResultsPlaced
  OBVIOUS
<1>1. Len(results) = 0 /\ collected = 0
  BY EmptySeq DEF Init
<1> QED
  BY <1>1 DEF ResultsPlaced

(* Before main collects there are no results; after that there are no      *)
(* goroutines.                                                             *)
LEMMA CollectingIsLast ==
  ASSUME BenchTypes, FilesKnow, ResultsPlaced
  PROVE  /\ collected = 0 => Len(results) = 0
         /\ collected > 0 => ~StartFile /\ \A f \in Files : ~Worker(f)
<1>1. ASSUME collected = 0 PROVE Len(results) = 0
  <2>1. Len(results) \in Nat /\ \A i \in 1 .. Len(results) : results[i] \in Rows
    BY LenProperties, ElementOfSeq DEF BenchTypes
  <2>2. \A i \in 1 .. Len(results) : results[i].file \in Files /\ results[i].file <= 0
    BY <1>1, <2>1 DEF ResultsPlaced, Rows
  <2> QED
    BY <2>1, <2>2 DEF Files
<1>2. ASSUME collected > 0 PROVE ~StartFile /\ \A f \in Files : ~Worker(f)
  <2>1. \A f \in Files : worker[f] = "left"
    BY <1>2 DEF ResultsPlaced
  <2>2. ~StartFile
    <3>1. NumFiles \in Files /\ started \in Nat
      BY BenchAssumption DEF Files, BenchTypes
    <3>2. worker[NumFiles] # "none"
      BY <2>1, <3>1
    <3> QED
      BY <3>1, <3>2, BenchAssumption DEF StartFile, FilesKnow
  <2> QED
    BY <2>1, <2>2 DEF Worker, Expand, RunUnit, CountUnit, PrintUnit, FinishFile, Release, Leave
<1> QED
  BY <1>1, <1>2

(* Collecting a file puts its results behind those of the files before it. *)
LEMMA CollectStep ==
  ASSUME BenchTypes, FilesKnow, TokensCount, ResultsPlaced, Collect
  PROVE  ResultsPlaced'
<1>0. PICK c \in Nat, g \in Nat, len \in Nat, k \in Nat :
        c = collected /\ g = c + 1 /\ len = Len(results) /\ k = Len(perFile[g])
  <2>1. collected \in Nat /\ collected + 1 \in Files /\ collected + 1 \in Nat
    BY BenchAssumption DEF Collect, BenchTypes, Files
  <2>2. Len(results) \in Nat /\ Len(perFile[collected + 1]) \in Nat
    BY <2>1, LenProperties DEF BenchTypes
  <2> QED
    BY <2>1, <2>2, Zenon
<1>1. /\ c < NumFiles /\ g \in Files /\ collected' = g /\ started = NumFiles /\ wg = 0
      /\ UNCHANGED <<perFile, worker>> /\ results' = results \o perFile[g]
  BY <1>0, BenchAssumption DEF Collect, BenchTypes, Files
<1>2. \A f \in Files : worker[f] = "left"
  BY <1>1, AllLeft
<1>3. /\ perFile[g] \in Seq(Rows) /\ results \in Seq(Rows)
      /\ \A i \in 1 .. len : results[i].file \in Nat /\ results[i].file <= c
  <2>1. /\ perFile[g] \in Seq(Rows) /\ results \in Seq(Rows)
        /\ \A i \in 1 .. len : results[i] \in Rows
    BY <1>0, <1>1, ElementOfSeq DEF BenchTypes
  <2>2. Files \subseteq Nat
    BY DEF Files
  <2> QED
    BY <1>0, <2>1, <2>2 DEF Rows, ResultsPlaced
<1>4. /\ Len(results') = len + k
      /\ \A i \in 1 .. len : results'[i] = results[i]
      /\ \A u \in 1 .. k : results'[len + u] = perFile[g][u]
  BY <1>0, <1>1, <1>3, ConcatProperties
<1>5. \A u \in 1 .. k : perFile[g][u] = [file |-> g, unit |-> u]
  BY <1>0, <1>1, <1>2 DEF FilesKnow
<1>6. \A u \in 1 .. k : results'[len + u].file = g /\ results'[len + u].unit = u
  <2> SUFFICES ASSUME NEW u \in 1 .. k
               PROVE  results'[len + u].file = g /\ results'[len + u].unit = u
    OBVIOUS
  <2>1. results'[len + u] = [file |-> g, unit |-> u]
    BY <1>4, <1>5
  <2> QED
    BY <2>1
<1>7. \A i \in 1 .. len + k : i \in 1 .. len \/ (i - len \in 1 .. k /\ i = len + (i - len))
  BY <1>3
<1>8. \A i \in 1 .. len + k : /\ i \in 1 .. len => results'[i] = results[i] /\ results'[i].file <= c
                              /\ i \notin 1 .. len => results'[i].file = g /\ results'[i].unit = i - len
  BY <1>3, <1>4, <1>6, <1>7
<1>9. \A i \in 1 .. len + k : results'[i].file <= g /\ results'[i].file \in Nat
  BY <1>0, <1>3, <1>8
<1>10. ASSUME NEW f \in 1 .. c, NEW o \in 0 .. len, Placed(f, o) PROVE Placed(f, o)'
  <2>1. perFile'[f] = perFile[f] /\ o + Len(perFile[f]) <= len /\ Len(perFile[f]) \in Nat
    <3>1. f \in Files
      BY <1>0, <1>1, BenchAssumption DEF Files
    <3> QED
      BY <1>0, <1>1, <1>10, <3>1, LenProperties DEF Placed, BenchTypes
  <2>2. \A i \in 1 .. len + k : /\ results'[i].file < f <=> i <= o
                                /\ results'[i].file <= f <=> i <= o + Len(perFile[f])
    <3> SUFFICES ASSUME NEW i \in 1 .. len + k
                 PROVE  /\ results'[i].file < f <=> i <= o
                        /\ results'[i].file <= f <=> i <= o + Len(perFile[f])
      OBVIOUS
    <3>1. CASE i \in 1 .. len
      BY <1>0, <1>8, <1>10, <3>1 DEF Placed
    <3>2. CASE i \notin 1 .. len
      BY <1>0, <1>3, <1>8, <2>1, <3>2
    <3> QED
      BY <3>1, <3>2
  <2>3. \A u \in 1 .. Len(perFile[f]) : results'[o + u] = perFile[f][u]
    <3> SUFFICES ASSUME NEW u \in 1 .. Len(perFile[f]) PROVE results'[o + u] = perFile[f][u]
      OBVIOUS
    <3>1. o + u \in 1 .. len
      BY <1>0, <2>1
    <3> QED
      BY <1>0, <1>4, <1>10, <3>1 DEF Placed
  <2> QED
    BY <1>0, <1>4, <2>1, <2>2, <2>3 DEF Placed
<1>11. Placed(g, len)'
  <2>1. \A i \in 1 .. len + k : results'[i].file < g <=> i <= len
    BY <1>0, <1>8, <1>9
  <2>2. \A i \in 1 .. len + k : results'[i].file <= g <=> i <= len + k
    BY <1>0, <1>9
  <2>3. perFile'[g] = perFile[g] /\ Len(perFile[g]) = k
    BY <1>0, <1>1
  <2> QED
    BY <1>0, <1>4, <2>1, <2>2, <2>3 DEF Placed
<1>12. \A f \in 1 .. g : \E o \in 0 .. Len(results') : Placed(f, o)'
  <2> SUFFICES ASSUME NEW f \in 1 .. g PROVE \E o \in 0 .. Len(results') : Placed(f, o)'
    OBVIOUS
  <2>1. CASE f = g
    BY <1>0, <1>4, <1>11, <2>1
  <2>2. CASE f # g
    <3>1. PICK o \in 0 .. len : Placed(f, o)
      BY <1>0, <2>2 DEF ResultsPlaced
    <3> QED
      BY <1>0, <1>4, <1>10, <2>2, <3>1
  <2> QED
    BY <2>1, <2>2
<1>13. ASSUME NEW i \in 1 .. len + k, NEW j \in 1 .. len + k, i < j
       PROVE  \/ results'[i].file < results'[j].file
              \/ results'[i].file = results'[j].file /\ results'[i].unit < results'[j].unit
  <2>1. CASE i \in 1 .. len /\ j \in 1 .. len
    BY <1>0, <1>8, <1>13, <2>1 DEF ResultsPlaced
  <2>2. CASE i \in 1 .. len /\ j \notin 1 .. len
    BY <1>0, <1>8, <1>9, <2>2
  <2>3. CASE i \notin 1 .. len
    <3>1. j \notin 1 .. len
      BY <1>13, <2>3
    <3> QED
      BY <1>8, <1>13, <2>3, <3>1
  <2> QED
    BY <2>1, <2>2, <2>3
<1> QED
  BY <1>1, <1>2, <1>4, <1>9, <1>12, <1>13 DEF ResultsPlaced

LEMMA ResultsStep ==
  ASSUME BenchTypes, FilesKnow, TokensCount, ResultsPlaced, [Next]_vars
  PROVE  ResultsPlaced'
<1>1. CASE Collect
  BY <1>1, CollectStep
<1>2. CASE UNCHANGED vars
  BY <1>2 DEF vars, ResultsPlaced, Placed
<1>3. CASE StartFile \/ \E f \in Files : Worker(f)
  <2>1. collected = 0 /\ Len(results) = 0
    BY <1>3, CollectingIsLast DEF BenchTypes
  <2>2. UNCHANGED <<collected, results>>
    BY <1>3, WorkerFrame DEF StartFile
  <2> QED
    BY <2>1, <2>2 DEF ResultsPlaced
<1> QED
  BY <1>1, <1>2, <1>3 DEF Next, Main, Done

-------------------------------------------------------------------------------

LEMMA InitBenchIInv == Init => BenchIInv
BY FilesInit, TokensInit, ProgressInit, ResultsInit DEF BenchIInv

LEMMA NextBenchIInv == BenchIInv /\ [Next]_vars => BenchIInv'
<1> SUFFICES ASSUME BenchIInv, [Next]_vars PROVE BenchIInv'
  OBVIOUS
<1>1. done \in Nat
  BY CountBelowTotal DEF BenchIInv
<1> QED
  BY <1>1, FilesStep, TokensStep, ProgressStep, ResultsStep DEF BenchIInv

LEMMA AlwaysBenchIInv == Spec => []BenchIInv
BY InitBenchIInv, NextBenchIInv, PTL DEF Spec

(* Once runAll has collected everything, every goroutine is gone and every *)
(* readable file's results are complete.                                   *)
LEMMA FinishedFiles ==
  ASSUME BenchIInv, Finished, NEW f \in Files
  PROVE  /\ worker[f] = "left" /\ perFile[f] = out[f] /\ Len(out[f]) \in Nat
         /\ size[f] # Unreadable => size[f] \in 0 .. MaxUnits /\ Len(out[f]) = size[f]
         /\ size[f] = Unreadable => Len(out[f]) = 0
         /\ \A u \in 1 .. Len(out[f]) : perFile[f][u] = [file |-> f, unit |-> u]
         /\ \E o \in 0 .. Len(results) : Placed(f, o)
<1>1. collected = NumFiles /\ collected > 0 /\ f \in 1 .. collected
  BY BenchAssumption DEF Finished, Files
<1>2. worker[f] = "left" /\ \E o \in 0 .. Len(results) : Placed(f, o)
  BY <1>1 DEF BenchIInv, ResultsPlaced
<1>3. Len(out[f]) \in Nat
  BY LenProperties DEF BenchIInv, BenchTypes
<1>4. size[f] = Unreadable => Len(out[f]) = 0
  BY EmptySeq DEF BenchIInv, FilesKnow
<1> QED
  BY <1>2, <1>3, <1>4 DEF BenchIInv, BenchTypes, FilesKnow

(* However the goroutines interleave, no progress line counts more than it *)
(* expects, and at the end everything was counted.                         *)
THEOREM ProgressCorrect == Spec => []ProgressSane
<1>1. BenchIInv => ProgressSane
  <2> SUFFICES ASSUME BenchIInv PROVE ProgressSane
    OBVIOUS
  <2>1. done <= total /\ printed.n <= printed.total
    BY CountBelowTotal DEF BenchIInv, ProgressCounts
  <2>2. ASSUME Finished PROVE done = total
    <3>1. ASSUME NEW f \in Files PROVE CountedPart[f] = ExpectedPart[f]
      <4>1. UnitsCounted(f) = Len(out[f])
        BY <2>2, FinishedFiles DEF UnitsCounted
      <4> QED
        BY <2>2, <4>1, FinishedFiles DEF CountedPart, ExpectedPart
    <3>2. CountedPart = ExpectedPart
      BY <3>1 DEF CountedPart, ExpectedPart
    <3> QED
      BY <3>2 DEF BenchIInv, ProgressCounts
  <2> QED
    BY <2>1, <2>2 DEF ProgressSane
<1> QED
  BY <1>1, AlwaysBenchIInv, PTL

(* runAll returns the results a sequential run would return: every unit of *)
(* every readable file once, in discovery order.                           *)
THEOREM ResultsCorrect == Spec => []ResultsAreSequential
<1>1. BenchIInv => ResultsAreSequential
  <2> SUFFICES ASSUME BenchIInv PROVE ResultsAreSequential
    OBVIOUS
  <2>1. ASSUME Finished
        PROVE  {results[i] : i \in 1 .. Len(results)} =
                 UNION {{[file |-> f, unit |-> u] : u \in 1 .. size[f]} : f \in Files}
    <3> DEFINE all == UNION {{[file |-> f, unit |-> u] : u \in 1 .. size[f]} : f \in Files}
    <3>1. Len(results) \in Nat
      BY LenProperties DEF BenchIInv, BenchTypes
    <3>2. ASSUME NEW i \in 1 .. Len(results) PROVE results[i] \in all
      <4>1. results[i] \in Rows
        BY ElementOfSeq DEF BenchIInv, BenchTypes
      <4>2. PICK f \in Files : f = results[i].file
        BY <4>1 DEF Rows
      <4>3. PICK o \in 0 .. Len(results) : Placed(f, o)
        BY <2>1, FinishedFiles
      <4>4. Len(perFile[f]) \in Nat /\ f \in Nat
        BY <2>1, FinishedFiles DEF Files
      <4>5. i - o \in 1 .. Len(perFile[f]) /\ results[o + (i - o)] = perFile[f][i - o]
        BY <3>1, <4>2, <4>3, <4>4 DEF Placed
      <4>6. results[i] = perFile[f][i - o]
        BY <3>1, <4>5
      <4>7. results[i] = [file |-> f, unit |-> i - o] /\ i - o \in 1 .. size[f]
        BY <2>1, <4>4, <4>5, <4>6, FinishedFiles
      <4> QED
        BY <4>7
    <3>3. ASSUME NEW f \in Files, NEW u \in 1 .. size[f]
          PROVE  \E i \in 1 .. Len(results) : results[i] = [file |-> f, unit |-> u]
      <4>1. PICK o \in 0 .. Len(results) : Placed(f, o)
        BY <2>1, FinishedFiles
      <4>2. u \in 1 .. Len(perFile[f])
        BY <2>1, <3>3, FinishedFiles DEF Unreadable
      <4>3. o + u \in 1 .. Len(results) /\ results[o + u] = perFile[f][u]
        BY <2>1, <3>1, <4>1, <4>2, FinishedFiles DEF Placed
      <4> QED
        BY <2>1, <4>2, <4>3, FinishedFiles
    <3>4. \A r \in all : \E i \in 1 .. Len(results) : r = results[i]
      BY <3>3
    <3> HIDE DEF all
    <3>5. {results[i] : i \in 1 .. Len(results)} = all
      BY <3>2, <3>4
    <3> QED
      BY <3>5 DEF all
  <2> QED
    BY <2>1 DEF BenchIInv, ResultsPlaced, ResultsAreSequential
<1> QED
  BY <1>1, AlwaysBenchIInv, PTL

-------------------------------------------------------------------------------
(* runAll implements the parallel map                                      *)

(* What main returns in a file's place is what its goroutine left there.   *)
LEMMA ReturnedIsPerFile ==
  (BenchIInv /\ Finished) => \A f \in Files : ResultsOf(f) = perFile[f]
<1> SUFFICES ASSUME BenchIInv, Finished, NEW f \in Files PROVE ResultsOf(f) = perFile[f]
  OBVIOUS
<1>1. PICK o \in 0 .. Len(results) : Placed(f, o)
  BY FinishedFiles
<1>2. PICK k \in Nat : k = Len(perFile[f])
  BY FinishedFiles
<1>3. /\ Len(results) \in Nat /\ o \in Nat /\ o + k <= Len(results) /\ perFile[f] \in Seq(Rows)
      /\ \A i \in 1 .. Len(results) : results[i] \in Rows
  BY <1>1, <1>2, LenProperties, ElementOfSeq DEF BenchIInv, BenchTypes, Placed
<1>4. /\ {i \in 1 .. Len(results) : results[i].file < f} = 1 .. o
      /\ {i \in 1 .. Len(results) : results[i].file <= f} = 1 .. o + k
  BY <1>1, <1>2, <1>3 DEF Placed
<1>5. ResultsOf(f) = SubSeq(results, o + 1, o + k)
  <2>1. Cardinality(1 .. o) = o /\ Cardinality(1 .. o + k) = o + k
    BY <1>3, CountUpTo
  <2> QED
    BY <1>4, <2>1, Zenon DEF ResultsOf
<1>6. \A i \in o + 1 .. o + k : results[i] \in Rows
  BY <1>3
<1>7. /\ ResultsOf(f) \in Seq(Rows)
      /\ Len(ResultsOf(f)) = IF o + 1 <= o + k THEN o + k - (o + 1) + 1 ELSE 0
      /\ \A u \in 1 .. (o + k) - (o + 1) + 1 : ResultsOf(f)[u] = results[o + 1 + u - 1]
  BY <1>3, <1>5, <1>6, SubSeqProperties
<1>8. Len(ResultsOf(f)) = k
  BY <1>2, <1>3, <1>7
<1>9. \A u \in 1 .. k : ResultsOf(f)[u] = perFile[f][u]
  <2> SUFFICES ASSUME NEW u \in 1 .. k PROVE ResultsOf(f)[u] = perFile[f][u]
    OBVIOUS
  <2>1. (o + k) - (o + 1) + 1 = k /\ o + 1 + u - 1 = o + u
    BY <1>3
  <2>2. ResultsOf(f)[u] = results[o + u]
    BY <1>7, <2>1
  <2> QED
    BY <1>1, <1>2, <2>2 DEF Placed
<1> QED
  BY <1>2, <1>3, <1>7, <1>8, <1>9, SeqEqual

LEMMA MapInit == Init => Map!Init
<1> SUFFICES ASSUME Init PROVE Map!Init
  OBVIOUS
<1>1. {f \in Files : Working(f)} = {} /\ {f \in Files : Released(f)} = {}
  BY DEF Init, Working, Released
<1>2. ~Finished
  BY BenchAssumption DEF Init, Finished
<1> QED
  BY <1>1, <1>2, BenchAssumption DEF Map!Init, Map!Nothing

(* The files that are through, with what they gave, and the answer.        *)
Through == {f \in Files : Released(f)}
Value   == [f \in Through |-> perFile[f]]
Answer  == [f \in {f \in Files : Finished} |-> ResultsOf(f)]

(* Where the map does not look, nothing it can see changes.                *)
LEMMA MapStutters ==
  ASSUME Holders' = Holders, Through' = Through, \A f \in Through : perFile'[f] = perFile[f],
         Finished' = Finished, UNCHANGED results
  PROVE  UNCHANGED (Map!vars)
<1>1. Value' = Value
  BY DEF Value
<1>2. Answer' = Answer
  BY DEF Answer, ResultsOf
<1> QED
  BY <1>1, <1>2 DEF Map!vars, Holders, Through, Value, Answer

LEMMA MapStep == BenchIInv /\ BenchIInv' /\ [Next]_vars => [Map!Next]_(Map!vars)
<1> SUFFICES ASSUME BenchIInv, BenchIInv', [Next]_vars PROVE [Map!Next]_(Map!vars)
  OBVIOUS
<1> USE DEF BenchIInv
<1>1. CASE StartFile
  <2>1. /\ started + 1 \in Files /\ worker[started + 1] = "none" /\ sem < parallelism
        /\ worker' = [worker EXCEPT ![started + 1] = "expand"]
        /\ UNCHANGED <<perFile, results, collected>>
    BY <1>1, BenchAssumption DEF StartFile, Files, BenchTypes, FilesKnow
  <2>2. /\ Holders' = Holders \cup {started + 1} /\ Through' = Through
        /\ started + 1 \notin Holders /\ started + 1 \notin Through
    BY <2>1 DEF Holders, Through, Working, Released, BenchTypes
  <2>3. Map!Cardinality(Holders) < parallelism
    <3>1. Map!Cardinality(Holders) = Cardinality(Holders)
      BY DEF Map!Cardinality, Map!IsFiniteSet, Cardinality, IsFiniteSet
    <3> QED
      BY <2>1, <3>1 DEF TokensCount, Holders
  <2>4. Value' = Value /\ DOMAIN Value = Through
    BY <2>1, <2>2 DEF Value
  <2>5. Finished' = Finished /\ Answer' = Answer
    BY <2>1 DEF Finished, Answer, ResultsOf
  <2>6. Map!Start(started + 1)
    BY <2>2, <2>3, <2>4, <2>5, Zenon DEF Map!Start, Holders, Through, Value, Answer
  <2> QED
    BY <2>1, <2>6 DEF Map!Next, Map!Items, Files
<1>2. ASSUME NEW f \in Files, Release(f) PROVE Map!Next
  <2>1. /\ worker[f] = "release" /\ worker' = [worker EXCEPT ![f] = "leave"]
        /\ UNCHANGED <<perFile, results, collected>>
    BY <1>2 DEF Release
  <2>2. /\ f \in Holders /\ Holders' = Holders \ {f} /\ Through' = Through \cup {f}
    BY <2>1 DEF Holders, Through, Working, Released, BenchTypes
  <2>3. /\ DOMAIN Value' = DOMAIN Value \cup {f}
        /\ \A h \in DOMAIN Value : Value'[h] = Value[h]
    BY <2>1, <2>2 DEF Value
  <2>4. Finished' = Finished /\ Answer' = Answer
    BY <2>1 DEF Finished, Answer, ResultsOf
  <2>5. Map!Finish(f)
    BY <2>2, <2>3, <2>4 DEF Map!Finish, Holders, Through, Value, Answer
  <2> QED
    BY <2>5 DEF Map!Next, Map!Items, Files
<1>3. CASE Collect
  <2>1. /\ UNCHANGED <<worker, perFile>> /\ collected' = collected + 1 /\ collected < NumFiles
        /\ \A f \in Files : worker[f] = "left"
    BY <1>3, AllLeft DEF Collect
  <2>2. Holders' = Holders /\ Through' = Through /\ Through = Files /\ Value' = Value
    BY <2>1 DEF Holders, Through, Value, Working, Released
  <2>3. ~Finished
    BY <2>1, BenchAssumption DEF Finished, BenchTypes
  <2>4. CASE ~Finished'
    <3>1. Answer' = Answer
      BY <2>3, <2>4 DEF Answer
    <3>2. Finished' = Finished
      BY <2>3, <2>4 DEF Finished
    <3> QED
      BY <2>2, <3>1, <3>2, Zenon DEF Map!vars, Holders, Through, Value, Answer
  <2>5. CASE Finished'
    <3>1. \A f \in Files : ResultsOf(f)' = perFile'[f]
      <4>1. (BenchIInv /\ Finished)' => (\A f \in Files : ResultsOf(f) = perFile[f])'
        BY ReturnedIsPerFile, PTL
      <4> QED
        BY <2>5, <4>1
    <3>2. Answer' = Value
      BY <2>1, <2>2, <2>5, <3>1 DEF Answer, Value
    <3>3. DOMAIN Value = Files
      BY <2>2 DEF Value
    <3>4. Map!Return
      BY <2>2, <2>3, <2>5, <3>2, <3>3 DEF Map!Return, Map!Items, Files, Holders, Through, Value, Answer
    <3> QED
      BY <3>4 DEF Map!Next
  <2> QED
    BY <2>4, <2>5
<1>4. ASSUME NEW f \in Files,
             Expand(f) \/ RunUnit(f) \/ CountUnit(f) \/ PrintUnit(f) \/ FinishFile(f) \/ Leave(f)
      PROVE  UNCHANGED (Map!vars)
  <2>1. /\ UNCHANGED <<collected, results>>
        /\ \A h \in Files : h # f => perFile'[h] = perFile[h] /\ worker'[h] = worker[h]
        /\ worker[f] # "leave" => /\ worker[f] \in {"expand", "run", "count", "print"}
                                  /\ worker'[f] \in {"run", "count", "print", "release"}
        /\ worker[f] = "leave" => worker'[f] = "left" /\ perFile' = perFile
    BY <1>4 DEF Expand, RunUnit, CountUnit, PrintUnit, FinishFile, Leave, BenchTypes
  <2>2. Holders' = Holders /\ Through' = Through
    BY <2>1 DEF Holders, Through, Working, Released
  <2>3. \A h \in Through : perFile'[h] = perFile[h]
    BY <2>1 DEF Through, Released
  <2> QED
    BY <2>1, <2>2, <2>3, MapStutters DEF Finished
<1>5. CASE UNCHANGED vars
  BY <1>5, MapStutters DEF vars, Holders, Through, Working, Released, Finished
<1> QED
  BY <1>1, <1>2, <1>3, <1>4, <1>5 DEF Next, Main, Worker, Done

(* runAll handles every file once, never more than `parallelism' at a time,*)
(* and returns each file's results in its place once all are through.      *)
THEOREM RunAllIsParallelMap == Spec => ImplementsParallelMap
BY MapInit, MapStep, AlwaysBenchIInv, PTL DEF Spec, ImplementsParallelMap, Map!Spec
===============================================================================
