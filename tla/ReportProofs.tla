----------------------------- MODULE ReportProofs -----------------------------
(***************************************************************************)
(* Proofs about the reports of bench, for every run and every sequence of  *)
(* a reader's clicks.                                                      *)
(***************************************************************************)
EXTENDS ReportPage, SliceProofs

(* t is the units I of all the rows, put in order as s had them: each once *)
(* and known by its number; and if R is an order the rows are sorted by it,*)
(* ties as the run had them.                                               *)
Selects(t, s, I, R) ==
  /\ t \in Seq(RowType) /\ s \in Seq(RowType)
  /\ Len(t) = Cardinality(I) /\ Len(t) = Len(s) /\ IsFiniteSet(I)
  /\ IdsOf(t) = I /\ Range(t) = Range(s)
  /\ \A k \in 1 .. Len(t) : t[k] = all[t[k].id] /\ t[k].id \in I
  /\ IsLess(R, Range(s)) => \A i, j \in 1 .. Len(t) : i < j =>
       /\ <<t[j], t[i]>> \notin R
       /\ <<t[i], t[j]>> \in R \/ t[i].id < t[j].id

(* Filtering the units by a test and sorting them selects those that pass  *)
(* it.                                                                     *)
LEMMA SortedSelects ==
  ASSUME RowsKnow, NEW T, NEW R
  PROVE  Selects(SortedBy(R, Kept(all, T)), Kept(all, T),
                 {i \in 1 .. Len(all) : all[i] \in T}, R)
<1> DEFINE s == Kept(all, T)
           t == SortedBy(R, s)
           I == {i \in 1 .. Len(all) : all[i] \in T}
           m == Len(s)
<1>0. all \in Seq(RowType) /\ \A i \in DOMAIN all : all[i].id = i
  BY DEF RowsKnow
<1>1. s \in Seq(RowType)
  BY <1>0, KeptPicks
<1>2. PICK ix : /\ Enumerates(ix, m, I)
                /\ \A k \in 1 .. m : s[k] = all[ix[k]]
                /\ \A i, j \in 1 .. m : i < j => ix[i] < ix[j]
  BY <1>0, KeptCount
<1>3. m = Cardinality(I) /\ IsFiniteSet(I)
  BY <1>0, KeptCount
<1>4. s \in Seq(Range(s))
  BY <1>1, SeqOfRange
<1>5. t \in Seq(RowType) /\ Len(t) = m /\ m \in Nat
  BY <1>1, SortedArranges
<1>6. PICK p : Arranges(p, t, s, m) /\ (IsLess(R, Range(s)) => InOrder(R, p, t, m))
  BY <1>4, SortedArranges
<1>7. Len(all) \in Nat /\ DOMAIN all = 1 .. Len(all)
  BY <1>0, LenProperties
<1>8. /\ \A k \in 1 .. m : ix[k] \in I
      /\ \A i \in I : \E k \in 1 .. m : ix[k] = i
  BY <1>2 DEF Enumerates
<1>9. /\ \A k \in 1 .. m : p[k] \in 1 .. m /\ t[k] = s[p[k]]
      /\ \A i \in 1 .. m : \E k \in 1 .. m : p[k] = i
  BY <1>6 DEF Arranges
<1>10. \A i \in I : i \in DOMAIN all /\ all[i] \in T
  BY <1>7
<1>11. DOMAIN t = 1 .. m
  BY <1>5, LenProperties
<1> HIDE DEF s, t, I, m
<1>12. \A k \in 1 .. m : t[k].id = ix[p[k]] /\ t[k] = all[ix[p[k]]] /\ ix[p[k]] \in I
  <2> SUFFICES ASSUME NEW k \in 1 .. m
               PROVE  t[k].id = ix[p[k]] /\ t[k] = all[ix[p[k]]] /\ ix[p[k]] \in I
    OBVIOUS
  <2>1. p[k] \in 1 .. m /\ t[k] = s[p[k]]
    BY <1>9
  <2>2. s[p[k]] = all[ix[p[k]]] /\ ix[p[k]] \in I
    BY <1>2, <1>8, <2>1
  <2>3. all[ix[p[k]]].id = ix[p[k]]
    BY <1>0, <1>10, <2>2
  <2> QED
    BY <2>1, <2>2, <2>3
<1>13. IdsOf(t) = I
  <2>1. \A k \in DOMAIN t : t[k].id \in I
    BY <1>11, <1>12
  <2>2. ASSUME NEW i \in I PROVE \E k \in DOMAIN t : t[k].id = i
    <3>1. PICK l \in 1 .. m : ix[l] = i
      BY <1>8
    <3>2. PICK k \in 1 .. m : p[k] = l
      BY <1>9
    <3> QED
      BY <1>11, <1>12, <3>1, <3>2
  <2> QED
    BY <2>1, <2>2 DEF IdsOf
<1>14. \A k \in 1 .. m : t[k] = all[t[k].id] /\ t[k].id \in I
  BY <1>10, <1>12
<1>15. ASSUME IsLess(R, Range(s)), NEW i \in 1 .. m, NEW j \in 1 .. m, i < j
       PROVE  <<t[j], t[i]>> \notin R /\ (<<t[i], t[j]>> \in R \/ t[i].id < t[j].id)
  <2>1. <<t[j], t[i]>> \notin R /\ (<<t[i], t[j]>> \in R \/ p[i] < p[j])
    BY <1>6, <1>15 DEF InOrder
  <2>2. p[i] < p[j] => t[i].id < t[j].id
    <3>1. p[i] \in 1 .. m /\ p[j] \in 1 .. m
      BY <1>9
    <3>2. p[i] < p[j] => ix[p[i]] < ix[p[j]]
      BY <1>2, <3>1
    <3>3. t[i].id = ix[p[i]] /\ t[j].id = ix[p[j]]
      BY <1>12
    <3> QED
      BY <3>2, <3>3
  <2> QED
    BY <2>1, <2>2
<1>16. Len(t) = m
  BY <1>5
<1>17. Range(t) = Range(s)
  <2>1. DOMAIN s = 1 .. m
    BY <1>1, LenProperties DEF m
  <2>2. \A k \in DOMAIN t : \E i \in DOMAIN s : t[k] = s[i]
    BY <1>9, <1>11, <2>1
  <2>3. ASSUME NEW i \in DOMAIN s PROVE \E k \in DOMAIN t : s[i] = t[k]
    <3>1. PICK k \in 1 .. m : p[k] = i
      BY <1>9, <2>1
    <3>2. t[k] = s[i] /\ k \in DOMAIN t
      BY <1>9, <1>11, <3>1
    <3> QED
      BY <3>2
  <2> QED
    BY <2>2, <2>3 DEF Range
<1>18. Selects(t, s, I, R)
  BY <1>1, <1>3, <1>5, <1>13, <1>14, <1>15, <1>16, <1>17 DEF Selects, m
<1> QED
  BY <1>18 DEF s, t, I

-------------------------------------------------------------------------------
(* Tables                                                                  *)

(* The units of some verdicts.                                             *)
OfVerdict(V) == {i \in 1 .. Len(all) : all[i].verdict \in V}

(* The same for the units of some verdicts, as main splits them.           *)
LEMMA Chosen ==
  ASSUME RowsKnow, NEW V, NEW R
  PROVE  Selects(SortedBy(R, Of(all, V)), Of(all, V), OfVerdict(V), R)
<1> DEFINE T == {x \in Range(all) : x.verdict \in V}
<1>1. Of(all, V) = Kept(all, T)
  BY DEF Of, Filter
<1>2. \A i \in 1 .. Len(all) : all[i] \in Range(all)
  BY LenProperties DEF Range, RowsKnow
<1>3. {i \in 1 .. Len(all) : all[i] \in T} = OfVerdict(V)
  BY <1>2 DEF OfVerdict
<1> HIDE DEF T
<1>4. Selects(SortedBy(R, Kept(all, T)), Kept(all, T), {i \in 1 .. Len(all) : all[i] \in T}, R)
  BY SortedSelects
<1> QED
  BY <1>1, <1>3, <1>4, Zenon

(* The units are known by their places in all.                             *)
LEMMA UnitsAreNumbered ==
  ASSUME RowsKnow
  PROVE  /\ Len(all) \in Nat /\ DOMAIN all = 1 .. Len(all) /\ IdsOf(all) = 1 .. Len(all)
         /\ \A i \in 1 .. Len(all) : all[i] \in RowType
<1>1. all \in Seq(RowType) /\ \A i \in DOMAIN all : all[i].id = i
  BY DEF RowsKnow
<1>2. Len(all) \in Nat /\ DOMAIN all = 1 .. Len(all)
  BY <1>1, LenProperties
<1>3. \A i \in 1 .. Len(all) : all[i] \in RowType
  BY <1>1, ElementOfSeq
<1>4. IdsOf(all) = 1 .. Len(all)
  BY <1>1, <1>2 DEF IdsOf
<1> QED
  BY <1>2, <1>3, <1>4

(* Every unit is measured, in error or skipped, and one of these only.     *)
LEMMA VerdictsPartition ==
  ASSUME RowsKnow
  PROVE  LET M == OfVerdict(Measured)
             E == OfVerdict({"error"})
             S == OfVerdict({"skip"})
         IN /\ M \cup E \cup S = 1 .. Len(all)
            /\ Cardinality(M) + Cardinality(E) + Cardinality(S) = Len(all)
<1> DEFINE M == OfVerdict(Measured)
           E == OfVerdict({"error"})
           S == OfVerdict({"skip"})
<1>1. \A i \in 1 .. Len(all) :
        all[i].verdict \in {"pass", "fail", "unverified", "skip", "error"}
  BY UnitsAreNumbered DEF RowType
<1>2. M \cup E \cup S = 1 .. Len(all)
  BY <1>1 DEF OfVerdict, Measured
<1>3. M \cap E = {} /\ (M \cup E) \cap S = {}
  BY DEF OfVerdict, Measured
<1>4. IsFiniteSet(M) /\ IsFiniteSet(E) /\ IsFiniteSet(S)
  BY Chosen DEF Selects
<1>5. Len(all) \in Nat
  BY UnitsAreNumbered
<1> HIDE DEF M, E, S
<1>6. /\ Cardinality(M) \in Nat /\ Cardinality(E) \in Nat /\ Cardinality(S) \in Nat
      /\ Cardinality({}) = 0
  BY <1>4, FS_CardinalityType, FS_EmptySet
<1>7. IsFiniteSet(M \cup E) /\ Cardinality(M \cup E) = Cardinality(M) + Cardinality(E)
  <2>1. /\ IsFiniteSet(M \cup E)
        /\ Cardinality(M \cup E) = Cardinality(M) + Cardinality(E) - Cardinality(M \cap E)
    BY <1>4, FS_Union
  <2>2. Cardinality(M \cap E) = 0
    BY <1>3, <1>6, Zenon
  <2> QED
    BY <1>6, <2>1, <2>2
<1>8. Cardinality(M \cup E \cup S) = Cardinality(M \cup E) + Cardinality(S)
  <2>1. Cardinality(M \cup E \cup S)
          = Cardinality(M \cup E) + Cardinality(S) - Cardinality((M \cup E) \cap S)
    BY <1>4, <1>7, FS_Union
  <2>2. Cardinality((M \cup E) \cap S) = 0
    BY <1>3, <1>6, Zenon
  <2> QED
    BY <1>6, <1>7, <2>1, <2>2
<1>9. Cardinality(1 .. Len(all)) = Len(all)
  <2>1. Cardinality(1 .. Len(all)) = IF 1 > Len(all) THEN 0 ELSE Len(all) - 1 + 1
    BY <1>5, FS_Interval
  <2> QED
    BY <1>5, <2>1
<1> QED
  BY <1>2, <1>6, <1>7, <1>8, <1>9 DEF M, E, S

(* The rows of s that a test lets pass.                                    *)
LEMMA KeptRows ==
  ASSUME NEW s \in Seq(RowType), NEW T
  PROVE  LET I == {i \in 1 .. Len(s) : s[i] \in T} IN
           /\ Kept(s, T) \in Seq(RowType) /\ IsFiniteSet(I)
           /\ Len(Kept(s, T)) = Cardinality(I) /\ Len(Kept(s, T)) \in Nat
           /\ IdsOf(Kept(s, T)) = {s[i].id : i \in I}
<1> DEFINE I == {i \in 1 .. Len(s) : s[i] \in T}
           K == Kept(s, T)
<1>1. K \in Seq(RowType)
  BY KeptPicks
<1>2. Len(K) \in Nat /\ DOMAIN K = 1 .. Len(K)
  BY <1>1, LenProperties
<1>3. PICK ix : /\ Enumerates(ix, Len(K), I)
                /\ \A k \in 1 .. Len(K) : K[k] = s[ix[k]]
                /\ \A i, j \in 1 .. Len(K) : i < j => ix[i] < ix[j]
  BY KeptCount
<1>4. Len(K) = Cardinality(I) /\ IsFiniteSet(I)
  BY KeptCount
<1>5. /\ \A k \in 1 .. Len(K) : ix[k] \in I
      /\ \A i \in I : \E k \in 1 .. Len(K) : ix[k] = i
  BY <1>3 DEF Enumerates
<1> HIDE DEF I, K
<1>6. IdsOf(K) = {s[i].id : i \in I}
  BY <1>2, <1>3, <1>5 DEF IdsOf
<1> QED
  BY <1>1, <1>2, <1>4, <1>6 DEF I, K

(* With gas and without, the rows of s are together all of them.           *)
LEMMA GasPartition ==
  ASSUME NEW s \in Seq(RowType)
  PROVE  LET W == {i \in 1 .. Len(s) : s[i].gas > 0}
             E == {i \in 1 .. Len(s) : s[i].gas = 0}
         IN /\ Worked(s) \in Seq(RowType) /\ Empty(s) \in Seq(RowType)
            /\ Len(Worked(s)) = Cardinality(W) /\ Len(Empty(s)) = Cardinality(E)
            /\ Len(Worked(s)) \in Nat /\ Len(Empty(s)) \in Nat
            /\ Len(Worked(s)) + Len(Empty(s)) = Len(s)
            /\ IdsOf(Worked(s)) \cup IdsOf(Empty(s)) = IdsOf(s)
<1> DEFINE n  == Len(s)
           W  == {i \in 1 .. n : s[i].gas > 0}
           E  == {i \in 1 .. n : s[i].gas = 0}
           TW == {r \in Range(s) : r.gas > 0}
           TE == {r \in Range(s) : r.gas = 0}
<1>1. n \in Nat /\ DOMAIN s = 1 .. n
  BY LenProperties
<1>2. \A i \in 1 .. n : s[i] \in Range(s) /\ s[i].gas \in Nat
  <2>1. \A i \in 1 .. n : s[i] \in Range(s)
    BY <1>1 DEF Range
  <2>2. \A i \in 1 .. n : s[i] \in RowType
    BY ElementOfSeq
  <2> QED
    BY <2>1, <2>2 DEF RowType
<1>3. Worked(s) = Kept(s, TW) /\ Empty(s) = Kept(s, TE)
  BY DEF Worked, Empty, Filter
<1>4. W = {i \in 1 .. n : s[i] \in TW} /\ E = {i \in 1 .. n : s[i] \in TE}
  BY <1>2
<1>5. W \cup E = 1 .. n /\ W \cap E = {}
  BY <1>2
<1> HIDE DEF TW, TE
<1>6. /\ Kept(s, TW) \in Seq(RowType) /\ Kept(s, TE) \in Seq(RowType)
      /\ Len(Kept(s, TW)) = Cardinality(W) /\ Len(Kept(s, TE)) = Cardinality(E)
      /\ Len(Kept(s, TW)) \in Nat /\ Len(Kept(s, TE)) \in Nat
      /\ IsFiniteSet(W) /\ IsFiniteSet(E)
      /\ IdsOf(Kept(s, TW)) = {s[i].id : i \in W}
      /\ IdsOf(Kept(s, TE)) = {s[i].id : i \in E}
  <2> HIDE DEF W, E
  <2> QED
    BY <1>4, KeptRows, Zenon DEF n
<1>7. IdsOf(s) = {s[i].id : i \in 1 .. n}
  BY <1>1 DEF IdsOf
<1> HIDE DEF n, W, E
<1>8. Cardinality(W) + Cardinality(E) = n
  <2>1. Cardinality(W \cup E) = Cardinality(W) + Cardinality(E) - Cardinality(W \cap E)
    BY <1>6, FS_Union
  <2>2. Cardinality(W \cap E) = 0
    BY <1>5, FS_EmptySet, Zenon
  <2>3. Cardinality(1 .. n) = n
    BY <1>1, FS_Interval
  <2>4. Cardinality(W \cup E) = n
    BY <1>5, <2>3, Zenon
  <2>5. Cardinality(W) \in Nat /\ Cardinality(E) \in Nat
    BY <1>6, FS_CardinalityType
  <2> QED
    BY <2>1, <2>2, <2>4, <2>5
<1>9. {s[i].id : i \in W} \cup {s[i].id : i \in E} = {s[i].id : i \in 1 .. n}
  BY <1>5
<1>10. /\ Worked(s) \in Seq(RowType) /\ Empty(s) \in Seq(RowType)
       /\ Len(Worked(s)) = Cardinality(W) /\ Len(Empty(s)) = Cardinality(E)
       /\ Len(Worked(s)) \in Nat /\ Len(Empty(s)) \in Nat
       /\ IdsOf(Worked(s)) = {s[i].id : i \in W}
       /\ IdsOf(Empty(s)) = {s[i].id : i \in E}
  BY <1>3, <1>6, Zenon
<1>11. /\ Len(Worked(s)) + Len(Empty(s)) = n
       /\ IdsOf(Worked(s)) \cup IdsOf(Empty(s)) = IdsOf(s)
  BY <1>7, <1>8, <1>9, <1>10
<1> QED
  BY <1>10, <1>11 DEF n, W, E

(* However sortResults leaves the measured units, they are all there once. *)
LEMMA GoodSelects ==
  ASSUME RowsKnow, NEW t \in SortedResults(Of(all, Measured))
  PROVE  /\ t \in Seq(RowType) /\ Len(t) = Cardinality(OfVerdict(Measured))
         /\ IdsOf(t) = OfVerdict(Measured) /\ Range(t) = Range(Of(all, Measured))
         /\ Range(t) \subseteq Range(all)
<1> DEFINE s == Of(all, Measured)
           u == SortedBy({}, s)
<1>0. Range(s) \subseteq Range(all)
  <2>1. Selects(u, s, OfVerdict(Measured), {})
    BY Chosen
  <2>2. /\ Range(u) = Range(s) /\ u \in Seq(RowType)
        /\ \A k \in 1 .. Len(u) : u[k] = all[u[k].id] /\ u[k].id \in OfVerdict(Measured)
    BY <2>1 DEF Selects
  <2> HIDE DEF s, u
  <2>3. \A k \in DOMAIN u : u[k] = all[u[k].id] /\ u[k].id \in DOMAIN all
    BY <2>2, LenProperties, UnitsAreNumbered DEF OfVerdict
  <2>4. ASSUME NEW k \in DOMAIN u PROVE u[k] \in Range(all)
    BY <2>3 DEF Range
  <2>5. Range(u) \subseteq Range(all)
    BY <2>4 DEF Range
  <2> QED
    BY <2>2, <2>5
<1>1. CASE OneKind(s)
  <2>1. t = SliceStable(Less, s)
    BY <1>1 DEF SortedResults
  <2> QED
    BY <1>0, <2>1, Chosen DEF SliceStable, Selects
<1>2. CASE ~OneKind(s)
  <2>1. t \in [DOMAIN s -> Range(s)] /\ Range(t) = Range(s)
    BY <1>2 DEF SortedResults
  <2>2. Selects(u, s, OfVerdict(Measured), {})
    BY Chosen
  <2>3. /\ u \in Seq(RowType) /\ s \in Seq(RowType) /\ Len(u) = Cardinality(OfVerdict(Measured))
        /\ Len(u) = Len(s) /\ IdsOf(u) = OfVerdict(Measured) /\ Range(u) = Range(s)
    BY <2>2 DEF Selects
  <2> HIDE DEF s, u
  <2>4. Len(s) \in Nat /\ DOMAIN s = 1 .. Len(s) /\ \A k \in 1 .. Len(s) : s[k] \in RowType
    BY <2>3, LenProperties, ElementOfSeq
  <2>5. Range(s) \subseteq RowType
    BY <2>4 DEF Range
  <2>6. t \in Seq(RowType) /\ Len(t) = Len(s)
    <3>1. t \in [1 .. Len(s) -> RowType]
      BY <2>1, <2>4, <2>5
    <3> QED
      BY <2>4, <3>1, FunctionIsSeq
  <2>7. ASSUME NEW x PROVE IdsOf(x) = {r.id : r \in Range(x)}
    BY DEF IdsOf, Range
  <2>8. IdsOf(t) = IdsOf(u)
    BY <2>1, <2>3, <2>7
  <2> QED
    BY <1>0, <2>1, <2>3, <2>6, <2>8 DEF s
<1> QED
  BY <1>1, <1>2

(* What main knows of the units it measured.                               *)
LEMMA GoodKnown ==
  ASSUME RowsKnow, MainKnows
  PROVE  /\ good \in Seq(RowType) /\ Len(good) \in Nat /\ DOMAIN good = 1 .. Len(good)
         /\ \A i \in 1 .. Len(good) : good[i] \in RowType
<1>1. good \in Seq(RowType)
  <2>1. CASE Blank
    BY <2>1, EmptySeq DEF Blank
  <2>2. CASE good \in SortedResults(Of(all, Measured))
    BY <2>2, GoodSelects
  <2> QED
    BY <2>1, <2>2 DEF MainKnows
<1> QED
  BY <1>1, LenProperties, ElementOfSeq

(* writeReport's tests of a row are tests of its verdict.                  *)
LEMMA SideTablesAre ==
  ASSUME RowsKnow
  PROVE  /\ SideTables.failures = ByUnit(Of(all, {"fail"}))
         /\ SideTables.errors = ByUnit(Of(all, {"error"}))
         /\ SideTables.skips = ByUnit(Of(all, {"skip"}))
         /\ SideTables.unverified = ByUnit(Of(all, {"unverified"}))
         /\ SideTables.execFailed
              = ByUnit(Kept(all, {x \in Range(all) : x.err = "nil" /\ x.execErr /\ x.validationOK}))
<1>1. \A x \in Range(all) : RowAgrees(x)
  BY DEF RowsKnow, Range
<1>2. /\ {x \in Range(all) : x.err = "nil" /\ x.verdict = "fail"}
           = {x \in Range(all) : x.verdict \in {"fail"}}
      /\ {x \in Range(all) : x.err # "nil"} = {x \in Range(all) : x.verdict \in {"error"}}
  BY <1>1 DEF RowAgrees
<1>3. /\ Filter(all, LAMBDA r : r.err = "nil" /\ r.verdict = "fail") = Of(all, {"fail"})
      /\ Filter(all, LAMBDA r : r.err # "nil") = Of(all, {"error"})
  BY <1>2, Zenon DEF Filter, Of
<1> QED
  BY <1>3 DEF SideTables, Filter

(* The page's tables of measured, failed and skipped units partition the   *)
(* run.                                                                    *)
LEMMA PageTables ==
  ASSUME RowsKnow, MainKnows, page.written
  PROVE  LET side    == page.side
             special == <<side.failures, side.unverified, side.execFailed>>
         IN /\ Len(page.raw) + Len(side.errors) + Len(side.skips) = Len(all)
            /\ IdsOf(page.raw) \cup IdsOf(side.errors) \cup IdsOf(side.skips) = IdsOf(all)
            /\ \A k \in DOMAIN special :
                 /\ IdsOf(special[k]) \subseteq IdsOf(page.raw)
                 /\ \A l \in DOMAIN special \ {k} : IdsOf(special[k]) \cap IdsOf(special[l]) = {}
            /\ tally = [failures |-> Len(side.failures), unverified |-> Len(side.unverified),
                        skipped |-> Len(side.skips)]
<1>1. page # NoPage
  BY DEF NoPage
<1>2. /\ good \in SortedResults(Of(all, Measured)) /\ tally = Tally
      /\ page.raw = good /\ page.side = SideTables
  BY <1>1 DEF MainKnows, Blank, ReportData
<1> DEFINE execSet    == {x \in Range(all) : x.err = "nil" /\ x.execErr /\ x.validationOK}
           execFailed == ByUnit(Kept(all, execSet))
           failures   == ByUnit(Of(all, {"fail"}))
           unverified == ByUnit(Of(all, {"unverified"}))
           errors     == ByUnit(Of(all, {"error"}))
           skips      == ByUnit(Of(all, {"skip"}))
           X          == {i \in 1 .. Len(all) : all[i] \in execSet}
<1>3. /\ page.side.execFailed = execFailed /\ page.side.failures = failures
      /\ page.side.unverified = unverified /\ page.side.errors = errors
      /\ page.side.skips = skips
  BY <1>2, SideTablesAre
<1>4. Len(good) = Cardinality(OfVerdict(Measured)) /\ IdsOf(good) = OfVerdict(Measured)
  BY <1>2, GoodSelects
<1>5. /\ Len(errors) = Cardinality(OfVerdict({"error"})) /\ IdsOf(errors) = OfVerdict({"error"})
      /\ Len(skips) = Cardinality(OfVerdict({"skip"})) /\ IdsOf(skips) = OfVerdict({"skip"})
      /\ Len(skips) = Len(Of(all, {"skip"}))
  BY Chosen DEF ByUnit, SliceStable, Selects
<1>6. /\ IdsOf(failures) = OfVerdict({"fail"}) /\ Len(failures) = Len(Of(all, {"fail"}))
      /\ IdsOf(unverified) = OfVerdict({"unverified"})
      /\ Len(unverified) = Len(Of(all, {"unverified"}))
  BY Chosen DEF ByUnit, SliceStable, Selects
<1>7. IdsOf(execFailed) = X
  <2> HIDE DEF execSet
  <2> QED
    BY SortedSelects DEF ByUnit, SliceStable, Selects
<1>8. X \subseteq OfVerdict({"pass"})
  <2>1. \A i \in 1 .. Len(all) : RowAgrees(all[i])
    BY UnitsAreNumbered DEF RowsKnow
  <2> QED
    BY <2>1 DEF OfVerdict, RowAgrees
<1> HIDE DEF execSet, execFailed, failures, unverified, errors, skips, X
<1>9. Len(page.raw) + Len(errors) + Len(skips) = Len(all)
  BY <1>2, <1>4, <1>5, VerdictsPartition
<1>10. IdsOf(page.raw) \cup IdsOf(errors) \cup IdsOf(skips) = IdsOf(all)
  BY <1>2, <1>4, <1>5, VerdictsPartition, UnitsAreNumbered
<1>11. /\ OfVerdict({"pass"}) \subseteq OfVerdict(Measured)
       /\ OfVerdict({"fail"}) \subseteq OfVerdict(Measured)
       /\ OfVerdict({"unverified"}) \subseteq OfVerdict(Measured)
       /\ OfVerdict({"fail"}) \cap OfVerdict({"unverified"}) = {}
       /\ OfVerdict({"fail"}) \cap OfVerdict({"pass"}) = {}
       /\ OfVerdict({"unverified"}) \cap OfVerdict({"pass"}) = {}
  BY DEF OfVerdict, Measured
<1>12. /\ IdsOf(failures) \subseteq IdsOf(page.raw)
       /\ IdsOf(unverified) \subseteq IdsOf(page.raw)
       /\ IdsOf(execFailed) \subseteq IdsOf(page.raw)
       /\ IdsOf(failures) \cap IdsOf(unverified) = {}
       /\ IdsOf(failures) \cap IdsOf(execFailed) = {}
       /\ IdsOf(unverified) \cap IdsOf(execFailed) = {}
  BY <1>2, <1>4, <1>6, <1>7, <1>8, <1>11
<1>13. tally = [failures |-> Len(failures), unverified |-> Len(unverified),
                skipped |-> Len(skips)]
  BY <1>2, <1>5, <1>6 DEF Tally
<1> DEFINE special == <<failures, unverified, execFailed>>
<1>14. ASSUME NEW k \in DOMAIN special
       PROVE  /\ IdsOf(special[k]) \subseteq IdsOf(page.raw)
              /\ \A l \in DOMAIN special \ {k} : IdsOf(special[k]) \cap IdsOf(special[l]) = {}
  <2>1. DOMAIN special = {1, 2, 3}
    OBVIOUS
  <2>2. special[1] = failures /\ special[2] = unverified /\ special[3] = execFailed
    OBVIOUS
  <2> HIDE DEF special
  <2>3. CASE k = 1
    BY <1>12, <2>1, <2>2, <2>3
  <2>4. CASE k = 2
    BY <1>12, <2>1, <2>2, <2>4
  <2>5. CASE k = 3
    BY <1>12, <2>1, <2>2, <2>5
  <2> QED
    BY <2>1, <2>3, <2>4, <2>5
<1> QED
  BY <1>3, <1>9, <1>10, <1>13, <1>14, Zenon

(* The tables of the printed summary partition the measured units.         *)
LEMMA SummaryTables ==
  ASSUME RowsKnow, MainKnows, summary # << >>, target # "openvm"
  PROVE  /\ Total([k \in DOMAIN summary |-> Len(summary[k].over)]) = Len(good)
         /\ UNION {IdsOf(summary[k].over) : k \in DOMAIN summary} = IdsOf(good)
<1> DEFINE W == Worked(good)
           E == Empty(good)
           lens == [k \in DOMAIN summary |-> Len(summary[k].over)]
<1>1. good \in Seq(RowType) /\ Len(good) \in Nat
  BY GoodKnown
<1>2. /\ Len(W) \in Nat /\ Len(E) \in Nat /\ E \in Seq(RowType)
      /\ Len(W) + Len(E) = Len(good)
      /\ IdsOf(W) \cup IdsOf(E) = IdsOf(good)
  BY <1>1, GasPartition
<1>3. summary = <<Table(W)>> \o (IF E # << >> THEN <<Table(E)>> ELSE << >>)
  BY DEF MainKnows, Summary
<1>4. Table(W).over = W /\ Table(E).over = E
  BY DEF Table
<1> HIDE DEF W, E
<1>5. CASE E = << >>
  <2>1. summary = <<Table(W)>> /\ DOMAIN summary = {1} /\ Len(summary) = 1 /\ summary[1] = Table(W)
    BY <1>3, <1>5
  <2>2. lens \in Seq(Nat) /\ Len(lens) = 1 /\ lens[1] = Len(W)
    BY <1>2, <1>4, <2>1
  <2>3. Total(lens) = Len(W)
    <3> HIDE DEF lens
    <3> QED
      BY <2>2, TotalOfTwo
  <2>4. Len(E) = 0 /\ IdsOf(E) = {}
    BY <1>5 DEF IdsOf
  <2>5. UNION {IdsOf(summary[k].over) : k \in DOMAIN summary} = IdsOf(W)
    BY <1>4, <2>1
  <2> QED
    BY <1>2, <2>3, <2>4, <2>5
<1>6. CASE E # << >>
  <2>1. summary = <<Table(W)>> \o <<Table(E)>>
    BY <1>3, <1>6, Zenon
  <2>2. DOMAIN summary = {1, 2} /\ summary[1] = Table(W) /\ summary[2] = Table(E)
    <3>1. ASSUME NEW x, NEW y, NEW z, z = <<x>> \o <<y>>
          PROVE  DOMAIN z = {1, 2} /\ z[1] = x /\ z[2] = y
      <4>1. <<x>> \in Seq({x, y}) /\ <<y>> \in Seq({x, y}) /\ Len(<<x>>) = 1 /\ Len(<<y>>) = 1
        OBVIOUS
      <4>2. Len(z) = 2 /\ DOMAIN z = 1 .. Len(z) /\ z[1] = <<x>>[1] /\ z[2] = <<y>>[1]
        BY <3>1, <4>1, ConcatProperties, LenProperties
      <4> QED
        BY <4>2
    <3> QED
      BY <2>1, <3>1
  <2>3. lens \in Seq(Nat) /\ Len(lens) = 2 /\ lens[1] = Len(W) /\ lens[2] = Len(E)
    <3>1. DOMAIN summary = 1 .. 2
      BY <2>2
    <3>2. Len(summary[1].over) = Len(W) /\ Len(summary[2].over) = Len(E)
      BY <1>4, <2>2
    <3>3. \A k \in 1 .. 2 : Len(summary[k].over) \in Nat
      BY <1>2, <3>2
    <3>4. lens \in [1 .. 2 -> Nat] /\ lens[1] = Len(W) /\ lens[2] = Len(E)
      BY <3>1, <3>2, <3>3
    <3> HIDE DEF lens
    <3>5. \A m \in Nat : lens \in [1 .. m -> Nat] => lens \in Seq(Nat) /\ Len(lens) = m
      BY FunctionIsSeq
    <3> QED
      BY <3>4, <3>5
  <2>4. Total(lens) = Len(W) + Len(E)
    <3> HIDE DEF lens
    <3> QED
      BY <2>3, TotalOfTwo
  <2>5. UNION {IdsOf(summary[k].over) : k \in DOMAIN summary} = IdsOf(W) \cup IdsOf(E)
    BY <1>4, <2>2
  <2> QED
    BY <1>2, <2>4, <2>5
<1> QED
  BY <1>5, <1>6

(* TablesPartition follows from what main knows.                           *)
LEMMA TablesHold ==
  ASSUME RowsKnow, MainKnows PROVE TablesPartition
BY PageTables, SummaryTables DEF TablesPartition

-------------------------------------------------------------------------------
(* Order                                                                   *)

(* What a row is ordered by are numbers.                                   *)
LEMMA RowNumbers ==
  ASSUME NEW a \in RowType
  PROVE  /\ a.kind \in {"corpus", "zkevm"} /\ a.suite \in Nat /\ a.label \in Nat
         /\ a.num \in Nat /\ a.path \in Nat /\ a.pos \in Nat /\ a.id \in Nat
         /\ a.gas \in Nat /\ a.cost \in Nat
<1>1. Labels \subseteq Nat /\ Nums \subseteq Nat
  BY ReportAssumption DEF Labels, Nums
<1>2. /\ a.kind \in {"corpus", "zkevm"} /\ a.suite \in Nat /\ a.label \in Labels
      /\ a.num \in Nums /\ a.path \in Nat /\ a.pos \in Nat /\ a.id \in Nat
      /\ a.gas \in Nat /\ a.cost \in Nat
  BY DEF RowType
<1> QED
  BY <1>1, <1>2

(* In a run of one kind sortResults compares by an order.                  *)
LEMMA LessIsOrder ==
  ASSUME NEW A \in SUBSET RowType, \A a, b \in A : a.kind = b.kind
  PROVE  IsLess({p \in A \X A : Less(p[1], p[2])}, A)
<1> DEFINE R == {p \in A \X A : Less(p[1], p[2])}
<1>1. \A a \in A : a.suite \in Nat /\ a.label \in Nat /\ a.num \in Nat
  BY RowNumbers
<1>2. \A a, b \in A : a.kind = b.kind
  OBVIOUS
<1>3. \A a, b \in A : <<a, b>> \in R <=> Less(a, b)
  OBVIOUS
<1> HIDE DEF R
<1>4. ASSUME NEW a \in A, NEW b \in A, Less(a, b) PROVE ~Less(b, a)
  BY <1>1, <1>2, <1>4 DEF Less
<1>5. ASSUME NEW a \in A, NEW b \in A, NEW c \in A, Less(a, b) PROVE Less(a, c) \/ Less(c, b)
  BY <1>1, <1>2, <1>5 DEF Less
<1>6. IsLess(R, A)
  BY <1>3, <1>4, <1>5 DEF IsLess
<1> QED
  BY <1>6 DEF R

(* One unit is before another in the files.                                *)
Earlier(a, b) == a.path < b.path \/ (a.path = b.path /\ a.pos < b.pos)

(* Rows that the sort leaves in place are in the order RowsInOrder asks    *)
(* for.                                                                    *)
LEMMA PrecedesByLess ==
  ASSUME NEW a \in RowType, NEW b \in RowType, a.kind = b.kind, ~Less(b, a),
         Less(a, b) \/ Earlier(a, b)
  PROVE  Precedes(a, b)
<1>1. /\ a.suite \in Nat /\ a.label \in Nat /\ a.num \in Nat /\ a.path \in Nat /\ a.pos \in Nat
      /\ b.suite \in Nat /\ b.label \in Nat /\ b.num \in Nat /\ b.path \in Nat /\ b.pos \in Nat
      /\ a.kind \in {"corpus", "zkevm"}
  BY RowNumbers
<1>2. CASE a.kind = "corpus"
  <2> DEFINE ka == <<a.num, a.path, a.pos>>
             kb == <<b.num, b.path, b.pos>>
  <2>1. a.num < b.num \/ (a.num = b.num /\ Earlier(a, b))
    BY <1>1, <1>2 DEF Less
  <2>2. /\ DOMAIN ka = {1, 2, 3} /\ ka[1] = a.num /\ kb[1] = b.num /\ ka[2] = a.path
        /\ kb[2] = b.path /\ ka[3] = a.pos /\ kb[3] = b.pos
    OBVIOUS
  <2> HIDE DEF ka, kb
  <2>3. ASSUME NEW k \in {1, 2, 3}, ka[k] < kb[k], \A l \in 1 .. k - 1 : ka[l] = kb[l]
        PROVE  \E l \in DOMAIN ka : ka[l] < kb[l] /\ \A q \in 1 .. l - 1 : ka[q] = kb[q]
    BY <2>2, <2>3
  <2>4. \E k \in DOMAIN ka : ka[k] < kb[k] /\ \A l \in 1 .. k - 1 : ka[l] = kb[l]
    <3>1. CASE a.num < b.num
      BY <2>2, <2>3, <3>1
    <3>2. CASE a.num = b.num /\ a.path < b.path
      <4>1. ka[2] < kb[2] /\ \A l \in 1 .. 2 - 1 : ka[l] = kb[l]
        BY <2>2, <3>2
      <4> QED
        BY <2>3, <4>1
    <3>3. CASE a.num = b.num /\ a.path = b.path /\ a.pos < b.pos
      <4>1. ka[3] < kb[3] /\ \A l \in 1 .. 3 - 1 : ka[l] = kb[l]
        BY <2>2, <3>3
      <4> QED
        BY <2>3, <4>1
    <3> QED
      BY <2>1, <3>1, <3>2, <3>3 DEF Earlier
  <2> QED
    BY <1>2, <2>4, Zenon DEF Precedes, ka, kb
<1>3. CASE a.kind = "zkevm"
  <2> DEFINE ka == <<a.suite, a.label, a.num, a.path, a.pos>>
             kb == <<b.suite, b.label, b.num, b.path, b.pos>>
  <2>1. \/ a.suite < b.suite
        \/ a.suite = b.suite /\ a.label < b.label
        \/ a.suite = b.suite /\ a.label = b.label /\ a.num < b.num
        \/ a.suite = b.suite /\ a.label = b.label /\ a.num = b.num /\ Earlier(a, b)
    BY <1>1, <1>3 DEF Less
  <2>2. /\ DOMAIN ka = {1, 2, 3, 4, 5}
        /\ ka[1] = a.suite /\ kb[1] = b.suite /\ ka[2] = a.label /\ kb[2] = b.label
        /\ ka[3] = a.num /\ kb[3] = b.num /\ ka[4] = a.path /\ kb[4] = b.path
        /\ ka[5] = a.pos /\ kb[5] = b.pos
    OBVIOUS
  <2> HIDE DEF ka, kb
  <2>3. ASSUME NEW k \in {1, 2, 3, 4, 5}, ka[k] < kb[k], \A l \in 1 .. k - 1 : ka[l] = kb[l]
        PROVE  \E l \in DOMAIN ka : ka[l] < kb[l] /\ \A q \in 1 .. l - 1 : ka[q] = kb[q]
    BY <2>2, <2>3
  <2>4. \E k \in DOMAIN ka : ka[k] < kb[k] /\ \A l \in 1 .. k - 1 : ka[l] = kb[l]
    <3>1. CASE a.suite < b.suite
      BY <2>2, <2>3, <3>1
    <3>2. CASE a.suite = b.suite /\ a.label < b.label
      <4>1. ka[2] < kb[2] /\ \A l \in 1 .. 2 - 1 : ka[l] = kb[l]
        BY <2>2, <3>2
      <4> QED
        BY <2>3, <4>1
    <3>3. CASE a.suite = b.suite /\ a.label = b.label /\ a.num < b.num
      <4>1. ka[3] < kb[3] /\ \A l \in 1 .. 3 - 1 : ka[l] = kb[l]
        BY <2>2, <3>3
      <4> QED
        BY <2>3, <4>1
    <3>4. CASE a.suite = b.suite /\ a.label = b.label /\ a.num = b.num /\ a.path < b.path
      <4>1. ka[4] < kb[4] /\ \A l \in 1 .. 4 - 1 : ka[l] = kb[l]
        BY <2>2, <3>4
      <4> QED
        BY <2>3, <4>1
    <3>5. CASE /\ a.suite = b.suite /\ a.label = b.label /\ a.num = b.num
               /\ a.path = b.path /\ a.pos < b.pos
      <4>1. ka[5] < kb[5] /\ \A l \in 1 .. 5 - 1 : ka[l] = kb[l]
        BY <2>2, <3>5
      <4> QED
        BY <2>3, <4>1
    <3> QED
      BY <2>1, <3>1, <3>2, <3>3, <3>4, <3>5 DEF Earlier
  <2>5. a.kind # "corpus" /\ b.kind # "corpus"
    BY <1>3
  <2> QED
    BY <2>4, <2>5, Zenon DEF Precedes, ka, kb
<1> QED
  BY <1>1, <1>2, <1>3

(* RowsInOrder follows from what main knows.                               *)
LEMMA RowsHold ==
  ASSUME RowsKnow, MainKnows PROVE RowsInOrder
<1>1. /\ good \in Seq(RowType) /\ Len(good) \in Nat /\ DOMAIN good = 1 .. Len(good)
      /\ \A i \in 1 .. Len(good) : good[i] \in RowType
  BY GoodKnown
<1>2. csv = SubSeq(good, 1, Len(csv))
  <2>1. PICK k \in 0 .. Len(good) : csv = SubSeq(good, 1, k)
    BY DEF MainKnows
  <2>2. k \in Nat /\ k <= Len(good)
    BY <1>1
  <2>3. Len(SubSeq(good, 1, k)) = k
    BY <1>1, <2>2, SubSeqProperties
  <2> QED
    BY <2>1, <2>3
<1>3. ASSUME OneKind(good), NEW i \in DOMAIN good, NEW j \in DOMAIN good, i < j
      PROVE  Precedes(good[i], good[j])
  <2> DEFINE s == Of(all, Measured)
             A == Range(s)
             R == {p \in A \X A : Less(p[1], p[2])}
  <2>1. good # << >>
    BY <1>3
  <2>2. good \in SortedResults(s)
    BY <2>1 DEF MainKnows, Blank
  <2>3. Range(good) = A
    BY <2>2, GoodSelects
  <2>4. A \subseteq RowType /\ \A a, b \in A : a.kind = b.kind
    <3>1. \A a \in A : \E k \in DOMAIN good : a = good[k]
      BY <2>3 DEF Range
    <3> HIDE DEF A
    <3> QED
      BY <1>1, <1>3, <3>1 DEF OneKind
  <2>5. good = SortedBy(R, s)
    <3>1. \A k \in DOMAIN s : s[k] \in A
      BY DEF Range
    <3>2. OneKind(s)
      <4> HIDE DEF A, s
      <4> QED
        BY <2>4, <3>1 DEF OneKind
    <3> QED
      BY <2>2, <3>2 DEF SortedResults, SliceStable
  <2>6. Selects(good, s, OfVerdict(Measured), R)
    <3> HIDE DEF R
    <3> QED
      BY <2>5, Chosen
  <2>7. IsLess(R, A)
    <3> HIDE DEF A
    <3> QED
      BY <2>4, LessIsOrder
  <2>8. good[i] \in A /\ good[j] \in A
    BY <2>3 DEF Range
  <2>9. /\ <<good[j], good[i]>> \notin R
        /\ <<good[i], good[j]>> \in R \/ good[i].id < good[j].id
        /\ good[i] = all[good[i].id] /\ good[j] = all[good[j].id]
        /\ good[i].id \in OfVerdict(Measured) /\ good[j].id \in OfVerdict(Measured)
    <3> HIDE DEF R
    <3> QED
      BY <1>1, <1>3, <2>6, <2>7 DEF Selects
  <2>10. ~Less(good[j], good[i]) /\ (Less(good[i], good[j]) \/ good[i].id < good[j].id)
    <3> HIDE DEF A
    <3> QED
      BY <2>8, <2>9
  <2>11. good[i].id < good[j].id => Earlier(good[i], good[j])
    <3>1. good[i].id \in DOMAIN all /\ good[j].id \in DOMAIN all
      BY <2>9, UnitsAreNumbered DEF OfVerdict
    <3>2. InPathOrder(all)
      BY DEF RowsKnow
    <3> QED
      BY <2>9, <3>1, <3>2 DEF InPathOrder, Earlier
  <2>12. good[i].kind = good[j].kind
    BY <1>3 DEF OneKind
  <2> QED
    BY <1>1, <2>10, <2>11, <2>12, PrecedesByLess
<1> QED
  BY <1>2, <1>3 DEF RowsInOrder

-------------------------------------------------------------------------------
(* Statistics                                                              *)

(* What integer division, the remainder and the halving of a length give.  *)
LEMMA Division ==
  ASSUME NEW x \in Nat, NEW n \in Nat, n > 0
  PROVE  x \div n \in Nat /\ (x \div n) * n <= x /\ x < ((x \div n) + 1) * n
OBVIOUS

LEMMA Remainder ==
  ASSUME NEW x \in Nat, NEW w \in Nat \ {0}
  PROVE  x % w \in Nat /\ (x < w => x % w = x)
OBVIOUS

LEMMA Halves ==
  ASSUME NEW m \in Nat, m > 0
  PROVE  m \div 2 + 1 \in 1 .. m /\ m \div 2 \in Nat
OBVIOUS

(* A number that a double has is not changed by rounding.                  *)
LEMMA DoubleIsExact ==
  ASSUME NEW x, x <= Exact PROVE Double(x) = x
BY DEF Double

(* The script's sum is the sum, if a double has it: then it has every part *)
(* of it.                                                                  *)
LEMMA SumIsExact ==
  ASSUME NEW s \in Seq(Nat), Total(s) <= Exact
  PROVE  SumOf(s) = Total(s)
<1> DEFINE N == Len(s)
           Loop(f) == f = [n \in 0 .. N |-> IF n = 0 THEN 0 ELSE Double(f[n - 1] + s[n])]
<1>1. N \in Nat /\ \A n \in 1 .. N : s[n] \in Nat
  BY LenProperties, ElementOfSeq
<1>2. PICK f : SumRun(s, f) /\ Total(s) = f[N]
  BY SumLoop
<1>3. /\ f \in [0 .. N -> Nat] /\ f[0] = 0 /\ Total(s) = f[N]
      /\ \A n \in 1 .. N : f[n] = f[n - 1] + s[n]
  BY <1>2 DEF SumRun
<1>4. Exact \in Nat
  BY PageAssumption
<1> HIDE DEF N
<1>5. \A n \in 0 .. N : f[n] <= Exact
  <2> DEFINE K == {k \in Nat : k <= N => f[N - k] <= f[N]}
  <2>1. 0 \in K
    BY <1>1, <1>3
  <2>2. ASSUME NEW k \in Nat, k \in K PROVE k + 1 \in K
    <3> SUFFICES ASSUME k + 1 <= N PROVE f[N - (k + 1)] <= f[N]
      OBVIOUS
    <3>1. /\ N - k \in 1 .. N /\ N - (k + 1) \in 0 .. N /\ N - k - 1 = N - (k + 1)
          /\ f[N - k] <= f[N] /\ N - k \in 0 .. N /\ N \in 0 .. N
      BY <1>1, <2>2
    <3>2. f[N - k] = f[N - (k + 1)] + s[N - k]
      BY <1>3, <3>1
    <3>3. f[N - (k + 1)] \in Nat /\ s[N - k] \in Nat /\ f[N] \in Nat
      BY <1>1, <1>3, <3>1
    <3> QED
      BY <3>1, <3>2, <3>3
  <2> HIDE DEF K
  <2>3. \A k \in Nat : k \in K
    BY <2>1, <2>2, Induction
  <2> SUFFICES ASSUME NEW n \in 0 .. N PROVE f[n] <= Exact
    OBVIOUS
  <2>4. N - n \in Nat /\ N - n <= N /\ N - (N - n) = n
    BY <1>1
  <2>5. f[n] <= f[N]
    BY <2>3, <2>4 DEF K
  <2>6. f[n] \in Nat /\ f[N] \in Nat /\ f[N] <= Exact
    BY <1>1, <1>3
  <2> QED
    BY <1>4, <2>5, <2>6
<1>6. \A n \in 1 .. N : Double(f[n - 1] + s[n]) = f[n]
  <2> SUFFICES ASSUME NEW n \in 1 .. N PROVE Double(f[n - 1] + s[n]) = f[n]
    OBVIOUS
  <2>1. n \in 0 .. N /\ f[n] = f[n - 1] + s[n]
    BY <1>1, <1>3
  <2>2. f[n] <= Exact
    BY <1>5, <2>1
  <2> QED
    BY <2>1, <2>2, DoubleIsExact
<1>7. Loop(f)
  <2>1. \A n \in 0 .. N : n # 0 => n \in 1 .. N
    BY <1>1
  <2>2. \A n \in 0 .. N : f[n] = IF n = 0 THEN 0 ELSE Double(f[n - 1] + s[n])
    BY <1>3, <1>6, <2>1, Zenon
  <2> QED
    BY <1>3, <2>2
<1>8. PICK g : Loop(g) /\ SumOf(s) = g[N]
  BY <1>7, Zenon DEF SumOf, N
<1>9. \A n \in 0 .. N : g[n] = IF n = 0 THEN 0 ELSE Double(g[n - 1] + s[n])
  <2>1. \A h : h = [n \in 0 .. N |-> IF n = 0 THEN 0 ELSE Double(g[n - 1] + s[n])] =>
               \A n \in 0 .. N : h[n] = IF n = 0 THEN 0 ELSE Double(g[n - 1] + s[n])
    OBVIOUS
  <2> QED
    BY <1>8, <2>1
<1> DEFINE S == {n \in Nat : n <= N => g[n] = f[n]}
<1>10. 0 \in S
  BY <1>1, <1>3, <1>9
<1>11. ASSUME NEW n \in Nat, n \in S PROVE n + 1 \in S
  <2> SUFFICES ASSUME n + 1 <= N PROVE g[n + 1] = f[n + 1]
    OBVIOUS
  <2>1. n + 1 \in 1 .. N /\ n + 1 \in 0 .. N /\ n + 1 # 0 /\ (n + 1) - 1 = n /\ g[n] = f[n]
    BY <1>1, <1>11
  <2>2. g[n + 1] = Double(g[n] + s[n + 1])
    BY <1>9, <2>1
  <2>3. f[n + 1] = Double(f[n] + s[n + 1])
    BY <1>6, <2>1
  <2> QED
    BY <2>1, <2>2, <2>3
<1>12. \A n \in Nat : n \in S
  <2> HIDE DEF S
  <2> QED
    BY <1>10, <1>11, Induction
<1>13. g[N] = f[N]
  BY <1>1, <1>12
<1> QED
  BY <1>3, <1>8, <1>13

(* v has the costs of the units of a set U of the rows rs, each once.      *)
HasCosts(v, rs, U, m) ==
  \E ix : Enumerates(ix, m, U) /\ v = [k \in 1 .. m |-> rs[ix[k]].cost]

(* The numbers that both copies of the statistics take from the sorted     *)
(* costs s of the units of a set U.                                        *)
FromSorted(s, rs, U, m) ==
  /\ Len(s) = m /\ m \in Nat /\ m > 0 /\ Cardinality(U) = m
  /\ \E i \in U : rs[i].cost = s[1]
  /\ \A i \in U : rs[i].cost >= s[1]
  /\ \E i \in U : rs[i].cost = s[m]
  /\ \A i \in U : rs[i].cost <= s[m]
  /\ IsMedianOf(s[m \div 2 + 1], rs, U)
  /\ s \in Seq(Nat) /\ Total(s) \in Nat
  /\ Total(s) = Cardinality(UNION {{i} \X (1 .. rs[i].cost) : i \in U})

(* Sorted costs of a non-empty set of units have its extremes and ranks.   *)
LEMMA SortedStats ==
  ASSUME NEW rs \in Seq(RowType), NEW U \in SUBSET (1 .. Len(rs)), U # {},
         NEW m, NEW v, HasCosts(v, rs, U, m)
  PROVE  v # << >> /\ FromSorted(Ascending(v), rs, U, m)
<1> DEFINE c == [i \in 1 .. Len(rs) |-> rs[i].cost]
           s == Ascending(v)
           h == m \div 2 + 1
<1>1. \A i \in U : c[i] = rs[i].cost /\ c[i] \in Nat
  <2> SUFFICES ASSUME NEW i \in U PROVE c[i] = rs[i].cost /\ c[i] \in Nat
    OBVIOUS
  <2>1. i \in 1 .. Len(rs) /\ rs[i] \in RowType
    BY ElementOfSeq
  <2> QED
    BY <2>1 DEF RowType
<1> HIDE DEF c
<1>0. PICK ix : Enumerates(ix, m, U) /\ v = [k \in 1 .. m |-> rs[ix[k]].cost]
  BY DEF HasCosts
<1>2. m \in Nat /\ \A k \in 1 .. m : ix[k] \in U
  BY <1>0 DEF Enumerates
<1>3. v = [k \in 1 .. m |-> c[ix[k]]]
  BY <1>0, <1>1, <1>2
<1>4. v \in Seq(Nat) /\ Len(v) = m /\ Ranks(s, c, U, m)
  BY <1>0, <1>1, <1>3, AscendingRanks
<1> HIDE DEF s
<1>5. Len(s) = m /\ s \in Seq(Nat)
  BY <1>4 DEF Ranks
<1>6. /\ Cardinality(U) = m
      /\ \A k \in 1 .. m :
           /\ Cardinality({i \in U : c[i] < s[k]}) \in 0 .. k - 1
           /\ Cardinality({i \in U : c[i] <= s[k]}) \in k .. m
           /\ \E i \in U : c[i] = s[k]
      /\ m > 0 => \A i \in U : s[1] <= c[i] /\ c[i] <= s[m]
  <2>1. \A u \in U : c[u] \in Nat
    BY <1>1
  <2>2. Ranks(s, c, U, m)
    BY <1>4
  <2> QED
    <3>1. Counts(s, c, U, m)
      BY <2>1, <2>2, RankCounts
    <3> QED
      BY <3>1 DEF Counts
<1>7. Total(s) \in Nat /\ Total(s) = Cardinality(UNION {{i} \X (1 .. c[i]) : i \in U})
  BY <1>1, <1>4, RankTotal
<1>8. UNION {{i} \X (1 .. c[i]) : i \in U} = UNION {{i} \X (1 .. rs[i].cost) : i \in U}
  BY <1>1
<1>9. m > 0
  <2>1. PICK u \in U : TRUE
    OBVIOUS
  <2>2. \E k \in 1 .. m : ix[k] = u
    BY <1>0 DEF Enumerates
  <2> QED
    BY <1>2, <2>2
<1>10. 1 \in 1 .. m /\ m \in 1 .. m /\ h \in 1 .. m /\ m \div 2 \in Nat
  BY <1>2, <1>9, Halves
<1>11. v # << >>
  <2>1. Len(<< >>) = 0
    OBVIOUS
  <2>2. Len(v) # 0
    BY <1>2, <1>4, <1>9
  <2> QED
    BY <2>1, <2>2, Zenon
<1>12. \A k \in 1 .. m : s[k] \in Nat
  BY <1>1, <1>6
<1>13. IsMedianOf(s[h], rs, U)
  <2>1. /\ {i \in U : rs[i].cost < s[h]} = {i \in U : c[i] < s[h]}
        /\ {i \in U : rs[i].cost <= s[h]} = {i \in U : c[i] <= s[h]}
    BY <1>1
  <2> DEFINE below == Cardinality({i \in U : c[i] < s[h]})
             upTo  == Cardinality({i \in U : c[i] <= s[h]})
  <2>2. below \in 0 .. h - 1 /\ upTo \in h .. m /\ \E i \in U : c[i] = s[h]
    BY <1>6, <1>10
  <2>3. below = Cardinality({i \in U : rs[i].cost < s[h]})
        /\ upTo = Cardinality({i \in U : rs[i].cost <= s[h]})
    BY <2>1, Zenon
  <2> HIDE DEF below, upTo
  <2>4. below <= m \div 2 /\ upTo > m \div 2
    BY <1>2, <1>10, <2>2
  <2>5. \E i \in U : rs[i].cost = s[h]
    BY <1>1, <2>2
  <2> HIDE DEF h
  <2> QED
    BY <1>6, <2>3, <2>4, <2>5 DEF IsMedianOf
<1>14. Total(s) = Cardinality(UNION {{i} \X (1 .. rs[i].cost) : i \in U})
  BY <1>7, <1>8, Zenon
<1>15. \A k \in 1 .. m : \E i \in U : rs[i].cost = s[k]
  BY <1>1, <1>6
<1>16. (\E i \in U : rs[i].cost = s[1]) /\ (\E i \in U : rs[i].cost = s[m])
  BY <1>10, <1>15
<1>17. \A i \in U : rs[i].cost >= s[1] /\ rs[i].cost <= s[m]
  BY <1>1, <1>6, <1>9, <1>10, <1>12
<1> QED
  BY <1>2, <1>5, <1>6, <1>7, <1>9, <1>11, <1>13, <1>14, <1>16, <1>17 DEF s, FromSorted

(* computeStats and the page's statsOf are right for the units whose costs *)
(* they are given, in whatever order.                                      *)
LEMMA StatsOfUnits ==
  ASSUME NEW rs \in Seq(RowType), NEW U \in SUBSET (1 .. Len(rs)),
         NEW m, NEW v, HasCosts(v, rs, U, m)
  PROVE  /\ IsStatsOf(ComputeStats(v), rs, U, Word - 1) /\ IsStatsOf(StatsOf(v), rs, U, Exact)
         /\ U # {} => /\ IsMedianOf(ComputeStats(v).p50, rs, U)
                      /\ IsMedianOf(StatsOf(v).p50, rs, U)
<1>1. CASE U = {}
  <2>0. PICK ix : Enumerates(ix, m, U) /\ v = [k \in 1 .. m |-> rs[ix[k]].cost]
    BY DEF HasCosts
  <2>1. m \in Nat /\ \A k \in 1 .. m : ix[k] \in U
    BY <2>0 DEF Enumerates
  <2>2. m = 0
    BY <1>1, <2>1
  <2>3. v = << >>
    BY <2>0, <2>2
  <2>4. ComputeStats(v) = NoStats /\ StatsOf(v) = NoStats
    BY <2>3 DEF ComputeStats, StatsOf
  <2> QED
    BY <1>1, <2>4 DEF IsStatsOf
<1>2. CASE U # {}
  <2> DEFINE s   == Ascending(v)
             sum == Cardinality(UNION {{i} \X (1 .. rs[i].cost) : i \in U})
  <2>1. /\ v # << >> /\ Len(s) = m /\ m \in Nat /\ m > 0 /\ Cardinality(U) = m
        /\ \E i \in U : rs[i].cost = s[1]
        /\ \A i \in U : rs[i].cost >= s[1]
        /\ \E i \in U : rs[i].cost = s[m]
        /\ \A i \in U : rs[i].cost <= s[m]
        /\ IsMedianOf(s[m \div 2 + 1], rs, U)
        /\ s \in Seq(Nat) /\ Total(s) \in Nat /\ Total(s) = sum
    <3>1. v # << >> /\ FromSorted(s, rs, U, m)
      BY <1>2, SortedStats
    <3> QED
      BY <3>1, Zenon DEF FromSorted
  <2>2. ComputeStats(v) = [min |-> s[1], p50 |-> s[m \div 2 + 1], max |-> s[m],
                           avg |-> (Total(s) % Word) \div m]
    BY <2>1, Zenon DEF ComputeStats
  <2>3. StatsOf(v) = [min |-> s[1], p50 |-> s[m \div 2 + 1], max |-> s[m],
                      avg |-> SumOf(s) \div m]
    BY <2>1, Zenon DEF StatsOf
  <2> HIDE DEF s
  <2>4. /\ sum <= Word - 1 => (Total(s) % Word) \div m = Total(s) \div m
        /\ sum <= Exact => SumOf(s) \div m = Total(s) \div m
    <3>1. sum <= Word - 1 => sum < Word
      BY <2>1, ReportAssumption
    <3>2. sum < Word => Total(s) % Word = Total(s)
      BY <2>1, Remainder, ReportAssumption
    <3>3. sum <= Exact => SumOf(s) = Total(s)
      BY <2>1, SumIsExact
    <3> QED
      BY <3>1, <3>2, <3>3
  <2>5. LET avg == Total(s) \div m IN avg * m <= sum /\ sum < (avg + 1) * m
    BY <2>1, Division
  <2> HIDE DEF sum
  <2>6. /\ ComputeStats(v).min = s[1] /\ ComputeStats(v).max = s[m]
        /\ ComputeStats(v).p50 = s[m \div 2 + 1]
        /\ sum <= Word - 1 => ComputeStats(v).avg = Total(s) \div m
    BY <2>2, <2>4
  <2>7. /\ StatsOf(v).min = s[1] /\ StatsOf(v).max = s[m]
        /\ StatsOf(v).p50 = s[m \div 2 + 1]
        /\ sum <= Exact => StatsOf(v).avg = Total(s) \div m
    BY <2>3, <2>4
  <2>8. IsStatsOf(ComputeStats(v), rs, U, Word - 1)
    BY <1>2, <2>1, <2>5, <2>6, Zenon DEF IsStatsOf, sum
  <2>9. IsStatsOf(StatsOf(v), rs, U, Exact)
    BY <1>2, <2>1, <2>5, <2>7, Zenon DEF IsStatsOf, sum
  <2>10. /\ IsMedianOf(ComputeStats(v).p50, rs, U)
         /\ IsMedianOf(StatsOf(v).p50, rs, U)
    BY <2>1, <2>6, <2>7, Zenon
  <2> QED
    BY <2>8, <2>9, <2>10
<1> QED
  BY <1>1, <1>2

(* The costs of all the rows of a table, each once.                        *)
LEMMA AllCosts ==
  ASSUME NEW rs \in Seq(RowType)
  PROVE  HasCosts(CostsOf(rs), rs, 1 .. Len(rs), Len(rs))
<1> DEFINE n == Len(rs)
           f == [i \in 1 .. n |-> i]
<1>1. n \in Nat /\ DOMAIN rs = 1 .. n
  BY LenProperties
<1>2. CostsOf(rs) = [k \in 1 .. n |-> rs[f[k]].cost]
  BY <1>1 DEF CostsOf
<1> HIDE DEF n
<1>3. Enumerates(f, n, 1 .. n)
  BY <1>1, IdentityEnumerates
<1> HIDE DEF f
<1>4. HasCosts(CostsOf(rs), rs, 1 .. n, n)
  BY <1>2, <1>3 DEF HasCosts
<1> QED
  BY <1>4 DEF n

(* The costs of the rows that pass a test, each once.                      *)
LEMMA KeptCosts ==
  ASSUME NEW rs \in Seq(RowType), NEW T
  PROVE  HasCosts(CostsOf(Kept(rs, T)), rs, {i \in 1 .. Len(rs) : rs[i] \in T}, Len(Kept(rs, T)))
<1> DEFINE K == Kept(rs, T)
           m == Len(K)
           I == {i \in 1 .. Len(rs) : rs[i] \in T}
<1>1. K \in Seq(RowType)
  BY KeptPicks
<1>2. m \in Nat /\ DOMAIN K = 1 .. m
  BY <1>1, LenProperties
<1>3. PICK ix : /\ Enumerates(ix, m, I)
                /\ \A k \in 1 .. m : K[k] = rs[ix[k]]
                /\ \A i, j \in 1 .. m : i < j => ix[i] < ix[j]
  BY KeptCount
<1> HIDE DEF K, m, I
<1>4. CostsOf(K) = [k \in 1 .. m |-> rs[ix[k]].cost]
  BY <1>2, <1>3 DEF CostsOf
<1>5. HasCosts(CostsOf(K), rs, I, m)
  BY <1>3, <1>4 DEF HasCosts
<1> QED
  BY <1>5 DEF K, m, I

(* The statistics over a whole table are those of its rows.                *)
LEMMA TableIsRight ==
  ASSUME NEW rs \in Seq(RowType)
  PROVE  IsStatsOf(ComputeStats(CostsOf(rs)), rs, DOMAIN rs, Word - 1)
<1>1. DOMAIN rs = 1 .. Len(rs)
  BY LenProperties
<1>2. HasCosts(CostsOf(rs), rs, 1 .. Len(rs), Len(rs))
  BY AllCosts
<1>3. 1 .. Len(rs) \in SUBSET (1 .. Len(rs))
  OBVIOUS
<1>4. IsStatsOf(ComputeStats(CostsOf(rs)), rs, 1 .. Len(rs), Word - 1)
  BY <1>2, <1>3, StatsOfUnits
<1> QED
  BY <1>1, <1>4

(* The statistics of the summary and of the written page are right.        *)
LEMMA MainStats ==
  ASSUME RowsKnow, MainKnows
  PROVE  /\ \A k \in DOMAIN summary :
              IsStatsOf(summary[k].stats, summary[k].over, DOMAIN summary[k].over, Word - 1)
         /\ page.written => IsStatsOf(page.stats, good, DOMAIN good, Word - 1)
<1>1. good \in Seq(RowType)
  BY GoodKnown
<1>2. Worked(good) \in Seq(RowType) /\ Empty(good) \in Seq(RowType)
  BY <1>1, GasPartition
<1> DEFINE Right(e) == IsStatsOf(e.stats, e.over, DOMAIN e.over, Word - 1)
<1>3. ASSUME NEW rs \in Seq(RowType) PROVE Right(Table(rs))
  BY TableIsRight DEF Table
<1>4. ASSUME NEW k \in DOMAIN summary
      PROVE  summary[k] = Table(Worked(good)) \/ summary[k] = Table(Empty(good))
  <2>1. summary # << >>
    BY <1>4
  <2>2. summary = Summary
    BY <2>1 DEF MainKnows
  <2> DEFINE x == Table(Worked(good))
             y == Table(Empty(good))
  <2>3. summary = <<x>> \o <<y>> \/ summary = <<x>> \o << >>
    BY <2>2, Zenon DEF Summary
  <2> HIDE DEF x, y
  <2>4. summary[k] = x \/ summary[k] = y
    BY <1>4, <2>3
  <2> QED
    BY <2>4 DEF x, y
<1>5. ASSUME page.written PROVE page.stats = ComputeStats(CostsOf(good))
  <2>1. page # NoPage
    BY <1>5 DEF NoPage
  <2> QED
    BY <2>1 DEF MainKnows, ReportData, StatRow
<1>6. \A k \in DOMAIN summary : Right(summary[k])
  <2> HIDE DEF Right
  <2> QED
    BY <1>2, <1>3, <1>4
<1> QED
  BY <1>1, <1>5, <1>6, TableIsRight

-------------------------------------------------------------------------------
(* Names and scopes                                                        *)

(* Numbers of a finite set, sorted: each once.                             *)
LEMMA AscendingLists ==
  ASSUME NEW S \in SUBSET Nat, IsFiniteSet(S)
  PROVE  LET a == Ascending(SetToSeq(S)) IN a \in Seq(S) /\ Enumerates(a, Len(a), S)
<1> DEFINE q == SetToSeq(S)
           R == {p \in Range(q) \X Range(q) : p[1] < p[2]}
<1>1. q \in Seq(S) /\ Enumerates(q, Len(q), S)
  BY SetToSeqLists
<1>2. Ascending(q) = SortedBy(R, q)
  BY DEF Ascending, SliceStable
<1> HIDE DEF q, R
<1> QED
  BY <1>1, <1>2, SortedEnumerates DEF q

(* The units in scope, for a state of the box.                             *)
ScopeOf(se) == {i \in 1 .. Len(good) : se => good[i].gas > 0}

(* The page's list of indices in scope lists each unit in scope once.      *)
LEMMA ScopeListed ==
  ASSUME RowsKnow, MainKnows, page = ReportData, NEW se \in BOOLEAN
  PROVE  /\ ScopeIdx(se) \in Seq(ScopeOf(se))
         /\ Enumerates(ScopeIdx(se), Len(ScopeIdx(se)), ScopeOf(se))
         /\ Len(ScopeIdx(se)) = Cardinality(ScopeOf(se))
<1> DEFINE n == Len(good)
           J == [i \in 1 .. n |-> i]
           T == {i \in Range(J) : ~se \/ good[i].gas > 0}
<1>1. n \in Nat /\ DOMAIN good = 1 .. n
  BY GoodKnown
<1>2. page.raw = good
  BY DEF ReportData
<1>3. ScopeIdx(se) = Kept(J, T)
  BY <1>1, <1>2 DEF ScopeIdx, Indices, Filter
<1>4. Range(J) = 1 .. n
  BY DEF Range
<1>5. (1 .. n) \cap T = ScopeOf(se)
  BY <1>4 DEF ScopeOf
<1>6. J \in Seq(1 .. n) /\ Len(J) = n /\ Enumerates(J, n, 1 .. n)
  <2> HIDE DEF n
  <2> QED
    BY <1>1, IdentityEnumerates
<1> DEFINE K == Kept(J, T)
           C == (1 .. n) \cap T
<1>7. K \in Seq(C) /\ Enumerates(K, Len(K), C)
  <2> HIDE DEF n, J, T
  <2> QED
    BY <1>6, KeptEnumerates
<1> HIDE DEF K, C
<1>8. Len(K) = Cardinality(C)
  BY <1>7, EnumerationCount
<1>9. C = ScopeOf(se) /\ K = ScopeIdx(se)
  BY <1>3, <1>5 DEF C, K
<1> QED
  BY <1>7, <1>8, <1>9, Zenon

(* The costs picked at listed indices are those of the units listed, if    *)
(* doubles have them.                                                      *)
LEMMA PickCosts ==
  ASSUME page.raw = good, ExactCosts, NEW U \in SUBSET (DOMAIN good), NEW idx \in Seq(U),
         Enumerates(idx, Len(idx), U)
  PROVE  HasCosts(Pick(idx), good, U, Len(idx))
<1>1. DOMAIN idx = 1 .. Len(idx) /\ \A k \in 1 .. Len(idx) : idx[k] \in U
  BY LenProperties, ElementOfSeq
<1>2. \A k \in 1 .. Len(idx) : Double(good[idx[k]].cost) = good[idx[k]].cost
  <2> SUFFICES ASSUME NEW k \in 1 .. Len(idx)
               PROVE  Double(good[idx[k]].cost) = good[idx[k]].cost
    OBVIOUS
  <2>1. good[idx[k]].cost <= Exact
    BY <1>1 DEF ExactCosts
  <2> QED
    BY <2>1, DoubleIsExact
<1>3. Pick(idx) = [k \in 1 .. Len(idx) |-> good[idx[k]].cost]
  BY <1>1, <1>2 DEF Pick
<1> QED
  BY <1>3 DEF HasCosts

(* The line above the charts.                                              *)
LEMMA SaidIsRight ==
  ASSUME RowsKnow, MainKnows, page = ReportData, NEW se \in BOOLEAN
  PROVE  (IF se THEN Len(page.raw) - Len(ScopeIdx(se)) ELSE Len(Empty(page.raw))) = page.emptyCount
<1>1. good \in Seq(RowType) /\ Len(good) \in Nat
  BY GoodKnown
<1>2. page.raw = good /\ page.emptyCount = Len(Empty(good))
  BY DEF ReportData, EmptyCount
<1>3. CASE se = FALSE
  BY <1>2, <1>3
<1>4. CASE se = TRUE
  <2> DEFINE W == {i \in 1 .. Len(good) : good[i].gas > 0}
  <2>1. /\ Len(Worked(good)) = Cardinality(W)
        /\ Len(Worked(good)) \in Nat /\ Len(Empty(good)) \in Nat
        /\ Len(Worked(good)) + Len(Empty(good)) = Len(good)
    BY <1>1, GasPartition
  <2>2. W = ScopeOf(se)
    BY <1>4 DEF ScopeOf
  <2>3. Len(ScopeIdx(se)) = Cardinality(ScopeOf(se))
    BY ScopeListed
  <2> HIDE DEF W
  <2>4. Len(ScopeIdx(se)) = Len(Worked(good))
    BY <2>1, <2>2, <2>3, Zenon
  <2> QED
    BY <1>2, <1>4, <2>1, <2>4
<1> QED
  BY <1>3, <1>4

(* The curve: the costs in scope by rank.                                  *)
CurveOk(rank, U) ==
  /\ Len(rank) = Cardinality(U)
  /\ \A k \in DOMAIN rank :
       /\ Cardinality({i \in U : good[i].cost < rank[k]}) < k
       /\ Cardinality({i \in U : good[i].cost <= rank[k]}) >= k

(* The rank chart shows each unit's cost, from the least to the greatest.  *)
LEMMA CurveIsRight ==
  ASSUME good \in Seq(RowType), NEW U \in SUBSET (1 .. Len(good)),
         NEW m, NEW v, HasCosts(v, good, U, m)
  PROVE  CurveOk(Ascending(v), U) /\ (ExactCosts => Doubles(Ascending(v)) = Ascending(v))
<1> DEFINE c == [i \in 1 .. Len(good) |-> good[i].cost]
           s == Ascending(v)
<1>1. \A i \in U : c[i] = good[i].cost /\ c[i] \in Nat
  <2> SUFFICES ASSUME NEW i \in U PROVE c[i] = good[i].cost /\ c[i] \in Nat
    OBVIOUS
  <2>1. i \in 1 .. Len(good) /\ good[i] \in RowType
    BY ElementOfSeq
  <2> QED
    BY <2>1 DEF RowType
<1> HIDE DEF c
<1>2. PICK ix : Enumerates(ix, m, U) /\ v = [k \in 1 .. m |-> good[ix[k]].cost]
  BY DEF HasCosts
<1>3. m \in Nat /\ \A k \in 1 .. m : ix[k] \in U
  BY <1>2 DEF Enumerates
<1>4. v = [k \in 1 .. m |-> c[ix[k]]]
  BY <1>1, <1>2, <1>3
<1>5. Ranks(s, c, U, m)
  BY <1>1, <1>2, <1>4, AscendingRanks
<1> HIDE DEF s
<1>6. Counts(s, c, U, m)
  BY <1>1, <1>5, RankCounts
<1>7. s \in Seq(Nat) /\ Len(s) = m /\ DOMAIN s = 1 .. m
  BY <1>5, LenProperties DEF Ranks
<1>8. ASSUME NEW k \in 1 .. m
      PROVE  /\ Cardinality({i \in U : good[i].cost < s[k]}) < k
             /\ Cardinality({i \in U : good[i].cost <= s[k]}) >= k
  <2>1. /\ {i \in U : good[i].cost < s[k]} = {i \in U : c[i] < s[k]}
        /\ {i \in U : good[i].cost <= s[k]} = {i \in U : c[i] <= s[k]}
    BY <1>1
  <2> DEFINE below == Cardinality({i \in U : c[i] < s[k]})
             upTo  == Cardinality({i \in U : c[i] <= s[k]})
  <2>2. below \in 0 .. k - 1 /\ upTo \in k .. m
    BY <1>6 DEF Counts
  <2>3. below = Cardinality({i \in U : good[i].cost < s[k]})
        /\ upTo = Cardinality({i \in U : good[i].cost <= s[k]})
    BY <2>1, Zenon
  <2> HIDE DEF below, upTo
  <2>4. below < k /\ upTo >= k
    BY <1>3, <2>2
  <2> QED
    BY <2>3, <2>4
<1>9. Len(s) = Cardinality(U)
  BY <1>6, <1>7 DEF Counts
<1>10. ASSUME ExactCosts PROVE Doubles(s) = s
  <2>1. \A k \in 1 .. m : \E i \in U : c[i] = s[k]
    BY <1>6 DEF Counts
  <2>2. \A i \in U : good[i].cost <= Exact
    BY <1>10, LenProperties DEF ExactCosts
  <2>3. \A k \in 1 .. m : s[k] <= Exact
    BY <1>1, <2>1, <2>2
  <2>4. \A k \in DOMAIN s : Double(s[k]) = s[k]
    BY <1>7, <2>3, DoubleIsExact
  <2> QED
    BY <1>7, <2>4 DEF Doubles
<1> QED
  BY <1>7, <1>8, <1>9, <1>10 DEF CurveOk, s

(* The image of a numbered set is finite.                                  *)
LEMMA FiniteImage ==
  ASSUME NEW n \in Nat, NEW U \in SUBSET (1 .. n), NEW h
  PROVE  IsFiniteSet({h[i] : i \in U})
<1> DEFINE S == {h[i] : i \in U}
           f == [i \in U |-> h[i]]
<1>1. IsFiniteSet(U)
  <2>1. IsFiniteSet(1 .. n)
    BY FS_Interval
  <2> QED
    BY <2>1, FS_Subset
<1>2. f \in Surjection(U, S)
  <2>1. f \in [U -> S] /\ \A t \in S : \E i \in U : f[i] = t
    OBVIOUS
  <2> HIDE DEF f, S
  <2> QED
    BY <2>1 DEF Surjection
<1> HIDE DEF f, S
<1>3. IsFiniteSet(S)
  BY <1>1, <1>2, FS_Surjection
<1> QED
  BY <1>3 DEF S

(* A sequence that lists S once each has the range S and its size.         *)
LEMMA ListRange ==
  ASSUME NEW S, NEW v \in Seq(S), Enumerates(v, Len(v), S)
  PROVE  Range(v) = S /\ Len(v) = Cardinality(Range(v))
<1>1. DOMAIN v = 1 .. Len(v) /\ \A k \in 1 .. Len(v) : v[k] \in S
  BY LenProperties, ElementOfSeq
<1>2. \A x \in S : \E k \in 1 .. Len(v) : v[k] = x
  BY DEF Enumerates
<1>3. Range(v) = S
  BY <1>1, <1>2 DEF Range
<1>4. Cardinality(S) = Len(v)
  BY EnumerationCount
<1> QED
  BY <1>3, <1>4, Zenon

(* The bars: the suites of the units U, each with its median.              *)
SuitesOk(suites, medians, U) ==
  /\ Range(suites) = {good[i].suite : i \in U}
  /\ Len(suites) = Cardinality(Range(suites))
  /\ ExactCosts => \A k \in DOMAIN suites :
       IsMedianOf(medians[k], good, {i \in U : good[i].suite = suites[k]})

SuitesOf(U) == {good[i].suite : i \in U}

(* The suites of the page are those of the measured units, each once.      *)
LEMMA NamesListed ==
  ASSUME RowsKnow, MainKnows
  PROVE  LET names == SuiteNames(good)
             S     == SuitesOf(1 .. Len(good))
         IN names \in Seq(S) /\ Enumerates(names, Len(names), S) /\ S \subseteq Nat
<1> DEFINE n == Len(good)
           S == SuitesOf(1 .. n)
           h == [i \in 1 .. n |-> good[i].suite]
<1>1. n \in Nat /\ DOMAIN good = 1 .. n /\ \A i \in 1 .. n : good[i] \in RowType
  BY GoodKnown
<1>2. \A i \in 1 .. n : good[i].suite \in Nat
  BY <1>1 DEF RowType
<1>3. S \subseteq Nat
  BY <1>2 DEF SuitesOf
<1>4. S = {h[i] : i \in 1 .. n}
  BY DEF SuitesOf
<1>5. SuiteNames(good) = Ascending(SetToSeq(S))
  BY <1>1, Zenon DEF SuiteNames, SuitesOf
<1> HIDE DEF n, h, S
<1>6. IsFiniteSet({h[i] : i \in 1 .. n})
  <2>1. 1 .. n \in SUBSET (1 .. n)
    OBVIOUS
  <2> QED
    BY <1>1, <2>1, FiniteImage
<1>7. IsFiniteSet(S)
  BY <1>4, <1>6, Zenon
<1> DEFINE a == Ascending(SetToSeq(S))
<1>8. a \in Seq(S) /\ Enumerates(a, Len(a), S)
  BY <1>3, <1>7, AscendingLists
<1> HIDE DEF a
<1>9. SuiteNames(good) = a
  BY <1>5 DEF a
<1> QED
  BY <1>3, <1>8, <1>9 DEF S, n

(* The suite chart of the page as written shows each suite's median.       *)
LEMMA SuitesAtOpen ==
  ASSUME RowsKnow, MainKnows
  PROVE  SuitesOk(SuiteNames(good), Doubles(SuiteMedians(good)), 1 .. Len(good))
<1> DEFINE n     == Len(good)
           names == SuiteNames(good)
           S     == SuitesOf(1 .. n)
<1>1. n \in Nat /\ good \in Seq(RowType) /\ DOMAIN good = 1 .. n
  BY GoodKnown
<1>2. names \in Seq(S) /\ Enumerates(names, Len(names), S)
  BY NamesListed
<1>3. DOMAIN names = 1 .. Len(names) /\ \A k \in 1 .. Len(names) : names[k] \in S
  BY <1>2, LenProperties, ElementOfSeq
<1>4. Range(names) = S /\ Len(names) = Cardinality(Range(names))
  BY <1>2, ListRange
<1>5. DOMAIN SuiteMedians(good) = DOMAIN names /\ \A k \in DOMAIN names : SuiteMedians(good)[k]
        = ComputeStats(CostsOf(Kept(good, {r \in Range(good) : r.suite = names[k]}))).p50
  BY DEF SuiteMedians, Filter
<1>6. ASSUME NEW k \in DOMAIN names
      PROVE  IsMedianOf(SuiteMedians(good)[k], good, {i \in 1 .. n : good[i].suite = names[k]})
  <2> DEFINE T == {r \in Range(good) : r.suite = names[k]}
             U == {i \in 1 .. n : good[i] \in T}
             v == CostsOf(Kept(good, T))
  <2>1. U = {i \in 1 .. n : good[i].suite = names[k]}
    BY <1>1 DEF Range
  <2>2. \E i \in 1 .. n : good[i].suite = names[k]
    BY <1>3 DEF SuitesOf
  <2>3. U # {}
    BY <2>1, <2>2
  <2>4. U \in SUBSET (1 .. Len(good))
    OBVIOUS
  <2>5. SuiteMedians(good)[k] = ComputeStats(v).p50
    BY <1>5
  <2>6. HasCosts(v, good, U, Len(Kept(good, T)))
    <3> HIDE DEF T
    <3> QED
      BY <1>1, KeptCosts
  <2> HIDE DEF U, v
  <2>7. IsMedianOf(ComputeStats(v).p50, good, U)
    BY <1>1, <2>3, <2>4, <2>6, StatsOfUnits
  <2> QED
    BY <2>1, <2>5, <2>7, Zenon
<1>7. ASSUME ExactCosts, NEW k \in DOMAIN names
      PROVE  Doubles(SuiteMedians(good))[k] = SuiteMedians(good)[k]
  <2>1. \E i \in 1 .. n : good[i].cost = SuiteMedians(good)[k]
    BY <1>6, <1>7 DEF IsMedianOf
  <2>2. SuiteMedians(good)[k] <= Exact
    BY <1>1, <1>7, <2>1 DEF ExactCosts
  <2> QED
    BY <1>5, <1>7, <2>2, DoubleIsExact DEF Doubles
<1>8. ASSUME ExactCosts, NEW k \in DOMAIN names
      PROVE  IsMedianOf(Doubles(SuiteMedians(good))[k], good, {i \in 1 .. n : good[i].suite = names[k]})
  BY <1>6, <1>7, <1>8, Zenon
<1> QED
  BY <1>4, <1>8 DEF SuitesOk, SuitesOf

(* The script finds each unit's suite among the names.                     *)
LEMMA SuiteIdxKnown ==
  ASSUME RowsKnow, MainKnows, page = ReportData, NEW i \in 1 .. Len(good)
  PROVE  /\ page.unitSuiteIdx[i] \in DOMAIN page.suiteLabels
         /\ page.suiteLabels[page.unitSuiteIdx[i]] = good[i].suite
<1> DEFINE names == SuiteNames(good)
           S     == SuitesOf(1 .. Len(good))
<1>1. DOMAIN good = 1 .. Len(good)
  BY GoodKnown
<1>2. names \in Seq(S) /\ Enumerates(names, Len(names), S)
  BY NamesListed
<1>3. DOMAIN names = 1 .. Len(names)
  BY <1>2, LenProperties
<1>4. good[i].suite \in S
  BY DEF SuitesOf
<1>5. \E k \in DOMAIN names : names[k] = good[i].suite
  BY <1>2, <1>3, <1>4 DEF Enumerates
<1>6. page.suiteLabels = names /\ page.unitSuiteIdx = UnitSuiteIdx
  BY DEF ReportData
<1>7. UnitSuiteIdx[i] = CHOOSE k \in DOMAIN names : names[k] = good[i].suite
  BY <1>1 DEF UnitSuiteIdx
<1> HIDE DEF names
<1> QED
  BY <1>5, <1>6, <1>7

(* The suite chart after a refresh shows the median of each suite in scope.*)
LEMMA SuitesAtRefresh ==
  ASSUME RowsKnow, MainKnows, page = ReportData, NEW se \in BOOLEAN
  PROVE  LET idx    == ScopeIdx(se)
             suites == Ascending(SetToSeq({page.unitSuiteIdx[i] : i \in Range(idx)}))
             median(k) == StatsOf(Pick(Filter(idx, LAMBDA i : page.unitSuiteIdx[i] = k))).p50
         IN SuitesOk([j \in DOMAIN suites |-> page.suiteLabels[suites[j]]],
                     [j \in DOMAIN suites |-> median(suites[j])], ScopeOf(se))
<1> DEFINE n      == Len(good)
           idx    == ScopeIdx(se)
           U      == ScopeOf(se)
           g      == page.unitSuiteIdx
           names  == page.suiteLabels
           S      == {g[i] : i \in U}
           suites == Ascending(SetToSeq({g[i] : i \in Range(idx)}))
           within(k) == {i \in Range(idx) : g[i] = k}
           median(k) == StatsOf(Pick(Kept(idx, within(k)))).p50
           bars   == [j \in DOMAIN suites |-> names[suites[j]]]
           ms     == [j \in DOMAIN suites |-> median(suites[j])]
<1>1. n \in Nat /\ good \in Seq(RowType) /\ page.raw = good
  BY GoodKnown DEF ReportData
<1>2. U \subseteq 1 .. n
  BY DEF ScopeOf
<1>3. idx \in Seq(U) /\ Enumerates(idx, Len(idx), U)
  BY ScopeListed
<1>4. Range(idx) = U
  <2> HIDE DEF idx, U
  <2> QED
    BY <1>3, ListRange
<1>5. /\ \A i \in 1 .. n : g[i] \in DOMAIN names /\ names[g[i]] = good[i].suite
  BY SuiteIdxKnown
<1>6. /\ DOMAIN names = 1 .. Len(names) /\ Len(names) \in Nat
      /\ \A k, l \in DOMAIN names : names[k] = names[l] => k = l
  <2> DEFINE N == SuiteNames(good)
             SN == SuitesOf(1 .. Len(good))
  <2>1. N \in Seq(SN) /\ Enumerates(N, Len(N), SN)
    BY NamesListed
  <2> HIDE DEF SN
  <2>2. DOMAIN N = 1 .. Len(N) /\ Len(N) \in Nat
    BY <2>1, LenProperties
  <2>3. \A k, l \in 1 .. Len(N) : N[k] = N[l] => k = l
    BY <2>1 DEF Enumerates
  <2>4. names = N
    BY DEF ReportData
  <2> HIDE DEF N, names
  <2> QED
    BY <2>2, <2>3, <2>4
<1> HIDE DEF names, g
<1>7. S \subseteq Nat /\ \A k \in S : k \in DOMAIN names
  BY <1>2, <1>5, <1>6
<1>8. IsFiniteSet(S)
  <2> HIDE DEF n, U
  <2> QED
    BY <1>1, <1>2, FiniteImage
<1>9. suites \in Seq(S) /\ Enumerates(suites, Len(suites), S)
  <2>1. suites = Ascending(SetToSeq(S))
    BY <1>4, Zenon
  <2> HIDE DEF suites, S
  <2> QED
    BY <1>7, <1>8, <2>1, AscendingLists
<1> HIDE DEF suites
<1>10. /\ DOMAIN suites = 1 .. Len(suites) /\ Len(suites) \in Nat
       /\ \A j \in DOMAIN suites : suites[j] \in S
  <2> HIDE DEF S
  <2> QED
    BY <1>9, LenProperties, ElementOfSeq
<1>11. /\ \A j, l \in DOMAIN suites : suites[j] = suites[l] => j = l
       /\ \A k \in S : \E j \in DOMAIN suites : suites[j] = k
  <2> HIDE DEF S
  <2> QED
    BY <1>9, <1>10 DEF Enumerates
<1> DEFINE B == SuitesOf(U)
<1>12. \A j \in DOMAIN suites : bars[j] = names[suites[j]] /\ bars[j] \in B
  BY <1>2, <1>5, <1>10 DEF SuitesOf
<1>13. \A b \in B : \E j \in DOMAIN suites : bars[j] = b
  <2> SUFFICES ASSUME NEW i \in U PROVE \E j \in DOMAIN suites : bars[j] = good[i].suite
    BY DEF SuitesOf
  <2>1. g[i] \in S /\ names[g[i]] = good[i].suite
    BY <1>2, <1>5
  <2>2. PICK j \in DOMAIN suites : suites[j] = g[i]
    BY <1>11, <2>1
  <2> QED
    BY <2>1, <2>2
<1>14. \A j, l \in DOMAIN suites : bars[j] = bars[l] => j = l
  <2> SUFFICES ASSUME NEW j \in DOMAIN suites, NEW l \in DOMAIN suites, bars[j] = bars[l]
               PROVE  j = l
    OBVIOUS
  <2>1. suites[j] \in DOMAIN names /\ suites[l] \in DOMAIN names
    BY <1>7, <1>10
  <2>2. names[suites[j]] = names[suites[l]]
    OBVIOUS
  <2>3. suites[j] = suites[l]
    BY <1>6, <2>1, <2>2
  <2> QED
    BY <1>11, <2>3
<1>15. bars \in [1 .. Len(suites) -> B]
  BY <1>10, <1>12
<1>16. /\ Range(bars) = B /\ Len(bars) = Cardinality(Range(bars)) /\ Len(bars) = Len(suites)
       /\ DOMAIN bars = DOMAIN suites
  <2> HIDE DEF bars, B
  <2>1. bars \in Seq(B) /\ Len(bars) = Len(suites) /\ DOMAIN bars = 1 .. Len(suites)
    BY <1>10, <1>15, FunctionIsSeq
  <2>2. Enumerates(bars, Len(bars), B)
    BY <1>10, <1>13, <1>14, <1>15, <2>1 DEF Enumerates
  <2> QED
    BY <1>10, <2>1, <2>2, ListRange
<1>17. ASSUME ExactCosts, NEW j \in DOMAIN suites
       PROVE  IsMedianOf(ms[j], good, {i \in U : good[i].suite = bars[j]})
  <2> DEFINE k == suites[j]
             P == U \cap within(k)
             K == Kept(idx, within(k))
  <2>1. k \in S /\ bars[j] = names[k] /\ ms[j] = StatsOf(Pick(K)).p50
    BY <1>10
  <2>2. K \in Seq(P) /\ Enumerates(K, Len(K), P)
    <3> HIDE DEF idx, U
    <3> QED
      BY <1>3, KeptEnumerates
  <2>3. P = {i \in U : g[i] = k}
    BY <1>4
  <2>4. \A i \in U : g[i] = k <=> good[i].suite = names[k]
    BY <1>2, <1>5, <1>6, <1>7, <2>1
  <2>5. P = {i \in U : good[i].suite = bars[j]}
    BY <2>1, <2>3, <2>4
  <2>6. P # {}
    BY <2>1, <2>3
  <2>7. P \in SUBSET (1 .. Len(good)) /\ DOMAIN good = 1 .. Len(good)
    BY <1>2, GoodKnown
  <2> HIDE DEF P, K, bars, ms, k
  <2>8. HasCosts(Pick(K), good, P, Len(K))
    BY <1>1, <1>17, <2>2, <2>7, PickCosts
  <2>9. IsMedianOf(StatsOf(Pick(K)).p50, good, P)
    BY <1>1, <2>6, <2>7, <2>8, StatsOfUnits
  <2> QED
    BY <2>1, <2>5, <2>9, Zenon
<1>18. SuitesOk(bars, ms, U)
  <2> HIDE DEF bars, ms, U
  <2> QED
    BY <1>16, <1>17 DEF SuitesOk, SuitesOf
<1> QED
  BY <1>18 DEF Filter, suites, g, names

-------------------------------------------------------------------------------
(* The raw table                                                           *)

(* sortTable compares by an order, where a column's numbers are exact.     *)
LEMMA CellOrder ==
  ASSUME RowsKnow, MainKnows, page = ReportData, NEW col \in {"unit", "gas", "total"},
         ExactColumn(col)
  PROVE  /\ \A a, b \in DOMAIN good : CellLess(a, b, col) => ~CellLess(b, a, col)
         /\ \A a, b, c \in DOMAIN good :
              CellLess(a, b, col) => CellLess(a, c, col) \/ CellLess(c, b, col)
<1> DEFINE num(i)  == Double(NumberIn(page.raw[i], col))
           name(i) == Collated[page.raw[i].label]
           has(i)  == HasNumber(page.raw[i], col)
<1>1. page.raw = good /\ \A i \in DOMAIN good : good[i] \in RowType
  BY GoodKnown DEF ReportData
<1>2. \A i \in DOMAIN good : num(i) \in Nat
  <2> SUFFICES ASSUME NEW i \in DOMAIN good PROVE num(i) \in Nat
    OBVIOUS
  <2>1. good[i].num \in Nat /\ good[i].gas \in Nat /\ good[i].cost \in Nat
    BY <1>1, RowNumbers
  <2>2. NumberIn(good[i], col) \in Nat
    BY <2>1 DEF NumberIn
  <2>3. Double(NumberIn(good[i], col)) = NumberIn(good[i], col)
    BY DoubleIsExact DEF ExactColumn
  <2> QED
    BY <1>1, <2>2, <2>3
<1>3. \A i \in DOMAIN good : name(i) \in Nat
  <2> SUFFICES ASSUME NEW i \in DOMAIN good PROVE name(i) \in Nat
    OBVIOUS
  <2>1. good[i].label \in Labels
    BY <1>1 DEF RowType
  <2> QED
    BY <1>1, <2>1, PageAssumption
<1>4. \A i, j : CellLess(i, j, col) <=>
        \/ has(i) /\ has(j) /\ num(i) < num(j)
        \/ has(i) /\ ~has(j)
        \/ ~has(i) /\ ~has(j) /\ name(i) < name(j)
  BY Zenon DEF CellLess
<1> HIDE DEF num, name, has
<1>5. ASSUME NEW a \in DOMAIN good, NEW b \in DOMAIN good, CellLess(a, b, col)
      PROVE  ~CellLess(b, a, col)
  BY <1>2, <1>3, <1>4, <1>5
<1>6. ASSUME NEW a \in DOMAIN good, NEW b \in DOMAIN good, NEW c \in DOMAIN good,
             CellLess(a, b, col)
      PROVE  CellLess(a, c, col) \/ CellLess(c, b, col)
  BY <1>2, <1>3, <1>4, <1>6
<1> QED
  BY <1>5, <1>6

TableOk(rows, sd) ==
  /\ IsInjective(rows) /\ Range(rows) = DOMAIN good
  /\ sd # Unsorted /\ ExactColumn(sd.column) => \A i, j \in DOMAIN rows : i < j =>
       IF sd.asc THEN ~CellLess(rows[j], rows[i], sd.column)
                 ELSE ~CellLess(rows[i], rows[j], sd.column)

(* Sorting the raw table by a column keeps its rows and puts them in order.*)
LEMMA SortedTable ==
  ASSUME RowsKnow, MainKnows, page = ReportData, NEW rows \in Seq(DOMAIN good),
         IsInjective(rows), Range(rows) = DOMAIN good,
         NEW col \in {"unit", "gas", "total"}, NEW asc \in BOOLEAN
  PROVE  LET less(a, b) == IF asc THEN CellLess(a, b, col) ELSE CellLess(b, a, col)
             t == SliceStable(less, rows)
         IN t \in Seq(DOMAIN good) /\ TableOk(t, [column |-> col, asc |-> asc])
<1> DEFINE less(a, b) == IF asc THEN CellLess(a, b, col) ELSE CellLess(b, a, col)
           U == DOMAIN good
           R == {p \in Range(rows) \X Range(rows) : less(p[1], p[2])}
           t == SortedBy(R, rows)
<1>1. ASSUME ExactColumn(col)
      PROVE  /\ \A a, b \in U : CellLess(a, b, col) => ~CellLess(b, a, col)
             /\ \A a, b, c \in U : CellLess(a, b, col) => CellLess(a, c, col) \/ CellLess(c, b, col)
  BY <1>1, CellOrder
<1>2. t = SliceStable(less, rows)
  BY DEF SliceStable
<1>3. \A a, b \in U : <<a, b>> \in R <=> less(a, b)
  OBVIOUS
<1>4. ASSUME ExactColumn(col) PROVE IsLess(R, U)
  <2> HIDE DEF U, R
  <2>1. ASSUME NEW a \in U, NEW b \in U, less(a, b) PROVE ~less(b, a)
    BY <1>1, <1>4, <2>1
  <2>2. ASSUME NEW a \in U, NEW b \in U, NEW c \in U, less(a, b) PROVE less(a, c) \/ less(c, b)
    BY <1>1, <1>4, <2>2
  <2> HIDE DEF less
  <2> QED
    BY <1>3, <2>1, <2>2 DEF IsLess
<1>5. Enumerates(rows, Len(rows), U)
  <2>1. DOMAIN rows = 1 .. Len(rows) /\ Len(rows) \in Nat /\ \A k \in 1 .. Len(rows) : rows[k] \in U
    BY LenProperties, ElementOfSeq
  <2>2. rows \in [1 .. Len(rows) -> U]
    BY <2>1, LenProperties
  <2>3. \A i, j \in 1 .. Len(rows) : rows[i] = rows[j] => i = j
    BY <2>1 DEF IsInjective
  <2>4. \A u \in U : \E k \in 1 .. Len(rows) : rows[k] = u
    BY <2>1 DEF Range
  <2> QED
    BY <2>1, <2>2, <2>3, <2>4 DEF Enumerates
<1> HIDE DEF R, U
<1>6. rows \in Seq(U)
  BY DEF U
<1>7. /\ t \in Seq(U) /\ Enumerates(t, Len(t), U)
      /\ IsLess(R, U) => \A i, j \in 1 .. Len(t) : i < j => <<t[j], t[i]>> \notin R
  BY <1>5, <1>6, SortedEnumerates
<1> HIDE DEF t
<1>8. Range(t) = U
  BY <1>7, ListRange
<1>9. DOMAIN t = 1 .. Len(t) /\ \A k \in 1 .. Len(t) : t[k] \in U
  BY <1>7, LenProperties, ElementOfSeq
<1>10. IsInjective(t)
  BY <1>7, <1>9 DEF Enumerates, IsInjective
<1> DEFINE sd == [column |-> col, asc |-> asc]
<1>11. sd.asc = asc /\ sd.column = col
  OBVIOUS
<1> HIDE DEF sd
<1>12. ASSUME ExactColumn(sd.column), NEW i \in DOMAIN t, NEW j \in DOMAIN t, i < j
       PROVE  IF sd.asc THEN ~CellLess(t[j], t[i], sd.column)
                        ELSE ~CellLess(t[i], t[j], sd.column)
  <2>1. t[i] \in U /\ t[j] \in U /\ <<t[j], t[i]>> \notin R
    BY <1>4, <1>7, <1>9, <1>11, <1>12
  <2>2. ~less(t[j], t[i])
    BY <1>3, <2>1
  <2> QED
    BY <1>11, <2>2
<1>13. TableOk(t, sd)
  BY <1>8, <1>10, <1>12 DEF TableOk, U
<1> QED
  BY <1>2, <1>7, <1>13 DEF U, sd

(* The rows displayed are the ones that pass every filter.                 *)
HiddenOk(hidden, se, fo, q) ==
  \A i \in DOMAIN good : i \notin hidden <=>
    i \in ScopeOf(se) /\ unitCell(good[i]) \in q /\ (fo => good[i].out # "valid")

(* The rows hidden are those that the controls exclude.                    *)
LEMMA HiddenIsRight ==
  ASSUME RowsKnow, MainKnows, page = ReportData, NEW se \in BOOLEAN, NEW fo \in BOOLEAN, NEW q
  PROVE  HiddenOk(HiddenRows(fo, q, se), se, fo, q)
<1>1. page.raw = good /\ DOMAIN good = 1 .. Len(good)
  BY GoodKnown DEF ReportData
<1> QED
  BY <1>1 DEF HiddenOk, HiddenRows, ScopeOf, Success

-------------------------------------------------------------------------------
(* What the reader sees, for the state of the controls                     *)

StatsOk(st, U) == ExactCosts => IsStatsOf(st, good, U, Exact)

ViewOk(sh, se, fo, q, sd) ==
  /\ TableOk(sh.rows, sd)
  /\ HiddenOk(sh.hidden, se, fo, q)
  /\ sh.said = <<Cardinality(ScopeOf(se)), page.emptyCount>>
  /\ page.scaled => /\ ExactCosts => CurveOk(sh.rank, ScopeOf(se))
                    /\ SuitesOk(sh.suites, sh.medians, ScopeOf(se))
  /\ ~page.scaled => Range(sh.units) = ScopeOf(se)

(* Scope and ViewFollowsControls, in terms of the controls' values.        *)
LEMMA ScopeIs ==
  ASSUME DOMAIN good = 1 .. Len(good) PROVE Scope = ScopeOf(excludeEmpty)
BY DEF Scope, ScopeOf

LEMMA ViewIs ==
  ASSUME DOMAIN good = 1 .. Len(good)
  PROVE  ViewFollowsControls
           <=> (shown.open => ViewOk(shown, excludeEmpty, failOnly, query, sortDir))
<1>1. Scope = ScopeOf(excludeEmpty)
  BY ScopeIs
<1>2. TableFollows <=> TableOk(shown.rows, sortDir)
  BY Zenon DEF TableFollows, TableOk
<1>3. FiltersFollow <=> HiddenOk(shown.hidden, excludeEmpty, failOnly, query)
  BY <1>1, Zenon DEF FiltersFollow, HiddenOk
<1>4. CurveFollows <=> CurveOk(shown.rank, ScopeOf(excludeEmpty))
  BY <1>1, Zenon DEF CurveFollows, CurveOk
<1>5. SuitesFollow <=> SuitesOk(shown.suites, shown.medians, ScopeOf(excludeEmpty))
  BY <1>1, Zenon DEF SuitesFollow, SuitesOk
<1> QED
  BY <1>1, <1>2, <1>3, <1>4, <1>5, Zenon DEF ViewFollowsControls, ViewOk

(* What a row shows in the first column is such a text.                    *)
LEMMA GoodTexts ==
  ASSUME RowsKnow, MainKnows
  PROVE  \A i \in DOMAIN good : unitCell(good[i]) \in Texts
<1>1. CASE Blank
  BY <1>1 DEF Blank
<1>2. CASE good \in SortedResults(Of(all, Measured))
  <2>1. Range(good) \subseteq Range(all)
    BY <1>2, GoodSelects
  <2> SUFFICES ASSUME NEW i \in DOMAIN good PROVE unitCell(good[i]) \in Texts
    OBVIOUS
  <2>2. PICK k \in DOMAIN all : good[i] = all[k]
    BY <2>1 DEF Range
  <2>3. unitCell(all[k]) \in Texts
    BY DEF RowsKnow
  <2> QED
    BY <2>2, <2>3
<1> QED
  BY <1>1, <1>2 DEF MainKnows

(* The sum of the costs is a number.                                       *)
LEMMA SumIsNumber ==
  ASSUME good \in Seq(RowType), Len(good) \in Nat, DOMAIN good = 1 .. Len(good)
  PROVE  Cardinality(UNION {{i} \X (1 .. good[i].cost) : i \in DOMAIN good}) \in Nat
<1> DEFINE n == Len(good)
           sum == Cardinality(UNION {{i} \X (1 .. good[i].cost) : i \in 1 .. n})
<1>1. CASE n = 0
  <2>1. UNION {{i} \X (1 .. good[i].cost) : i \in DOMAIN good} = {}
    BY <1>1
  <2>2. Cardinality({}) = 0
    BY FS_EmptySet
  <2> QED
    BY <2>1, <2>2
<1>2. CASE n # 0
  <2>1. HasCosts(CostsOf(good), good, 1 .. n, n)
    BY AllCosts
  <2>2. 1 .. n # {} /\ 1 .. n \in SUBSET (1 .. Len(good))
    <3>1. 1 \in 1 .. n
      BY <1>2
    <3> QED
      BY <3>1
  <2>3. FromSorted(Ascending(CostsOf(good)), good, 1 .. n, n)
    BY <2>1, <2>2, SortedStats
  <2>4. sum \in Nat
    BY <2>3, Zenon DEF FromSorted
  <2> QED
    BY <2>4
<1> QED
  BY <1>1, <1>2

(* A page that was opened has the shape that Open gave it.                 *)
Shaped(sh) == sh = [part \in Parts |-> sh[part]] /\ sh.open = TRUE

OpenedPage ==
  [open |-> TRUE, stats |-> page.stats, said |-> <<Len(page.raw), page.emptyCount>>,
   rank |-> RankChart, suites |-> SuiteChart, medians |-> MedianBars,
   units |-> UnitCharts, instructions |-> InstructionChart, rows |-> Indices, hidden |-> {}]

(* The page as it opens follows controls that nobody has touched.          *)
LEMMA OpenedIsRight ==
  ASSUME RowsKnow, MainKnows, page = ReportData
  PROVE  /\ Shaped(OpenedPage) /\ OpenedPage.rows \in Seq(DOMAIN good)
         /\ ViewOk(OpenedPage, FALSE, FALSE, Texts, Unsorted)
         /\ StatsOk(OpenedPage.stats, ScopeOf(FALSE))
<1> DEFINE n == Len(good)
           U == ScopeOf(FALSE)
<1>1. /\ n \in Nat /\ good \in Seq(RowType) /\ DOMAIN good = 1 .. n
      /\ \A i \in 1 .. n : good[i] \in RowType
  BY GoodKnown
<1>2. U = 1 .. n
  BY DEF ScopeOf
<1>3. Cardinality(1 .. n) = n
  <2> HIDE DEF n
  <2> QED
    BY <1>1, FS_Interval
<1>4. /\ page.raw = good /\ page.written /\ page.scaled = Scaled
      /\ page.suiteLabels = SuiteNames(good)
      /\ Scaled => page.rankCosts = Ascending(CostsOf(good)) /\ page.suiteMedians = SuiteMedians(good)
  BY DEF ReportData
<1>5. Indices = [i \in 1 .. n |-> i]
  BY <1>1, <1>4 DEF Indices
<1>6. Indices \in Seq(1 .. n) /\ IsInjective(Indices) /\ Range(Indices) = 1 .. n
  <2> HIDE DEF n
  <2> DEFINE f == [i \in 1 .. n |-> i]
  <2>1. f \in Seq(1 .. n)
    BY <1>1, IdentityEnumerates
  <2>2. DOMAIN f = 1 .. n /\ \A i \in 1 .. n : f[i] = i
    OBVIOUS
  <2> HIDE DEF f
  <2>3. IsInjective(f) /\ Range(f) = 1 .. n
    BY <2>2 DEF IsInjective, Range
  <2> QED
    BY <1>5, <2>1, <2>3 DEF f
<1> DEFINE sh == OpenedPage
<1>7. /\ sh.rows = Indices /\ sh.hidden = {} /\ sh.said = <<Len(page.raw), page.emptyCount>>
      /\ sh.rank = RankChart /\ sh.suites = SuiteChart /\ sh.medians = MedianBars
      /\ sh.units = UnitCharts /\ sh.stats = page.stats /\ Shaped(sh)
  BY DEF OpenedPage, Shaped, Parts
<1> HIDE DEF sh
<1>8. TableOk(sh.rows, Unsorted)
  BY <1>1, <1>6, <1>7 DEF TableOk
<1>9. HiddenOk(sh.hidden, FALSE, FALSE, Texts)
  <2>1. \A i \in 1 .. n : unitCell(good[i]) \in Texts
    BY <1>1, GoodTexts
  <2> HIDE DEF Texts
  <2> QED
    BY <1>1, <1>2, <1>7, <2>1 DEF HiddenOk
<1>10. sh.said = <<Cardinality(U), page.emptyCount>>
  BY <1>2, <1>3, <1>4, <1>7, Zenon
<1>11. page.scaled /\ ExactCosts => CurveOk(sh.rank, U)
  <2> SUFFICES ASSUME page.scaled, ExactCosts PROVE CurveOk(sh.rank, U)
    OBVIOUS
  <2>1. sh.rank = Doubles(Ascending(CostsOf(good)))
    BY <1>4, <1>7 DEF RankChart
  <2>2. HasCosts(CostsOf(good), good, U, n)
    <3>1. HasCosts(CostsOf(good), good, 1 .. n, n)
      BY <1>1, AllCosts
    <3> QED
      BY <1>2, <3>1, Zenon
  <2>3. U \in SUBSET (1 .. Len(good))
    BY <1>2
  <2> HIDE DEF U
  <2> QED
    BY <1>1, <2>1, <2>2, <2>3, CurveIsRight
<1>12. page.scaled => SuitesOk(sh.suites, sh.medians, U)
  <2> SUFFICES ASSUME page.scaled PROVE SuitesOk(sh.suites, sh.medians, U)
    OBVIOUS
  <2>1. sh.suites = SuiteNames(good) /\ sh.medians = Doubles(SuiteMedians(good))
    BY <1>4, <1>7 DEF SuiteChart, MedianBars
  <2>2. SuitesOk(SuiteNames(good), Doubles(SuiteMedians(good)), 1 .. n)
    BY SuitesAtOpen
  <2> QED
    BY <1>2, <2>1, <2>2, Zenon
<1>13. ~page.scaled => Range(sh.units) = U
  BY <1>2, <1>6, <1>7 DEF UnitCharts
<1>14. StatsOk(sh.stats, U)
  <2>1. IsStatsOf(page.stats, good, DOMAIN good, Word - 1)
    BY <1>4, MainStats
  <2>2. IsStatsOf(page.stats, good, DOMAIN good, Exact)
    <3> DEFINE sum == Cardinality(UNION {{i} \X (1 .. good[i].cost) : i \in DOMAIN good})
    <3>1. sum <= Exact => sum <= Word - 1
      <4>1. sum \in Nat
        BY <1>1, SumIsNumber
      <4> QED
        BY <4>1, PageAssumption, ReportAssumption
    <3> QED
      BY <2>1, <3>1, Zenon DEF IsStatsOf
  <2> QED
    BY <1>1, <1>2, <1>7, <2>2, Zenon DEF StatsOk
<1>15. ViewOk(sh, FALSE, FALSE, Texts, Unsorted)
  BY <1>8, <1>9, <1>10, <1>11, <1>12, <1>13, Zenon DEF ViewOk
<1>16. sh.rows \in Seq(DOMAIN good)
  BY <1>1, <1>6, <1>7
<1> QED
  BY <1>7, <1>14, <1>15, <1>16 DEF sh

(* A refresh of every part brings the page in step with the new scope.     *)
LEMMA RefreshIsRight ==
  ASSUME RowsKnow, MainKnows, page = ReportData, Shaped(shown), HasRawTable,
         TableOk(shown.rows, sortDir), NEW se \in BOOLEAN, failOnly \in BOOLEAN
  PROVE  /\ Shaped(Refresh(se)) /\ Refresh(se).rows = shown.rows
         /\ ViewOk(Refresh(se), se, failOnly, query, sortDir)
         /\ StatsOk(Refresh(se).stats, ScopeOf(se))
<1> DEFINE idx    == ScopeIdx(se)
           U      == ScopeOf(se)
           suites == Ascending(SetToSeq({page.unitSuiteIdx[i] : i \in Range(idx)}))
           median(k) == StatsOf(Pick(Filter(idx, LAMBDA i : page.unitSuiteIdx[i] = k))).p50
           bars   == [j \in DOMAIN suites |-> page.suiteLabels[suites[j]]]
           ms     == [j \in DOMAIN suites |-> median(suites[j])]
           empty  == IF se THEN Len(page.raw) - Len(idx) ELSE Len(Empty(page.raw))
           sh     == Refresh(se)
<1>1. good \in Seq(RowType) /\ page.raw = good
  BY GoodKnown DEF ReportData
<1>2. SuitesOk(bars, ms, U)
  BY SuitesAtRefresh
<1>3. empty = page.emptyCount
  BY SaidIsRight
<1>4. idx \in Seq(U) /\ Enumerates(idx, Len(idx), U) /\ Len(idx) = Cardinality(U)
  BY ScopeListed
<1>5. HiddenOk(HiddenRows(failOnly, query, se), se, failOnly, query)
  BY HiddenIsRight
<1>6. U \in SUBSET (1 .. Len(good))
  BY DEF ScopeOf
<1> DEFINE st == StatsOf(Pick(idx))
           sd == <<Len(idx), empty>>
           rk == IF page.scaled THEN Ascending(Pick(idx)) ELSE shown.rank
           su == IF page.scaled THEN bars ELSE shown.suites
           me == IF page.scaled THEN ms ELSE shown.medians
           un == IF page.scaled THEN shown.units ELSE idx
           hd == HiddenRows(failOnly, query, se)
<1>7. sh = [shown EXCEPT !.stats = st, !.said = sd, !.rank = rk, !.suites = su,
                         !.medians = me, !.units = un, !.hidden = hd]
  BY Zenon DEF Refresh
<1>8. /\ page.scaled => rk = Ascending(Pick(idx)) /\ su = bars /\ me = ms
      /\ ~page.scaled => un = idx
  BY Zenon
<1> HIDE DEF idx, U, suites, bars, ms, empty, sh, st, sd, rk, su, me, un, hd
<1>9. /\ sh.stats = st /\ sh.said = sd /\ sh.rows = shown.rows /\ sh.hidden = hd
      /\ sh.rank = rk /\ sh.suites = su /\ sh.medians = me /\ sh.units = un
  BY <1>7 DEF Shaped, Parts
<1>10. Shaped(sh)
  BY <1>7, <1>9 DEF Shaped, Parts
<1>11. /\ sh.stats = StatsOf(Pick(idx)) /\ sh.said = <<Len(idx), empty>>
       /\ sh.hidden = HiddenRows(failOnly, query, se)
       /\ page.scaled => sh.rank = Ascending(Pick(idx)) /\ sh.suites = bars /\ sh.medians = ms
       /\ ~page.scaled => sh.units = idx
  BY <1>8, <1>9, Zenon DEF st, sd, hd
<1>12. ASSUME ExactCosts PROVE HasCosts(Pick(idx), good, U, Len(idx))
  <2>1. U \in SUBSET (DOMAIN good)
    BY <1>6, GoodKnown
  <2> QED
    BY <1>1, <1>4, <1>12, <2>1, PickCosts
<1>13. StatsOk(sh.stats, U)
  <2>1. ASSUME ExactCosts PROVE IsStatsOf(StatsOf(Pick(idx)), good, U, Exact)
    BY <1>1, <1>6, <1>12, <2>1, StatsOfUnits
  <2> QED
    BY <1>11, <2>1, Zenon DEF StatsOk
<1>14. ASSUME ExactCosts PROVE CurveOk(Ascending(Pick(idx)), U)
  BY <1>1, <1>6, <1>12, <1>14, CurveIsRight
<1>15. Range(idx) = U
  BY <1>4, ListRange
<1>16. ViewOk(sh, se, failOnly, query, sortDir)
  <2>1. sh.said = <<Cardinality(U), page.emptyCount>>
    BY <1>3, <1>4, <1>9, <1>10, <1>11, Zenon
  <2> QED
    BY <1>2, <1>5, <1>9, <1>10, <1>11, <1>14, <1>15, <2>1, Zenon DEF ViewOk, U
<1> QED
  BY <1>9, <1>10, <1>11, <1>13, <1>16 DEF sh, U

-------------------------------------------------------------------------------
(* The induction                                                           *)

(* What was shown of the primed controls is the invariants of the next     *)
(* state.                                                                  *)
LEMMA ViewIsNext ==
  ASSUME UNCHANGED mainVars, DOMAIN good = 1 .. Len(good),
         shown'.open => /\ ViewOk(shown', excludeEmpty', failOnly', query', sortDir')
                        /\ StatsOk(shown'.stats, ScopeOf(excludeEmpty'))
  PROVE  /\ ViewFollowsControls'
         /\ shown'.open /\ ExactCosts' => IsStatsOf(shown'.stats, good', Scope', Exact)
<1> SUFFICES ASSUME shown'.open
             PROVE  /\ ViewFollowsControls'
                    /\ ExactCosts' => IsStatsOf(shown'.stats, good', Scope', Exact)
  BY DEF ViewFollowsControls
<1>1. good' = good /\ page' = page /\ (ExactCosts' <=> ExactCosts)
  BY DEF mainVars, ExactCosts
<1>2. Scope' = ScopeOf(excludeEmpty')
  BY <1>1 DEF Scope, ScopeOf
<1>3. /\ TableOk(shown'.rows, sortDir')
      /\ HiddenOk(shown'.hidden, excludeEmpty', failOnly', query')
      /\ shown'.said = <<Cardinality(ScopeOf(excludeEmpty')), page.emptyCount>>
      /\ page.scaled => /\ ExactCosts => CurveOk(shown'.rank, ScopeOf(excludeEmpty'))
                        /\ SuitesOk(shown'.suites, shown'.medians, ScopeOf(excludeEmpty'))
      /\ ~page.scaled => Range(shown'.units) = ScopeOf(excludeEmpty')
  BY Zenon DEF ViewOk
<1>4. TableFollows'
  <2>1. \A i, j, col : CellLess(i, j, col)' <=> CellLess(i, j, col)
    BY <1>1 DEF CellLess
  <2>2. \A col : ExactColumn(col)' <=> ExactColumn(col)
    BY <1>1 DEF ExactColumn
  <2> QED
    BY <1>1, <1>3, <2>1, <2>2 DEF TableFollows, TableOk, Unsorted
<1>5. FiltersFollow'
  BY <1>1, <1>2, <1>3 DEF FiltersFollow, HiddenOk
<1>6. page.scaled /\ ExactCosts => CurveFollows'
  BY <1>1, <1>2, <1>3, Zenon DEF CurveFollows, CurveOk
<1>7. page.scaled => SuitesFollow'
  BY <1>1, <1>2, <1>3, Zenon DEF SuitesFollow, SuitesOk
<1>8. ViewFollowsControls'
  BY <1>1, <1>2, <1>3, <1>4, <1>5, <1>6, <1>7, Zenon DEF ViewFollowsControls
<1>9. ExactCosts' => IsStatsOf(shown'.stats, good', Scope', Exact)
  BY <1>1, <1>2, Zenon DEF StatsOk
<1> QED
  BY <1>8, <1>9

(* Before the run there is nothing to show.                                *)
LEMMA InitPageIInv == Init => PageIInv
<1> SUFFICES ASSUME Init PROVE PageIInv
  OBVIOUS
<1> USE DEF Init, ReportInit
<1>1. RowsKnow
  BY EmptySeq DEF RowsKnow, InPathOrder
<1>2. MainKnows
  <2>1. Blank
    BY DEF Blank
  <2>2. << >> = SubSeq(<< >>, 1, 0) /\ 0 \in 0 .. Len(<< >>)
    OBVIOUS
  <2> QED
    BY <2>1, <2>2 DEF MainKnows
<1>3. ShownKnows
  BY DEF ShownKnows
<1>4. ~shown.open
  BY DEF Unopened
<1>5. NoMissingElement /\ ViewFollowsControls
  BY <1>4 DEF NoMissingElement, ViewFollowsControls
<1> QED
  BY <1>1, <1>2, <1>3, <1>4, <1>5 DEF PageIInv

(* What main computes depends on the units and the target only.            *)
LEMMA ComputedFromUnits ==
  ASSUME target' = target, all' = all, good' = good
  PROVE  Tally' = Tally /\ Summary' = Summary /\ ReportData' = ReportData
<1>1. Tally' = Tally
  BY DEF Tally
<1>2. Summary' = Summary
  BY DEF Summary
<1>3. StatRow' = StatRow /\ Scaled' = Scaled /\ EmptyCount' = EmptyCount
  BY DEF StatRow, Scaled, EmptyCount
<1>4. UnitSuiteIdx' = UnitSuiteIdx
  BY DEF UnitSuiteIdx
<1>5. SideTables' = SideTables
  BY DEF SideTables, Filter
<1>6. ReportData' = ReportData
  BY <1>3, <1>4, <1>5 DEF ReportData
<1> QED
  BY <1>1, <1>2, <1>6

(* A new row has the type of a row and the number it was given, and its    *)
(* fields agree with its verdict.                                          *)
LEMMA NewRowTyped ==
  ASSUME NEW id \in Nat, NEW u \in Identities, NEW f \in Fates
  PROVE  LET r == Row(id, u, f) IN
           r \in RowType /\ r.id = id /\ unitCell(r) \in Texts /\ RowAgrees(r)
<1> DEFINE v == Verify(u, f)
           e == ErrOf(v, f)
           r == Row(id, u, f)
<1>1. /\ u.kind \in {"corpus", "zkevm"} /\ u.suite \in Nat /\ u.path \in Nat /\ u.pos \in Nat
      /\ u.label \in Labels /\ u.num \in Nums
  BY ReportAssumption DEF Labels, Nums
<1>2. /\ f.runErr \in {"nil", "missing", "other"} /\ f.execErr \in BOOLEAN
      /\ f.match \in {"none", "match", "mismatch"}
      /\ f.out \in {"short", "invalid", "valid", "other"} /\ f.gas \in Nat /\ f.cost \in Nat
  BY ReportAssumption
<1>3. /\ v \in {"pass", "fail", "unverified", "skip", "error"}
      /\ v = "error" => f.runErr # "nil"
  BY <1>1, <1>2 DEF Verify, verifyCorpus, verifyEEST
<1>4. e \in {"nil", "missing", "other"} /\ (e # "nil" <=> v = "error")
  BY <1>2, <1>3 DEF ErrOf
<1> HIDE DEF v, e
<1>5. r = [id |-> id, kind |-> u.kind, suite |-> u.suite, label |-> u.label, num |-> u.num,
           path |-> u.path, pos |-> u.pos, verdict |-> v, validationOK |-> v = "pass",
           err |-> e, execErr |-> v # "error" /\ f.execErr, out |-> f.out,
           gas |-> f.gas, cost |-> IF v = "error" THEN 0 ELSE f.cost]
  BY DEF Row, v, e
<1>6. (v = "pass") \in BOOLEAN /\ (v # "error" /\ f.execErr) \in BOOLEAN
  OBVIOUS
<1>7. (IF v = "error" THEN 0 ELSE f.cost) \in Nat
  BY <1>2
<1>8. r \in RowType /\ r.id = id
  BY <1>1, <1>2, <1>3, <1>4, <1>5, <1>6, <1>7 DEF RowType
<1>9. RowAgrees(r)
  <2>1. r.err = e /\ r.verdict = v /\ r.validationOK = (v = "pass")
    BY <1>5
  <2> QED
    BY <1>4, <2>1, Zenon DEF RowAgrees
<1>10. unitCell(r) = unitCell(u)
  BY <1>5 DEF unitCell
<1>11. unitCell(u) \in Texts
  BY DEF Texts
<1> QED
  BY <1>8, <1>9, <1>10, <1>11

(* The steps of main, one lemma each: another unit is recorded.            *)
LEMMA RunAllKnows ==
  ASSUME RowsKnow, MainKnows, RunAll PROVE RowsKnow' /\ MainKnows'
<1>1. RowsKnow'
  <2>1. PICK u \in Identities, f \in Fates : all' = Append(all, Row(Len(all) + 1, u, f))
    BY DEF RunAll
  <2> DEFINE r == Row(Len(all) + 1, u, f)
  <2>2. all \in Seq(RowType) /\ Len(all) \in Nat /\ DOMAIN all = 1 .. Len(all)
    BY LenProperties DEF RowsKnow
  <2>3. r \in RowType /\ r.id = Len(all) + 1 /\ unitCell(r) \in Texts /\ RowAgrees(r)
    <3>1. Len(all) + 1 \in Nat
      BY <2>2
    <3> QED
      BY <3>1, NewRowTyped
  <2> HIDE DEF r
  <2>4. /\ all' \in Seq(RowType) /\ Len(all') = Len(all) + 1 /\ DOMAIN all' = 1 .. Len(all) + 1
        /\ \A i \in 1 .. Len(all) : all'[i] = all[i]
        /\ all'[Len(all) + 1] = r
    BY <2>1, <2>2, <2>3, AppendProperties, LenProperties DEF r
  <2>5. ASSUME NEW i \in DOMAIN all'
        PROVE  all'[i].id = i /\ unitCell(all'[i]) \in Texts /\ RowAgrees(all'[i])
    <3>1. CASE i \in 1 .. Len(all)
      <4>1. all'[i] = all[i] /\ i \in DOMAIN all
        BY <2>2, <2>4, <3>1
      <4>2. all[i].id = i /\ unitCell(all[i]) \in Texts /\ RowAgrees(all[i])
        BY <4>1 DEF RowsKnow
      <4> QED
        BY <4>1, <4>2
    <3>2. CASE i = Len(all) + 1
      BY <2>3, <2>4, <3>2
    <3> QED
      BY <2>2, <2>4, <3>1, <3>2
  <2>6. InPathOrder(all')
    BY DEF RunAll
  <2> QED
    BY <2>4, <2>5, <2>6 DEF RowsKnow, InPathOrder, unitCell, RowAgrees
<1>2. Blank /\ pc = "run"
  BY DEF RunAll, MainKnows
<1>3. /\ good' = good /\ summary' = summary /\ page' = page /\ csv' = csv /\ pc' = pc
  BY DEF RunAll
<1>4. \E k \in 0 .. Len(good) : csv = SubSeq(good, 1, k)
  BY DEF MainKnows
<1> QED
  BY <1>1, <1>2, <1>3, <1>4 DEF MainKnows, Blank

(* What is known of the rows depends on them only.                         *)
LEMMA RowsStand ==
  ASSUME RowsKnow, all' = all PROVE RowsKnow'
BY DEF RowsKnow, InPathOrder, unitCell, RowAgrees

(* The units are split by verdict and sorted.                              *)
LEMMA ClassifyKnows ==
  ASSUME RowsKnow, MainKnows, Classify PROVE RowsKnow' /\ MainKnows'
<1>1. /\ good' \in SortedResults(Of(all, Measured)) /\ tally' = Tally
      /\ all' = all /\ summary' = summary /\ page' = page /\ csv' = csv /\ pc = "run"
      /\ pc' \in {"report", "summary"}
  BY DEF Classify
<1>2. Blank
  BY <1>1 DEF MainKnows
<1>3. good' \in Seq(RowType)
  BY <1>1, GoodSelects
<1>4. SubSeq(good', 1, 0) = << >> /\ 0 \in 0 .. Len(good')
  BY <1>3, LenProperties, EmptySeq
<1>5. Tally' = Tally
  BY <1>1 DEF Tally
<1>6. good' \in SortedResults(Of(all', Measured))
  BY <1>1
<1>7. RowsKnow'
  BY <1>1, RowsStand
<1>8. summary' = << >> /\ page' = NoPage /\ csv' = << >>
  BY <1>1, <1>2 DEF Blank
<1> HIDE DEF Measured
<1>9. MainKnows'
  BY <1>1, <1>4, <1>5, <1>6, <1>8 DEF MainKnows
<1> QED
  BY <1>7, <1>9

(* main stops when there is nothing to report.                             *)
LEMMA NoUnitsKnows ==
  ASSUME RowsKnow, MainKnows, NoUnits PROVE RowsKnow' /\ MainKnows'
<1>1. UNCHANGED <<target, all, good, tally, summary, page, csv>> /\ pc = "run" /\ pc' = "fatal"
  BY DEF NoUnits
<1>2. Blank
  BY <1>1 DEF MainKnows
<1>3. RowsKnow' /\ Blank'
  BY <1>1, <1>2, RowsStand DEF Blank
<1>4. \E k \in 0 .. Len(good') : csv' = SubSeq(good', 1, k)
  BY <1>1 DEF MainKnows
<1> QED
  BY <1>1, <1>3, <1>4 DEF MainKnows, Blank

(* Once the units are sorted out, main only adds what follows from them.   *)
LEMMA ReportKnows ==
  ASSUME RowsKnow, MainKnows, PrintSummary \/ WriteReport \/ WriteCSV
  PROVE  RowsKnow' /\ MainKnows'
<1>1. /\ target' = target /\ all' = all /\ good' = good /\ tally' = tally
      /\ pc \in {"summary", "report", "csv"} /\ pc' # "run"
  BY DEF PrintSummary, WriteReport, WriteCSV
<1>2. Tally' = Tally /\ Summary' = Summary /\ ReportData' = ReportData
  BY <1>1, ComputedFromUnits
<1>3. RowsKnow'
  BY <1>1, RowsStand
<1>4. good' \in SortedResults(Of(all', Measured)) /\ tally' = Tally'
  <2>1. good \in SortedResults(Of(all, Measured)) /\ tally = Tally
    BY <1>1 DEF MainKnows
  <2> QED
    BY <1>1, <1>2, <2>1
<1>5. /\ summary = << >> \/ summary = Summary
      /\ page = NoPage \/ page = ReportData
      /\ \E k \in 0 .. Len(good) : csv = SubSeq(good, 1, k)
  BY DEF MainKnows
<1>6. summary' = << >> \/ summary' = Summary'
  BY <1>2, <1>5 DEF PrintSummary, WriteReport, WriteCSV
<1>7. page' = NoPage \/ page' = ReportData'
  BY <1>2, <1>5 DEF PrintSummary, WriteReport, WriteCSV
<1>8. pc' \in {"csv", "done"} => page' = ReportData'
  <2>1. CASE PrintSummary
    BY <2>1 DEF PrintSummary
  <2>2. CASE WriteReport
    BY <1>2, <2>2 DEF WriteReport
  <2>3. CASE WriteCSV
    BY <1>2, <2>3 DEF WriteCSV, MainKnows
  <2> QED
    BY <2>1, <2>2, <2>3
<1>9. \E k \in 0 .. Len(good') : csv' = SubSeq(good', 1, k)
  <2>1. good \in Seq(RowType) /\ Len(good) \in Nat
    BY GoodKnown
  <2>2. good = SubSeq(good, 1, Len(good)) /\ Len(good) \in 0 .. Len(good)
    BY <2>1
  <2>3. CASE csv' = csv
    BY <1>1, <1>5, <2>3
  <2>4. CASE WriteCSV
    <3>1. csv' = good \/ \E k \in 0 .. Len(good) : csv' = SubSeq(good, 1, k)
      BY <2>4 DEF WriteCSV
    <3> QED
      BY <1>1, <2>2, <3>1, Zenon
  <2> QED
    BY <2>3, <2>4 DEF PrintSummary, WriteReport
<1> HIDE DEF Tally, Summary, ReportData, Measured
<1>10. MainKnows'
  BY <1>1, <1>4, <1>6, <1>7, <1>8, <1>9 DEF MainKnows
<1> QED
  BY <1>3, <1>10

(* The page's handlers leave main's state alone.                           *)
LEMMA MainStands ==
  ASSUME RowsKnow, MainKnows, UNCHANGED mainVars PROVE RowsKnow' /\ MainKnows'
<1>1. /\ target' = target /\ all' = all /\ good' = good /\ tally' = tally
      /\ summary' = summary /\ page' = page /\ csv' = csv /\ pc' = pc
  BY DEF mainVars
<1>2. Tally' = Tally /\ Summary' = Summary /\ ReportData' = ReportData
  BY <1>1, ComputedFromUnits
<1>3. RowsKnow'
  BY <1>1, RowsStand
<1>4. MainKnows'
  BY <1>1, <1>2 DEF MainKnows, Blank
<1> QED
  BY <1>3, <1>4

(* While main runs there is no page to look at.                            *)
LEMMA MainKeepsIInv ==
  ASSUME PageIInv, Main PROVE PageIInv'
<1>1. RowsKnow /\ MainKnows /\ ShownKnows /\ threw = FALSE
  BY DEF PageIInv, NoMissingElement, ShownKnows
<1>2. UNCHANGED pageVars /\ ReportNext
  BY DEF Main
<1>3. RowsKnow' /\ MainKnows'
  BY <1>1, <1>2, RunAllKnows, ClassifyKnows, NoUnitsKnows, ReportKnows DEF ReportNext
<1>4. pc # "done"
  BY <1>2 DEF ReportNext, RunAll, Classify, NoUnits, PrintSummary, WriteReport, WriteCSV
<1>5. shown = Unopened /\ ~excludeEmpty /\ ~failOnly /\ query = Texts /\ sortDir = Unsorted
  BY <1>1, <1>4 DEF ShownKnows
<1>6. ShownKnows' /\ threw' = FALSE
  BY <1>1, <1>2, <1>5 DEF ShownKnows, pageVars
<1>7. ~shown'.open
  BY <1>2, <1>5 DEF pageVars, Unopened
<1> QED
  BY <1>3, <1>6, <1>7 DEF PageIInv, NoMissingElement, ViewFollowsControls

(* What the handlers find: the data main wrote and the view as it is.      *)
LEMMA Opened ==
  ASSUME PageIInv, shown.open
  PROVE  /\ RowsKnow /\ MainKnows /\ pc = "done" /\ page = ReportData
         /\ excludeEmpty \in BOOLEAN /\ failOnly \in BOOLEAN
         /\ Shaped(shown) /\ shown.rows \in Seq(DOMAIN good)
         /\ sortDir \in {Unsorted} \cup [column : {"unit", "gas", "total"}, asc : BOOLEAN]
         /\ ViewOk(shown, excludeEmpty, failOnly, query, sortDir)
         /\ StatsOk(shown.stats, ScopeOf(excludeEmpty))
         /\ threw = FALSE /\ DOMAIN good = 1 .. Len(good)
<1>1. /\ RowsKnow /\ MainKnows /\ ShownKnows /\ ViewFollowsControls
      /\ ExactCosts => IsStatsOf(shown.stats, good, Scope, Exact)
  BY DEF PageIInv
<1>2. shown # Unopened
  BY DEF Unopened
<1>3. /\ pc = "done" /\ shown = [part \in Parts |-> shown[part]] /\ shown.open = TRUE
      /\ shown.rows \in Seq(DOMAIN good)
      /\ sortDir \in {Unsorted} \cup [column : {"unit", "gas", "total"}, asc : BOOLEAN]
      /\ excludeEmpty \in BOOLEAN /\ failOnly \in BOOLEAN
  BY <1>1, <1>2, Zenon DEF ShownKnows
<1>4. page = ReportData
  BY <1>1, <1>3 DEF MainKnows
<1>5. DOMAIN good = 1 .. Len(good)
  BY <1>1, GoodKnown
<1>6. ViewOk(shown, excludeEmpty, failOnly, query, sortDir)
  BY <1>1, <1>5, ViewIs
<1>7. StatsOk(shown.stats, ScopeOf(excludeEmpty))
  BY <1>1, <1>5, ScopeIs DEF StatsOk
<1>8. threw = FALSE
  <2>1. ~threw
    BY DEF PageIInv, NoMissingElement
  <2> QED
    BY <2>1
<1> QED
  BY <1>1, <1>3, <1>4, <1>5, <1>6, <1>7, <1>8 DEF Shaped

(* A handler that leaves a correct view keeps the invariant.               *)
LEMMA HandlerKeepsIInv ==
  ASSUME RowsKnow, MainKnows, pc = "done", UNCHANGED mainVars,
         excludeEmpty' \in BOOLEAN, failOnly' \in BOOLEAN,
         Shaped(shown'), shown'.rows \in Seq(DOMAIN good),
         sortDir' \in {Unsorted} \cup [column : {"unit", "gas", "total"}, asc : BOOLEAN],
         ViewOk(shown', excludeEmpty', failOnly', query', sortDir'),
         StatsOk(shown'.stats, ScopeOf(excludeEmpty')), threw' = FALSE
  PROVE  PageIInv'
<1>1. RowsKnow' /\ MainKnows'
  BY MainStands
<1>2. pc' = pc /\ good' = good
  BY DEF mainVars
<1>3. ShownKnows'
  BY <1>2 DEF ShownKnows, Shaped, Unsorted, Parts
<1>4. DOMAIN good = 1 .. Len(good)
  BY GoodKnown
<1>5. /\ ViewFollowsControls'
      /\ shown'.open /\ ExactCosts' => IsStatsOf(shown'.stats, good', Scope', Exact)
  BY <1>4, ViewIsNext
<1> QED
  BY <1>1, <1>3, <1>5 DEF PageIInv, NoMissingElement

(* The handlers, one lemma each: the reader opens the page.                *)
LEMMA OpenKeepsIInv ==
  ASSUME PageIInv, Open PROVE PageIInv'
<1>1. /\ pc = "done" /\ shown = Unopened /\ UNCHANGED mainVars
      /\ excludeEmpty' = excludeEmpty /\ failOnly' = failOnly /\ query' = query
      /\ sortDir' = sortDir /\ threw' = threw
  BY DEF Open
<1>2. shown' = OpenedPage
  BY DEF Open, OpenedPage
<1>3. RowsKnow /\ MainKnows /\ ShownKnows /\ threw = FALSE
  BY DEF PageIInv, NoMissingElement, ShownKnows
<1>4. page = ReportData
  BY <1>1, <1>3 DEF MainKnows
<1>5. excludeEmpty = FALSE /\ failOnly = FALSE /\ query = Texts /\ sortDir = Unsorted
  <2>1. ~(Unopened.open = TRUE)
    BY DEF Unopened
  <2> QED
    BY <1>1, <1>3, <2>1 DEF ShownKnows
<1>6. /\ Shaped(OpenedPage) /\ OpenedPage.rows \in Seq(DOMAIN good)
      /\ ViewOk(OpenedPage, FALSE, FALSE, Texts, Unsorted)
      /\ StatsOk(OpenedPage.stats, ScopeOf(FALSE))
  BY <1>3, <1>4, OpenedIsRight
<1>7. /\ excludeEmpty' = FALSE /\ failOnly' = FALSE /\ query' = Texts /\ sortDir' = Unsorted
      /\ threw' = FALSE
  BY <1>1, <1>3, <1>5
<1>8. /\ Shaped(shown') /\ shown'.rows \in Seq(DOMAIN good)
      /\ ViewOk(shown', excludeEmpty', failOnly', query', sortDir')
      /\ StatsOk(shown'.stats, ScopeOf(excludeEmpty'))
  BY <1>2, <1>6, <1>7, Zenon
<1> QED
  BY <1>1, <1>3, <1>7, <1>8, HandlerKeepsIInv

(* The switch that leaves out the units without gas.                       *)
LEMMA ToggleExcludeKeepsIInv ==
  ASSUME PageIInv, ToggleExclude PROVE PageIInv'
<1>1. /\ shown.open /\ HasToolbar /\ UNCHANGED mainVars
      /\ excludeEmpty' = ~excludeEmpty /\ shown' = Refresh(excludeEmpty')
      /\ threw' = (threw \/ ~HasRawTable)
      /\ failOnly' = failOnly /\ query' = query /\ sortDir' = sortDir
  BY DEF ToggleExclude
<1>2. /\ RowsKnow /\ MainKnows /\ pc = "done" /\ page = ReportData
      /\ excludeEmpty \in BOOLEAN /\ failOnly \in BOOLEAN
      /\ Shaped(shown) /\ shown.rows \in Seq(DOMAIN good)
      /\ sortDir \in {Unsorted} \cup [column : {"unit", "gas", "total"}, asc : BOOLEAN]
      /\ TableOk(shown.rows, sortDir) /\ threw = FALSE
  BY <1>1, Opened, Zenon DEF ViewOk
<1>3. HasRawTable
  <2>1. page.raw = good /\ page.emptyCount = Len(Empty(good)) /\ page.emptyCount > 0
    BY <1>1, <1>2 DEF HasToolbar, ReportData, EmptyCount
  <2>2. /\ good \in Seq(RowType) /\ Len(good) \in Nat
    BY <1>2, GoodKnown
  <2>3. /\ Len(Worked(good)) \in Nat /\ Len(Empty(good)) \in Nat
        /\ Len(Worked(good)) + Len(Empty(good)) = Len(good)
    BY <2>2, GasPartition
  <2>4. Len(good) # 0
    BY <2>1, <2>2, <2>3
  <2>5. Len(<< >>) = 0
    OBVIOUS
  <2>6. good # << >>
    BY <2>4, <2>5, Zenon
  <2> QED
    BY <2>1, <2>6 DEF HasRawTable
<1>4. threw' = FALSE /\ excludeEmpty' \in BOOLEAN
  BY <1>1, <1>2, <1>3
<1> DEFINE se == excludeEmpty'
<1> HIDE DEF se
<1>5. /\ Shaped(Refresh(se)) /\ Refresh(se).rows = shown.rows
      /\ ViewOk(Refresh(se), se, failOnly, query, sortDir)
      /\ StatsOk(Refresh(se).stats, ScopeOf(se))
  <2>1. se \in BOOLEAN
    BY <1>4 DEF se
  <2> QED
    BY <1>2, <1>3, <2>1, RefreshIsRight
<1>6. shown' = Refresh(se) /\ se = excludeEmpty'
  BY <1>1 DEF se
<1>7. /\ Shaped(shown') /\ shown'.rows \in Seq(DOMAIN good)
      /\ ViewOk(shown', excludeEmpty', failOnly', query', sortDir')
      /\ StatsOk(shown'.stats, ScopeOf(excludeEmpty'))
  BY <1>1, <1>2, <1>5, <1>6, Zenon
<1> QED
  BY <1>1, <1>2, <1>4, <1>7, HandlerKeepsIInv

(* A filter or a search only changes which rows are displayed.             *)
LEMMA FilterKeepsIInv ==
  ASSUME PageIInv, shown.open, UNCHANGED mainVars,
         excludeEmpty' = excludeEmpty, failOnly' \in BOOLEAN, sortDir' = sortDir, threw' = threw,
         shown' = [shown EXCEPT !.hidden = HiddenRows(failOnly', query', excludeEmpty)]
  PROVE  PageIInv'
<1>1. /\ RowsKnow /\ MainKnows /\ pc = "done" /\ page = ReportData
      /\ excludeEmpty \in BOOLEAN /\ failOnly \in BOOLEAN
      /\ Shaped(shown) /\ shown.rows \in Seq(DOMAIN good)
      /\ sortDir \in {Unsorted} \cup [column : {"unit", "gas", "total"}, asc : BOOLEAN]
      /\ ViewOk(shown, excludeEmpty, failOnly, query, sortDir)
      /\ StatsOk(shown.stats, ScopeOf(excludeEmpty))
      /\ threw = FALSE
  BY Opened
<1> DEFINE hd == HiddenRows(failOnly', query', excludeEmpty)
<1>2. HiddenOk(hd, excludeEmpty, failOnly', query')
  BY <1>1, HiddenIsRight
<1> HIDE DEF hd
<1>3. shown' = [shown EXCEPT !.hidden = hd]
  BY DEF hd
<1>4. /\ shown'.hidden = hd /\ shown'.rows = shown.rows /\ shown'.said = shown.said
      /\ shown'.rank = shown.rank /\ shown'.suites = shown.suites
      /\ shown'.medians = shown.medians /\ shown'.units = shown.units
      /\ shown'.stats = shown.stats
  BY <1>1, <1>3 DEF Shaped, Parts
<1>5. Shaped(shown')
  BY <1>1, <1>3, <1>4 DEF Shaped, Parts
<1>6. ViewOk(shown', excludeEmpty', failOnly', query', sortDir')
  BY <1>1, <1>2, <1>4, Zenon DEF ViewOk
<1>7. /\ StatsOk(shown'.stats, ScopeOf(excludeEmpty'))
      /\ shown'.rows \in Seq(DOMAIN good)
      /\ sortDir' \in {Unsorted} \cup [column : {"unit", "gas", "total"}, asc : BOOLEAN]
      /\ excludeEmpty' \in BOOLEAN /\ threw' = FALSE
  BY <1>1, <1>4, Zenon
<1> QED
  BY <1>1, <1>5, <1>6, <1>7, HandlerKeepsIInv

(* A click on a column's head.                                             *)
LEMMA SortTableKeepsIInv ==
  ASSUME PageIInv, NEW col \in Columns, SortTable(col) PROVE PageIInv'
<1> DEFINE asc == ~(sortDir.column = col /\ sortDir.asc)
           less(a, b) == IF asc THEN CellLess(a, b, col) ELSE CellLess(b, a, col)
           t == SliceStable(less, shown.rows)
           sd == [column |-> col, asc |-> asc]
<1>1. /\ shown.open /\ UNCHANGED mainVars
      /\ excludeEmpty' = excludeEmpty /\ failOnly' = failOnly /\ query' = query
      /\ threw' = threw /\ sortDir' = sd /\ shown' = [shown EXCEPT !.rows = t]
  BY DEF SortTable
<1>2. /\ RowsKnow /\ MainKnows /\ pc = "done" /\ page = ReportData
      /\ excludeEmpty \in BOOLEAN /\ failOnly \in BOOLEAN
      /\ Shaped(shown) /\ shown.rows \in Seq(DOMAIN good)
      /\ ViewOk(shown, excludeEmpty, failOnly, query, sortDir)
      /\ StatsOk(shown.stats, ScopeOf(excludeEmpty))
      /\ threw = FALSE
  BY <1>1, Opened
<1>3. IsInjective(shown.rows) /\ Range(shown.rows) = DOMAIN good
  BY <1>2, Zenon DEF ViewOk, TableOk
<1>4. col \in {"unit", "gas", "total"} /\ asc \in BOOLEAN
  BY PageAssumption
<1>5. t \in Seq(DOMAIN good) /\ TableOk(t, sd)
  <2> HIDE DEF asc
  <2> QED
    BY <1>2, <1>3, <1>4, SortedTable
<1>6. sd \in {Unsorted} \cup [column : {"unit", "gas", "total"}, asc : BOOLEAN]
  <2> HIDE DEF asc
  <2> QED
    BY <1>4
<1> HIDE DEF t, sd
<1>7. /\ shown'.rows = t /\ shown'.hidden = shown.hidden /\ shown'.said = shown.said
      /\ shown'.rank = shown.rank /\ shown'.suites = shown.suites
      /\ shown'.medians = shown.medians /\ shown'.units = shown.units
      /\ shown'.stats = shown.stats
  BY <1>1, <1>2 DEF Shaped, Parts
<1>8. Shaped(shown')
  BY <1>1, <1>2, <1>7 DEF Shaped, Parts
<1>9. ViewOk(shown', excludeEmpty', failOnly', query', sortDir')
  BY <1>1, <1>2, <1>5, <1>7, Zenon DEF ViewOk
<1>10. /\ StatsOk(shown'.stats, ScopeOf(excludeEmpty'))
       /\ shown'.rows \in Seq(DOMAIN good) /\ excludeEmpty' \in BOOLEAN /\ failOnly' \in BOOLEAN
       /\ threw' = FALSE
       /\ sortDir' \in {Unsorted} \cup [column : {"unit", "gas", "total"}, asc : BOOLEAN]
  BY <1>1, <1>2, <1>5, <1>6, <1>7, Zenon
<1> QED
  BY <1>1, <1>2, <1>8, <1>9, <1>10, HandlerKeepsIInv

(* Every step of main or of a reader keeps the invariant.                  *)
LEMMA NextPageIInv == PageIInv /\ [Next]_vars => PageIInv'
<1> SUFFICES ASSUME PageIInv, [Next]_vars PROVE PageIInv'
  OBVIOUS
<1>1. CASE Main
  BY <1>1, MainKeepsIInv
<1>2. CASE Open
  BY <1>2, OpenKeepsIInv
<1>3. CASE ToggleExclude
  BY <1>3, ToggleExcludeKeepsIInv
<1>4. CASE ToggleFailOnly
  <2>1. /\ shown.open /\ UNCHANGED mainVars
        /\ excludeEmpty' = excludeEmpty /\ sortDir' = sortDir /\ threw' = threw
        /\ query' = query /\ failOnly' = ~failOnly
        /\ shown' = [shown EXCEPT !.hidden = HiddenRows(failOnly', query, excludeEmpty)]
    BY <1>4 DEF ToggleFailOnly
  <2>2. failOnly' \in BOOLEAN
    BY <2>1
  <2>3. shown' = [shown EXCEPT !.hidden = HiddenRows(failOnly', query', excludeEmpty)]
    BY <2>1, Zenon
  <2> QED
    BY <2>1, <2>2, <2>3, FilterKeepsIInv
<1>5. ASSUME NEW q \in Queries \cup {Texts}, Search(q) PROVE PageIInv'
  <2>1. /\ shown.open /\ UNCHANGED mainVars
        /\ excludeEmpty' = excludeEmpty /\ sortDir' = sortDir /\ threw' = threw
        /\ query' = q /\ failOnly' = failOnly
        /\ shown' = [shown EXCEPT !.hidden = HiddenRows(failOnly, q, excludeEmpty)]
    BY <1>5 DEF Search
  <2>2. failOnly' \in BOOLEAN
    BY <2>1, Opened
  <2>3. shown' = [shown EXCEPT !.hidden = HiddenRows(failOnly', query', excludeEmpty)]
    BY <2>1, Zenon
  <2> QED
    BY <2>1, <2>2, <2>3, FilterKeepsIInv
<1>6. ASSUME NEW col \in Columns, SortTable(col) PROVE PageIInv'
  BY <1>6, SortTableKeepsIInv
<1>7. CASE UNCHANGED vars
  <2>1. UNCHANGED mainVars /\ UNCHANGED pageVars
    BY <1>7 DEF vars
  <2>2. RowsKnow /\ MainKnows /\ ShownKnows /\ NoMissingElement
    BY DEF PageIInv
  <2>3. RowsKnow' /\ MainKnows'
    BY <2>1, <2>2, MainStands
  <2>4. ShownKnows' /\ NoMissingElement'
    BY <2>1, <2>2 DEF ShownKnows, NoMissingElement, mainVars, pageVars
  <2>5. DOMAIN good = 1 .. Len(good)
    BY <2>2, GoodKnown
  <2>6. /\ shown' = shown /\ excludeEmpty' = excludeEmpty /\ failOnly' = failOnly
        /\ query' = query /\ sortDir' = sortDir
    BY <2>1 DEF pageVars
  <2>7. shown'.open => /\ ViewOk(shown', excludeEmpty', failOnly', query', sortDir')
                       /\ StatsOk(shown'.stats, ScopeOf(excludeEmpty'))
    <3>1. shown.open => /\ ViewOk(shown, excludeEmpty, failOnly, query, sortDir)
                        /\ StatsOk(shown.stats, ScopeOf(excludeEmpty))
      BY Opened
    <3> QED
      BY <2>6, <3>1, Zenon
  <2>8. /\ ViewFollowsControls'
        /\ shown'.open /\ ExactCosts' => IsStatsOf(shown'.stats, good', Scope', Exact)
    BY <2>1, <2>5, <2>7, ViewIsNext
  <2> QED
    BY <2>3, <2>4, <2>8 DEF PageIInv
<1> QED
  BY <1>1, <1>2, <1>3, <1>4, <1>5, <1>6, <1>7 DEF Next

(* The inductive invariant holds always.                                   *)
LEMMA AlwaysPageIInv == Spec => []PageIInv
BY InitPageIInv, NextPageIInv, PTL DEF Spec

(* Whatever units a run has and however they end, its report loses none    *)
(* and shows none twice, and the numbers logged are the sizes of the tables*)
(* (main's loop, printSummary and writeReport).                            *)
THEOREM TablesAlwaysPartition == Spec => []TablesPartition
<1>1. PageIInv => TablesPartition
  BY TablesHold DEF PageIInv
<1> QED
  BY <1>1, AlwaysPageIInv, PTL

(* In a run of one kind of fixtures, of any number of units that arrive by *)
(* path across suites and numbers, the raw table and the CSV file have     *)
(* their rows in the one order that sortResults promises, ties by the place*)
(* of the units in the files, and an unfinished CSV file is a beginning of *)
(* it.                                                                     *)
THEOREM RowsAlwaysInOrder == Spec => []RowsInOrder
<1>1. PageIInv => RowsInOrder
  BY RowsHold DEF PageIInv
<1> QED
  BY <1>1, AlwaysPageIInv, PTL

(* Go's computeStats and the script's statsOf are, after any sequence of   *)
(* clicks, the minimum, median, maximum and average of the units they are  *)
(* said to be about, for any number of units. Go's are for any costs, the  *)
(* average as long as the sum fits a word; the script's as long as no cost *)
(* is above 2^53, the average as long as the sum is not.                   *)
THEOREM StatsAlwaysRight == Spec => []StatsAreRight
<1>1. PageIInv => StatsAreRight
  BY MainStats DEF PageIInv, StatsAreRight
<1> QED
  BY <1>1, AlwaysPageIInv, PTL

(* After any sequence of clicks and searches the page shows what its       *)
(* controls say: rows, filters, counts, curve, suites and medians; the     *)
(* costs and the order of a column as long as its numbers are not above    *)
(* 2^53.                                                                   *)
THEOREM ViewAlwaysFollows == Spec => []ViewFollowsControls
<1>1. PageIInv => ViewFollowsControls
  BY DEF PageIInv
<1> QED
  BY <1>1, AlwaysPageIInv, PTL

(* No handler looks for an element that the page does not have: the box is *)
(* there only if some measured unit used no gas, and then there is a table.*)
THEOREM NoElementEverMissing == Spec => []NoMissingElement
<1>1. PageIInv => NoMissingElement
  BY DEF PageIInv
<1> QED
  BY <1>1, AlwaysPageIInv, PTL
===============================================================================
