------------------------------ MODULE SliceProofs -----------------------------
(***************************************************************************)
(* What the loops of module Slices compute, for every slice. The proofs are*)
(* by induction on how many elements were passed. An induction theorem with*)
(* an operator as its parameter cannot be used here: Induction takes a set *)
(* and follows from the well-foundedness of the strict subset order.       *)
(***************************************************************************)
EXTENDS Slices, FiniteSetTheorems, SequenceTheorems, TLAPS

-------------------------------------------------------------------------------
(* Induction and recursion                                                 *)

(* A set of naturals that is not empty has a least element.                *)
LEMMA Least ==
  ASSUME NEW N \in SUBSET Nat, N # {}
  PROVE  \E m \in N : \A k \in N : m <= k
<1> DEFINE T == {1 .. n : n \in N}
<1>1. T \subseteq FiniteSubsetsOf(Nat)
  BY FS_Interval DEF FiniteSubsetsOf
<1>2. IsWellFoundedOn(StrictSubsetOrdering(Nat), FiniteSubsetsOf(Nat))
  BY FS_StrictSubsetOrderingWellFounded
<1>3. PICK x \in T : \A y \in T : <<y, x>> \notin StrictSubsetOrdering(Nat)
  <2>1. T # {}
    OBVIOUS
  <2> QED
    BY <1>1, <1>2, <2>1, WFMin
<1>4. PICK m \in N : x = 1 .. m
  OBVIOUS
<1>5. ASSUME NEW k \in N, k < m PROVE FALSE
  <2>1. m \in 1 .. m /\ m \notin 1 .. k
    BY <1>5
  <2>2. 1 .. k \subseteq 1 .. m /\ 1 .. k # 1 .. m /\ 1 .. k \subseteq Nat /\ 1 .. m \subseteq Nat
    BY <1>5, <2>1
  <2>3. <<1 .. k, 1 .. m>> \in StrictSubsetOrdering(Nat)
    BY <2>2 DEF StrictSubsetOrdering
  <2> QED
    BY <1>3, <1>4, <2>3
<1> QED
  BY <1>5

(* Induction on the naturals: what is true is membership in a set.         *)
LEMMA Induction ==
  ASSUME NEW S, 0 \in S, \A n \in Nat : n \in S => n + 1 \in S
  PROVE  \A n \in Nat : n \in S
<1> DEFINE N == {k \in Nat : k \notin S}
<1> SUFFICES ASSUME N # {} PROVE FALSE
  OBVIOUS
<1>1. PICK m \in N : \A k \in N : m <= k
  BY Least
<1>2. m - 1 \in Nat /\ m - 1 \in S
  BY <1>1
<1> QED
  BY <1>1, <1>2

(* Loops of n steps over the values of S, and the values that they run     *)
(* through.                                                                *)
Loops(S, n) == [1 .. n -> [S -> S]]

RunOf(step, S, n, base, f) ==
  /\ f \in [0 .. n -> S]
  /\ f[0] = base
  /\ \A i \in 1 .. n : f[i] = step[i][f[i - 1]]

(* A loop of n steps has a run: each value follows from the one before.    *)
LEMMA Recursion ==
  ASSUME NEW S, NEW n \in Nat, NEW base \in S, NEW step \in Loops(S, n)
  PROVE  \E f : RunOf(step, S, n, base, f)
<1> USE DEF Loops, RunOf
<1> DEFINE Values(k) ==
             \E f \in [0 .. k -> S] :
               f[0] = base /\ \A i \in 1 .. k : f[i] = step[i][f[i - 1]]
           K == {k \in Nat : k <= n => Values(k)}
<1>1. 0 \in K
  <2> DEFINE f == [i \in 0 .. 0 |-> base]
  <2>1. f \in [0 .. 0 -> S] /\ f[0] = base /\ \A i \in 1 .. 0 : f[i] = step[i][f[i - 1]]
    OBVIOUS
  <2>2. Values(0)
    BY <2>1
  <2> QED
    BY <2>2
<1>2. ASSUME NEW k \in Nat, k \in K PROVE k + 1 \in K
  <2> SUFFICES ASSUME k + 1 <= n PROVE Values(k + 1)
    OBVIOUS
  <2>1. PICK f \in [0 .. k -> S] :
          f[0] = base /\ \A i \in 1 .. k : f[i] = step[i][f[i - 1]]
    BY <1>2
  <2> DEFINE g == [i \in 0 .. k + 1 |-> IF i <= k THEN f[i] ELSE step[k + 1][f[k]]]
  <2>2. step[k + 1][f[k]] \in S
    BY <2>1
  <2>3. g \in [0 .. k + 1 -> S]
    BY <2>2
  <2>4. g[0] = base /\ \A i \in 1 .. k + 1 : g[i] = step[i][g[i - 1]]
    BY <2>1
  <2> QED
    BY <2>3, <2>4
<1>3. n \in K
  <2> HIDE DEF K
  <2> QED
    BY <1>1, <1>2, Induction
<1> QED
  BY <1>3

-------------------------------------------------------------------------------
(* Filtering                                                               *)

(* The loop of Kept.                                                       *)
KeptRun(A, s, T, f) ==
  /\ f \in [0 .. Len(s) -> Seq(A)]
  /\ f[0] = << >>
  /\ \A n \in 1 .. Len(s) :
       f[n] = IF s[n] \in T THEN Append(f[n - 1], s[n]) ELSE f[n - 1]

(* Kept is where the run of its loop ends.                                 *)
LEMMA KeptLoop ==
  ASSUME NEW A, NEW s \in Seq(A), NEW T
  PROVE  \E f : KeptRun(A, s, T, f) /\ Kept(s, T) = f[Len(s)]
<1> DEFINE N == Len(s)
           V == Seq(A)
           step == [n \in 1 .. N |-> [v \in V |-> IF s[n] \in T THEN Append(v, s[n]) ELSE v]]
           Loop(f) == f = [n \in 0 .. N |->
                             IF n = 0 THEN << >>
                             ELSE IF s[n] \in T THEN Append(f[n - 1], s[n]) ELSE f[n - 1]]
<1>1. N \in Nat /\ << >> \in V /\ \A n \in 1 .. N : s[n] \in A
  BY EmptySeq, LenProperties, ElementOfSeq
<1>2. \A n \in 1 .. N, v \in V : Append(v, s[n]) \in V
  BY <1>1, AppendProperties
<1>3. PICK f : RunOf(step, V, N, << >>, f)
  <2>1. step \in Loops(V, N)
    BY <1>2 DEF Loops
  <2> HIDE DEF step, N, V
  <2> QED
    BY <1>1, <2>1, Recursion
<1> HIDE DEF N, V
<1>4. Loop(f)
  <2>1. f \in [0 .. N -> V] /\ f[0] = << >> /\ \A n \in 1 .. N : f[n] = step[n][f[n - 1]]
    BY <1>3 DEF RunOf
  <2>2. \A n \in 1 .. N : f[n - 1] \in V
    BY <1>1, <2>1
  <2>3. \A n \in 1 .. N : f[n] = IF s[n] \in T THEN Append(f[n - 1], s[n]) ELSE f[n - 1]
    BY <2>1, <2>2
  <2> HIDE DEF step
  <2>4. \A n \in 0 .. N : f[n] = IF n = 0 THEN << >>
           ELSE IF s[n] \in T THEN Append(f[n - 1], s[n]) ELSE f[n - 1]
    <3>1. \A n \in 0 .. N : n # 0 => n \in 1 .. N
      BY <1>1
    <3> QED
      BY <2>1, <2>3, <3>1, Zenon
  <2> QED
    BY <2>1, <2>4
<1>5. PICK g : Loop(g) /\ Kept(s, T) = g[N]
  BY <1>4, Zenon DEF Kept, N
<1>6. /\ DOMAIN g = 0 .. N
      /\ \A n \in 0 .. N :
           g[n] = IF n = 0 THEN << >>
                  ELSE IF s[n] \in T THEN Append(g[n - 1], s[n]) ELSE g[n - 1]
  <2>1. \A h : h = [n \in 0 .. N |->
                     IF n = 0 THEN << >>
                     ELSE IF s[n] \in T THEN Append(g[n - 1], s[n]) ELSE g[n - 1]] =>
               /\ DOMAIN h = 0 .. N
               /\ \A n \in 0 .. N :
                    h[n] = IF n = 0 THEN << >>
                           ELSE IF s[n] \in T THEN Append(g[n - 1], s[n]) ELSE g[n - 1]
    OBVIOUS
  <2> QED
    BY <1>5, <2>1
<1>7. g[0] = << >> /\ \A n \in 1 .. N :
        g[n] = IF s[n] \in T THEN Append(g[n - 1], s[n]) ELSE g[n - 1]
  <2>1. 0 \in 0 .. N /\ \A n \in 1 .. N : n \in 0 .. N /\ n # 0
    BY <1>1
  <2> QED
    BY <1>6, <2>1, Zenon
<1>8. \A n \in 0 .. N : g[n] \in V
  <2> DEFINE K == {n \in Nat : n <= N => g[n] \in V}
  <2>1. 0 \in K
    BY <1>1, <1>7
  <2>2. ASSUME NEW n \in Nat, n \in K PROVE n + 1 \in K
    <3> SUFFICES ASSUME n + 1 <= N PROVE g[n + 1] \in V
      OBVIOUS
    <3>1. g[n] \in V /\ n + 1 \in 1 .. N /\ (n + 1) - 1 = n
      BY <1>1, <2>2
    <3>2. g[n + 1] = IF s[n + 1] \in T THEN Append(g[n], s[n + 1]) ELSE g[n]
      BY <1>7, <3>1
    <3> QED
      BY <1>2, <3>1, <3>2
  <2>3. \A n \in Nat : n \in K
    <3> HIDE DEF K
    <3> QED
      BY <2>1, <2>2, Induction
  <2> QED
    BY <1>1, <2>3
<1>9. g \in [0 .. N -> V]
  BY <1>5, <1>8, Zenon
<1> QED
  BY <1>5, <1>7, <1>9 DEF KeptRun, N, V

(* Filtering keeps the elements at certain indices, which are those of the *)
(* elements in T among the first n, in their order.                        *)
Picks(ix, K, s, n, T) ==
  /\ ix \in [1 .. Len(K) -> 1 .. n]
  /\ \A i, j \in 1 .. Len(K) : i < j => ix[i] < ix[j]
  /\ \A k \in 1 .. Len(K) : K[k] = s[ix[k]] /\ s[ix[k]] \in T
  /\ \A i \in 1 .. n : s[i] \in T => \E k \in 1 .. Len(K) : ix[k] = i

(* Kept picks the elements in T by ascending positions, each position once.*)
LEMMA KeptPicks ==
  ASSUME NEW A, NEW s \in Seq(A), NEW T
  PROVE  /\ Kept(s, T) \in Seq(A)
         /\ \E ix : Picks(ix, Kept(s, T), s, Len(s), T)
<1>1. PICK f : KeptRun(A, s, T, f) /\ Kept(s, T) = f[Len(s)]
  BY KeptLoop
<1>2. Len(s) \in Nat /\ \A n \in 1 .. Len(s) : s[n] \in A
  BY LenProperties, ElementOfSeq
<1> DEFINE Q(n) == \E ix : Picks(ix, f[n], s, n, T)
           K == {n \in Nat : n <= Len(s) => Q(n)}
<1>3. 0 \in K
  <2>1. f[0] = << >> /\ Len(<< >>) = 0
    BY <1>1, EmptySeq DEF KeptRun
  <2>2. Picks([k \in 1 .. 0 |-> 0], f[0], s, 0, T)
    BY <2>1 DEF Picks
  <2> QED
    BY <2>2
<1>4. ASSUME NEW n \in Nat, n \in K PROVE n + 1 \in K
  <2> SUFFICES ASSUME n + 1 <= Len(s) PROVE Q(n + 1)
    OBVIOUS
  <2>1. PICK ix : Picks(ix, f[n], s, n, T)
    BY <1>2, <1>4
  <2>2. /\ f[n] \in Seq(A) /\ n + 1 \in 1 .. Len(s) /\ (n + 1) - 1 = n
        /\ f[n + 1] = IF s[n + 1] \in T THEN Append(f[n], s[n + 1]) ELSE f[n]
    <3>1. n \in 0 .. Len(s) /\ n + 1 \in 1 .. Len(s) /\ (n + 1) - 1 = n
      BY <1>2
    <3> QED
      BY <1>1, <3>1 DEF KeptRun
  <2> DEFINE m == Len(f[n])
  <2>3. m \in Nat
    BY <2>2, LenProperties
  <2>4. CASE s[n + 1] \notin T
    <3>1. Picks(ix, f[n], s, n + 1, T)
      BY <2>1, <2>3, <2>4 DEF Picks
    <3> QED
      BY <2>2, <2>4, <3>1
  <2>5. CASE s[n + 1] \in T
    <3> DEFINE jx == [k \in 1 .. m + 1 |-> IF k <= m THEN ix[k] ELSE n + 1]
               g == f[n + 1]
    <3>1. /\ Len(g) = m + 1 /\ g[m + 1] = s[n + 1]
          /\ \A k \in 1 .. m : g[k] = f[n][k]
      BY <1>2, <2>2, <2>5, AppendProperties
    <3>2. /\ ix \in [1 .. m -> 1 .. n]
          /\ \A i, j \in 1 .. m : i < j => ix[i] < ix[j]
          /\ \A k \in 1 .. m : f[n][k] = s[ix[k]] /\ s[ix[k]] \in T
          /\ \A i \in 1 .. n : s[i] \in T => \E k \in 1 .. m : ix[k] = i
      BY <2>1 DEF Picks
    <3> HIDE DEF m, g
    <3>3. jx \in [1 .. m + 1 -> 1 .. n + 1]
      BY <2>3, <3>2
    <3>4. \A i, j \in 1 .. m + 1 : i < j => jx[i] < jx[j]
      BY <2>3, <3>2
    <3>5. \A k \in 1 .. m + 1 : g[k] = s[jx[k]] /\ s[jx[k]] \in T
      <4> SUFFICES ASSUME NEW k \in 1 .. m + 1 PROVE g[k] = s[jx[k]] /\ s[jx[k]] \in T
        OBVIOUS
      <4>1. CASE k = m + 1
        BY <2>3, <2>5, <3>1, <4>1
      <4>2. CASE k # m + 1
        BY <2>3, <3>1, <3>2, <4>2
      <4> QED
        BY <4>1, <4>2
    <3>6. \A i \in 1 .. n + 1 : s[i] \in T => \E k \in 1 .. m + 1 : jx[k] = i
      <4> SUFFICES ASSUME NEW i \in 1 .. n + 1, s[i] \in T
                   PROVE  \E k \in 1 .. m + 1 : jx[k] = i
        OBVIOUS
      <4>1. CASE i = n + 1
        BY <2>3, <4>1
      <4>2. CASE i # n + 1
        <5>1. PICK k \in 1 .. m : ix[k] = i
          BY <3>2, <4>2
        <5>2. k \in 1 .. m + 1 /\ jx[k] = i
          BY <2>3, <5>1
        <5> QED
          BY <5>2
      <4> QED
        BY <4>1, <4>2
    <3> HIDE DEF jx
    <3>7. Picks(jx, g, s, n + 1, T)
      BY <3>1, <3>3, <3>4, <3>5, <3>6 DEF Picks
    <3> QED
      BY <3>7 DEF g
  <2> QED
    BY <2>4, <2>5
<1>5. Q(Len(s))
  <2>1. \A n \in Nat : n \in K
    <3> HIDE DEF K
    <3> QED
      BY <1>3, <1>4, Induction
  <2> QED
    BY <1>2, <2>1
<1> QED
  BY <1>1, <1>2, <1>5 DEF KeptRun

-------------------------------------------------------------------------------
(* Sorting                                                                 *)

(* What is least in a set of naturals.                                     *)
LEMMA MinIsLeast ==
  ASSUME NEW S \in SUBSET Nat, S # {}
  PROVE  Min(S) \in S /\ \A x \in S : Min(S) <= x
BY Least DEF Min

(* What is greatest in a set of naturals that has a bound.                 *)
LEMMA Greatest ==
  ASSUME NEW b \in Nat, NEW N \in SUBSET (0 .. b), N # {}
  PROVE  Max(N) \in N /\ \A k \in N : k <= Max(N)
<1> DEFINE D == {b - k : k \in N}
<1>1. D \in SUBSET Nat /\ D # {}
  OBVIOUS
<1>2. PICK d \in D : \A e \in D : d <= e
  BY <1>1, Least
<1>3. b - d \in N /\ \A k \in N : b - d >= k
  BY <1>2
<1>4. \E m \in N : \A k \in N : m >= k
  BY <1>3
<1>5. Max(N) \in N /\ \A k \in N : Max(N) >= k
  BY <1>4, Zenon DEF Max
<1> QED
  BY <1>5

(* Where an element goes: after the last one that it is not less than.     *)
LEMMA InsertedPlace ==
  ASSUME NEW A, NEW s \in Seq(A), NEW x \in A, NEW R
  PROVE  \E k \in 0 .. Len(s) :
           LET t == Inserted(R, s, x) IN
             /\ t \in Seq(A) /\ Len(t) = Len(s) + 1
             /\ t[k + 1] = x
             /\ \A i \in 1 .. k : t[i] = s[i]
             /\ \A i \in k + 2 .. Len(s) + 1 : t[i] = s[i - 1]
             /\ \A i \in k + 1 .. Len(s) : <<x, s[i]>> \in R
             /\ k # 0 => <<x, s[k]>> \notin R
<1> DEFINE N == {0} \cup {i \in DOMAIN s : <<x, s[i]>> \notin R}
           k == Max(N)
           l == SubSeq(s, 1, k)
           r == SubSeq(s, k + 1, Len(s))
<1>1. Len(s) \in Nat /\ DOMAIN s = 1 .. Len(s) /\ \A i \in 1 .. Len(s) : s[i] \in A
  BY LenProperties, ElementOfSeq
<1>2. k \in N /\ \A i \in N : i <= k
  <2>1. N \in SUBSET (0 .. Len(s)) /\ N # {}
    BY <1>1
  <2> HIDE DEF N
  <2> QED
    BY <1>1, <2>1, Greatest
<1>3. /\ k \in 0 .. Len(s)
      /\ \A i \in k + 1 .. Len(s) : <<x, s[i]>> \in R
      /\ k # 0 => <<x, s[k]>> \notin R
  <2> HIDE DEF k
  <2> QED
    BY <1>1, <1>2
<1> HIDE DEF k
<1>4. l \in Seq(A) /\ Len(l) = k /\ \A i \in 1 .. k : l[i] = s[i]
  <2>1. 1 \in Int /\ k \in Int /\ \A i \in 1 .. k : s[i] \in A
    BY <1>1, <1>3
  <2>2. /\ SubSeq(s, 1, k) \in Seq(A)
        /\ Len(SubSeq(s, 1, k)) = IF 1 <= k THEN k - 1 + 1 ELSE 0
        /\ \A i \in 1 .. k - 1 + 1 : SubSeq(s, 1, k)[i] = s[1 + i - 1]
    BY <2>1, SubSeqProperties
  <2> QED
    BY <1>1, <1>3, <2>2
<1>5. r \in Seq(A) /\ Len(r) = Len(s) - k /\ \A i \in 1 .. Len(s) - k : r[i] = s[k + i]
  <2>1. k + 1 \in Int /\ Len(s) \in Int /\ \A i \in k + 1 .. Len(s) : s[i] \in A
    BY <1>1, <1>3
  <2>2. /\ SubSeq(s, k + 1, Len(s)) \in Seq(A)
        /\ Len(SubSeq(s, k + 1, Len(s))) = IF k + 1 <= Len(s) THEN Len(s) - (k + 1) + 1 ELSE 0
        /\ \A i \in 1 .. Len(s) - (k + 1) + 1 : SubSeq(s, k + 1, Len(s))[i] = s[(k + 1) + i - 1]
    BY <2>1, SubSeqProperties
  <2>3. Len(SubSeq(s, k + 1, Len(s))) = Len(s) - k
    <3>1. ASSUME NEW n \in Nat, NEW j \in 0 .. n
          PROVE  (IF j + 1 <= n THEN n - (j + 1) + 1 ELSE 0) = n - j
      OBVIOUS
    <3>2. (IF k + 1 <= Len(s) THEN Len(s) - (k + 1) + 1 ELSE 0) = Len(s) - k
      BY <1>1, <1>3, <3>1, Zenon
    <3> QED
      BY <2>2, <3>2
  <2>4. ASSUME NEW i \in 1 .. Len(s) - k PROVE SubSeq(s, k + 1, Len(s))[i] = s[k + i]
    <3>1. i \in 1 .. Len(s) - (k + 1) + 1 /\ (k + 1) + i - 1 = k + i
      BY <1>1, <1>3
    <3> QED
      BY <2>2, <3>1
  <2> QED
    BY <2>2, <2>3, <2>4
<1> HIDE DEF l, r
<1>6. <<x>> \in Seq(A) /\ Len(<<x>>) = 1 /\ <<x>>[1] = x
  OBVIOUS
<1> DEFINE m == l \o <<x>>
<1>7. /\ m \in Seq(A) /\ Len(m) = k + 1
      /\ \A i \in 1 .. k + 1 : m[i] = IF i <= k THEN s[i] ELSE x
  <2>1. /\ m \in Seq(A) /\ Len(m) = Len(l) + Len(<<x>>)
        /\ \A i \in 1 .. Len(l) + Len(<<x>>) : m[i] = IF i <= Len(l) THEN l[i] ELSE <<x>>[i - Len(l)]
    BY <1>4, <1>6, ConcatProperties
  <2>2. \A i \in 1 .. k + 1 : m[i] = IF i <= k THEN s[i] ELSE x
    <3> SUFFICES ASSUME NEW i \in 1 .. k + 1 PROVE m[i] = IF i <= k THEN s[i] ELSE x
      OBVIOUS
    <3>1. CASE i <= k
      BY <1>3, <1>4, <1>6, <2>1, <3>1
    <3>2. CASE i = k + 1
      BY <1>3, <1>4, <1>6, <2>1, <3>2
    <3>3. i <= k \/ i = k + 1
      BY <1>3
    <3> QED
      BY <3>1, <3>2, <3>3
  <2> QED
    BY <1>4, <1>6, <2>1, <2>2
<1> HIDE DEF m
<1> DEFINE t == m \o r
<1>8. /\ t \in Seq(A) /\ Len(t) = Len(s) + 1
      /\ \A i \in 1 .. Len(s) + 1 : t[i] = IF i <= k + 1 THEN m[i] ELSE r[i - (k + 1)]
  <2>1. /\ t \in Seq(A) /\ Len(t) = Len(m) + Len(r)
        /\ \A i \in 1 .. Len(m) + Len(r) : t[i] = IF i <= Len(m) THEN m[i] ELSE r[i - Len(m)]
    BY <1>5, <1>7, ConcatProperties
  <2>2. Len(m) + Len(r) = Len(s) + 1
    BY <1>1, <1>3, <1>5, <1>7
  <2> QED
    BY <1>7, <2>1, <2>2
<1>9. t = Inserted(R, s, x)
  BY DEF Inserted, m, l, r, k
<1> HIDE DEF t
<1>10. t[k + 1] = x /\ \A i \in 1 .. k : t[i] = s[i]
  BY <1>1, <1>3, <1>7, <1>8
<1>11. \A i \in k + 2 .. Len(s) + 1 : t[i] = s[i - 1]
  <2> SUFFICES ASSUME NEW i \in k + 2 .. Len(s) + 1 PROVE t[i] = s[i - 1]
    OBVIOUS
  <2>1. i - (k + 1) \in 1 .. Len(s) - k /\ k + (i - (k + 1)) = i - 1 /\ i \in 1 .. Len(s) + 1
        /\ ~(i <= k + 1)
    BY <1>1, <1>3
  <2> QED
    BY <1>5, <1>8, <2>1
<1> QED
  BY <1>3, <1>8, <1>9, <1>10, <1>11

(* The loop of SortedBy.                                                   *)
SortRun(A, s, R, f) ==
  /\ f \in [0 .. Len(s) -> Seq(A)]
  /\ f[0] = << >>
  /\ \A n \in 1 .. Len(s) : f[n] = Inserted(R, f[n - 1], s[n])

(* SortedBy is where the run of its loop ends.                             *)
LEMMA SortLoop ==
  ASSUME NEW A, NEW s \in Seq(A), NEW R
  PROVE  \E f : SortRun(A, s, R, f) /\ SortedBy(R, s) = f[Len(s)]
<1> DEFINE N == Len(s)
           V == Seq(A)
           step == [n \in 1 .. N |-> [v \in V |-> Inserted(R, v, s[n])]]
           Loop(f) == f = [n \in 0 .. N |->
                             IF n = 0 THEN << >> ELSE Inserted(R, f[n - 1], s[n])]
<1>1. N \in Nat /\ << >> \in V /\ \A n \in 1 .. N : s[n] \in A
  BY EmptySeq, LenProperties, ElementOfSeq
<1>2. \A n \in 1 .. N, v \in V : Inserted(R, v, s[n]) \in V
  BY <1>1, InsertedPlace
<1>3. PICK f : RunOf(step, V, N, << >>, f)
  <2>1. step \in Loops(V, N)
    BY <1>2 DEF Loops
  <2> HIDE DEF step, N, V
  <2> QED
    BY <1>1, <2>1, Recursion
<1> HIDE DEF N, V
<1>4. Loop(f)
  <2>1. f \in [0 .. N -> V] /\ f[0] = << >> /\ \A n \in 1 .. N : f[n] = step[n][f[n - 1]]
    BY <1>3 DEF RunOf
  <2>2. \A n \in 1 .. N : f[n - 1] \in V
    BY <1>1, <2>1
  <2>3. \A n \in 1 .. N : f[n] = Inserted(R, f[n - 1], s[n])
    BY <2>1, <2>2
  <2> HIDE DEF step
  <2>4. \A n \in 0 .. N : f[n] = IF n = 0 THEN << >> ELSE Inserted(R, f[n - 1], s[n])
    <3>1. \A n \in 0 .. N : n # 0 => n \in 1 .. N
      BY <1>1
    <3> QED
      BY <2>1, <2>3, <3>1, Zenon
  <2> QED
    BY <2>1, <2>4
<1>5. PICK g : Loop(g) /\ SortedBy(R, s) = g[N]
  BY <1>4, Zenon DEF SortedBy, N
<1>6. /\ DOMAIN g = 0 .. N
      /\ \A n \in 0 .. N : g[n] = IF n = 0 THEN << >> ELSE Inserted(R, g[n - 1], s[n])
  <2>1. \A h : h = [n \in 0 .. N |-> IF n = 0 THEN << >> ELSE Inserted(R, g[n - 1], s[n])] =>
               /\ DOMAIN h = 0 .. N
               /\ \A n \in 0 .. N : h[n] = IF n = 0 THEN << >> ELSE Inserted(R, g[n - 1], s[n])
    OBVIOUS
  <2> QED
    BY <1>5, <2>1
<1>7. g[0] = << >> /\ \A n \in 1 .. N : g[n] = Inserted(R, g[n - 1], s[n])
  <2>1. 0 \in 0 .. N /\ \A n \in 1 .. N : n \in 0 .. N /\ n # 0
    BY <1>1
  <2> QED
    BY <1>6, <2>1, Zenon
<1>8. \A n \in 0 .. N : g[n] \in V
  <2> DEFINE K == {n \in Nat : n <= N => g[n] \in V}
  <2>1. 0 \in K
    BY <1>1, <1>7
  <2>2. ASSUME NEW n \in Nat, n \in K PROVE n + 1 \in K
    <3> SUFFICES ASSUME n + 1 <= N PROVE g[n + 1] \in V
      OBVIOUS
    <3>1. g[n] \in V /\ n + 1 \in 1 .. N /\ (n + 1) - 1 = n
      BY <1>1, <2>2
    <3>2. g[n + 1] = Inserted(R, g[n], s[n + 1])
      BY <1>7, <3>1
    <3> QED
      BY <1>2, <3>1, <3>2
  <2>3. \A n \in Nat : n \in K
    <3> HIDE DEF K
    <3> QED
      BY <2>1, <2>2, Induction
  <2> QED
    BY <1>1, <2>3
<1>9. g \in [0 .. N -> V]
  BY <1>5, <1>8, Zenon
<1> QED
  BY <1>5, <1>7, <1>9 DEF SortRun, N, V

(* The loop of Total.                                                      *)
SumRun(s, f) ==
  /\ f \in [0 .. Len(s) -> Nat]
  /\ f[0] = 0
  /\ \A n \in 1 .. Len(s) : f[n] = f[n - 1] + s[n]

(* Total is where the run of its loop ends.                                *)
LEMMA SumLoop ==
  ASSUME NEW s \in Seq(Nat)
  PROVE  \E f : SumRun(s, f) /\ Total(s) = f[Len(s)]
<1> DEFINE N == Len(s)
           step == [n \in 1 .. N |-> [v \in Nat |-> v + s[n]]]
           Loop(f) == f = [n \in 0 .. N |-> IF n = 0 THEN 0 ELSE f[n - 1] + s[n]]
<1>1. N \in Nat /\ \A n \in 1 .. N : s[n] \in Nat
  BY LenProperties, ElementOfSeq
<1>2. PICK f : RunOf(step, Nat, N, 0, f)
  <2>1. step \in Loops(Nat, N)
    BY <1>1 DEF Loops
  <2> HIDE DEF step, N
  <2> QED
    BY <1>1, <2>1, Recursion
<1> HIDE DEF N
<1>3. Loop(f)
  <2>1. f \in [0 .. N -> Nat] /\ f[0] = 0 /\ \A n \in 1 .. N : f[n] = step[n][f[n - 1]]
    BY <1>2 DEF RunOf
  <2>2. \A n \in 1 .. N : f[n - 1] \in Nat
    BY <1>1, <2>1
  <2>3. \A n \in 1 .. N : f[n] = f[n - 1] + s[n]
    BY <2>1, <2>2
  <2> HIDE DEF step
  <2>4. \A n \in 0 .. N : f[n] = IF n = 0 THEN 0 ELSE f[n - 1] + s[n]
    <3>1. \A n \in 0 .. N : n # 0 => n \in 1 .. N
      BY <1>1
    <3> QED
      BY <2>1, <2>3, <3>1, Zenon
  <2> QED
    BY <2>1, <2>4
<1>4. PICK g : Loop(g) /\ Total(s) = g[N]
  BY <1>3, Zenon DEF Total, N
<1>5. /\ DOMAIN g = 0 .. N
      /\ \A n \in 0 .. N : g[n] = IF n = 0 THEN 0 ELSE g[n - 1] + s[n]
  <2>1. \A h : h = [n \in 0 .. N |-> IF n = 0 THEN 0 ELSE g[n - 1] + s[n]] =>
               /\ DOMAIN h = 0 .. N
               /\ \A n \in 0 .. N : h[n] = IF n = 0 THEN 0 ELSE g[n - 1] + s[n]
    OBVIOUS
  <2> QED
    BY <1>4, <2>1
<1>6. g[0] = 0 /\ \A n \in 1 .. N : g[n] = g[n - 1] + s[n]
  <2>1. 0 \in 0 .. N /\ \A n \in 1 .. N : n \in 0 .. N /\ n # 0
    BY <1>1
  <2> QED
    BY <1>5, <2>1, Zenon
<1>7. \A n \in 0 .. N : g[n] \in Nat
  <2> DEFINE K == {n \in Nat : n <= N => g[n] \in Nat}
  <2>1. 0 \in K
    BY <1>1, <1>6
  <2>2. ASSUME NEW n \in Nat, n \in K PROVE n + 1 \in K
    <3> SUFFICES ASSUME n + 1 <= N PROVE g[n + 1] \in Nat
      OBVIOUS
    <3>1. g[n] \in Nat /\ n + 1 \in 1 .. N /\ (n + 1) - 1 = n
      BY <1>1, <2>2
    <3>2. g[n + 1] = g[n] + s[n + 1]
      BY <1>6, <3>1
    <3> QED
      BY <1>1, <3>1, <3>2
  <2>3. \A n \in Nat : n \in K
    <3> HIDE DEF K
    <3> QED
      BY <2>1, <2>2, Induction
  <2> QED
    BY <1>1, <2>3
<1>8. g \in [0 .. N -> Nat]
  BY <1>4, <1>7, Zenon
<1> QED
  BY <1>4, <1>6, <1>8 DEF SumRun, N

(* R is a strict order of A in which two elements that are equally far are *)
(* interchangeable (a strict weak order).                                  *)
IsLess(R, A) ==
  /\ \A a, b \in A : <<a, b>> \in R => <<b, a>> \notin R
  /\ \A a, b, c \in A : <<a, b>> \in R => <<a, c>> \in R \/ <<c, b>> \in R

(* t has the first n elements of s, each once: t[k] is s[p[k]].            *)
Arranges(p, t, s, n) ==
  /\ Len(t) = n
  /\ p \in [1 .. n -> 1 .. n]
  /\ \A i, j \in 1 .. n : p[i] = p[j] => i = j
  /\ \A i \in 1 .. n : \E k \in 1 .. n : p[k] = i
  /\ \A k \in 1 .. n : t[k] = s[p[k]]

(* t is in the order of R, and in the order of s where R has none.         *)
InOrder(R, p, t, n) ==
  \A i, j \in 1 .. n : i < j =>
    <<t[j], t[i]>> \notin R /\ (<<t[i], t[j]>> \in R \/ p[i] < p[j])

(* A less that compares numbers.                                           *)
LEMMA KeyIsLess ==
  ASSUME NEW A, NEW key, \A a \in A : key[a] \in Int,
         NEW R, \A a, b \in A : <<a, b>> \in R <=> key[a] < key[b]
  PROVE  IsLess(R, A)
BY DEF IsLess

(* One insertion extends an arrangement of n elements to n + 1, and keeps  *)
(* it in order if the less is an order.                                    *)
LEMMA InsertedArranges ==
  ASSUME NEW A, NEW s \in Seq(A), NEW n \in Nat, n + 1 <= Len(s), NEW R,
         NEW t \in Seq(A), NEW p, Arranges(p, t, s, n), IsLess(R, A) => InOrder(R, p, t, n)
  PROVE  \E q : LET u == Inserted(R, t, s[n + 1]) IN
           Arranges(q, u, s, n + 1) /\ (IsLess(R, A) => InOrder(R, q, u, n + 1))
<1> DEFINE x == s[n + 1]
           u == Inserted(R, t, x)
<1>1. x \in A /\ \A i \in 1 .. n : t[i] \in A
  BY LenProperties, ElementOfSeq DEF Arranges
<1>2. /\ Len(t) = n /\ p \in [1 .. n -> 1 .. n]
      /\ \A i, j \in 1 .. n : p[i] = p[j] => i = j
      /\ \A i \in 1 .. n : \E k \in 1 .. n : p[k] = i
      /\ \A k \in 1 .. n : t[k] = s[p[k]]
  BY DEF Arranges
<1>3. PICK k \in 0 .. n :
        /\ u \in Seq(A) /\ Len(u) = n + 1
        /\ u[k + 1] = x
        /\ \A i \in 1 .. k : u[i] = t[i]
        /\ \A i \in k + 2 .. n + 1 : u[i] = t[i - 1]
        /\ \A i \in k + 1 .. n : <<x, t[i]>> \in R
        /\ k # 0 => <<x, t[k]>> \notin R
  <2> HIDE DEF x
  <2> QED
    BY <1>1, <1>2, InsertedPlace
<1> DEFINE q == [i \in 1 .. n + 1 |->
                   IF i <= k THEN p[i] ELSE IF i = k + 1 THEN n + 1 ELSE p[i - 1]]
           old(i) == IF i <= k THEN i ELSE i - 1
<1> HIDE DEF u
<1>4. \A i \in 1 .. n + 1 : i # k + 1 => /\ old(i) \in 1 .. n /\ q[i] = p[old(i)]
                                         /\ u[i] = t[old(i)] /\ q[i] \in 1 .. n
  <2> SUFFICES ASSUME NEW i \in 1 .. n + 1, i # k + 1
               PROVE  /\ old(i) \in 1 .. n /\ q[i] = p[old(i)]
                      /\ u[i] = t[old(i)] /\ q[i] \in 1 .. n
    OBVIOUS
  <2>1. CASE i <= k
    <3>1. i \in 1 .. k /\ i \in 1 .. n /\ old(i) = i /\ q[i] = p[i]
      BY <2>1
    <3> HIDE DEF q, old
    <3> QED
      BY <1>2, <1>3, <3>1
  <2>2. CASE ~(i <= k)
    <3>1. /\ i \in k + 2 .. n + 1 /\ i - 1 \in 1 .. n
          /\ old(i) = i - 1 /\ q[i] = p[i - 1]
      BY <2>2
    <3> HIDE DEF q, old
    <3> QED
      BY <1>2, <1>3, <3>1
  <2> QED
    BY <2>1, <2>2
<1>5. k + 1 \in 1 .. n + 1 /\ q[k + 1] = n + 1 /\ u[k + 1] = x
  BY <1>3
<1>6. q \in [1 .. n + 1 -> 1 .. n + 1]
  <2>1. \A i \in 1 .. n + 1 : q[i] \in 1 .. n + 1
    <3> HIDE DEF q, old
    <3>1. \A i \in 1 .. n : i \in 1 .. n + 1
      OBVIOUS
    <3>2. n + 1 \in 1 .. n + 1
      OBVIOUS
    <3> QED
      BY <1>4, <1>5, <3>1, <3>2, Zenon
  <2> QED
    BY <2>1
<1> HIDE DEF q
<1>7. \A i, j \in 1 .. n + 1 : q[i] = q[j] => i = j
  <2> SUFFICES ASSUME NEW i \in 1 .. n + 1, NEW j \in 1 .. n + 1, q[i] = q[j] PROVE i = j
    OBVIOUS
  <2>1. CASE i = k + 1 \/ j = k + 1
    BY <1>4, <1>5, <2>1
  <2>2. CASE i # k + 1 /\ j # k + 1
    <3>1. old(i) = old(j)
      <4>1. /\ old(i) \in 1 .. n /\ q[i] = p[old(i)]
            /\ old(j) \in 1 .. n /\ q[j] = p[old(j)]
        BY <1>4, <2>2
      <4> HIDE DEF old
      <4> QED
        BY <1>2, <4>1
    <3> QED
      BY <2>2, <3>1
  <2> QED
    BY <2>1, <2>2
<1>8. \A i \in 1 .. n + 1 : \E l \in 1 .. n + 1 : q[l] = i
  <2> SUFFICES ASSUME NEW i \in 1 .. n + 1 PROVE \E l \in 1 .. n + 1 : q[l] = i
    OBVIOUS
  <2>1. CASE i = n + 1
    BY <1>5, <2>1
  <2>2. CASE i # n + 1
    <3>1. PICK l \in 1 .. n : p[l] = i
      BY <1>2, <2>2
    <3> DEFINE m == IF l <= k THEN l ELSE l + 1
    <3>2. m \in 1 .. n + 1 /\ m # k + 1 /\ old(m) = l
      OBVIOUS
    <3> QED
      BY <1>4, <3>1, <3>2
  <2> QED
    BY <2>1, <2>2
<1>9. \A i \in 1 .. n + 1 : u[i] = s[q[i]]
  <2> SUFFICES ASSUME NEW i \in 1 .. n + 1 PROVE u[i] = s[q[i]]
    OBVIOUS
  <2>1. CASE i = k + 1
    BY <1>5, <2>1
  <2>2. CASE i # k + 1
    <3>1. old(i) \in 1 .. n /\ q[i] = p[old(i)] /\ u[i] = t[old(i)]
      BY <1>4, <2>2
    <3> HIDE DEF old
    <3> QED
      BY <1>2, <3>1
  <2> QED
    BY <2>1, <2>2
<1>10. Arranges(q, u, s, n + 1)
  BY <1>3, <1>6, <1>7, <1>8, <1>9 DEF Arranges
<1>11. ASSUME IsLess(R, A) PROVE InOrder(R, q, u, n + 1)
  <2> SUFFICES ASSUME NEW i \in 1 .. n + 1, NEW j \in 1 .. n + 1, i < j
               PROVE  <<u[j], u[i]>> \notin R /\ (<<u[i], u[j]>> \in R \/ q[i] < q[j])
    BY DEF InOrder
  <2>1. \A a, b \in 1 .. n : a < b =>
          <<t[b], t[a]>> \notin R /\ (<<t[a], t[b]>> \in R \/ p[a] < p[b])
    BY <1>11 DEF InOrder
  <2>2. CASE i # k + 1 /\ j # k + 1
    <3>1. old(i) < old(j)
      BY <2>2
    <3> QED
      BY <1>4, <2>1, <2>2, <3>1
  <2>3. CASE i = k + 1
    <3>1. j # k + 1 /\ j - 1 \in k + 1 .. n /\ old(j) = j - 1
      BY <2>3
    <3>2. <<x, u[j]>> \in R /\ u[i] = x /\ u[j] \in A
      BY <1>1, <1>3, <1>4, <1>5, <2>3, <3>1
    <3> QED
      BY <1>1, <1>11, <3>2 DEF IsLess
  <2>4. CASE j = k + 1
    <3>1. i # k + 1 /\ i \in 1 .. k /\ i \in 1 .. n /\ k \in 1 .. n /\ u[i] = t[i]
      BY <1>3, <2>4
    <3>2. q[i] < q[j] /\ u[j] = x
      BY <1>4, <1>5, <2>4, <3>1
    <3>3. <<x, t[k]>> \notin R
      BY <1>3, <3>1
    <3>4. i # k => <<t[k], t[i]>> \notin R
      <4>1. i # k => i < k
        BY <3>1
      <4> QED
        BY <2>1, <3>1, <4>1, Zenon
    <3>5. <<x, t[i]>> \notin R
      <4>1. t[i] \in A /\ t[k] \in A
        BY <1>1, <3>1
      <4> QED
        BY <1>1, <1>11, <3>3, <3>4, <4>1 DEF IsLess
    <3> QED
      BY <3>1, <3>2, <3>5
  <2> QED
    BY <2>2, <2>3, <2>4
<1> QED
  BY <1>10, <1>11 DEF u

(* Sorting rearranges; with a less that is one it puts in order, and keeps *)
(* the order of what is equal.                                             *)
LEMMA SortedArranges ==
  ASSUME NEW A, NEW s \in Seq(A), NEW R
  PROVE  /\ SortedBy(R, s) \in Seq(A) /\ Len(SortedBy(R, s)) = Len(s) /\ Len(s) \in Nat
         /\ \E p : /\ Arranges(p, SortedBy(R, s), s, Len(s))
                   /\ IsLess(R, A) => InOrder(R, p, SortedBy(R, s), Len(s))
<1>1. PICK f : SortRun(A, s, R, f) /\ SortedBy(R, s) = f[Len(s)]
  BY SortLoop
<1>2. Len(s) \in Nat
  BY LenProperties
<1> DEFINE Q(n) == \E p : Arranges(p, f[n], s, n) /\ (IsLess(R, A) => InOrder(R, p, f[n], n))
           K == {n \in Nat : n <= Len(s) => Q(n)}
<1>3. 0 \in K
  <2>1. f[0] = << >> /\ Len(<< >>) = 0
    BY <1>1, EmptySeq DEF SortRun
  <2> DEFINE p == [k \in 1 .. 0 |-> 0]
  <2>2. Arranges(p, f[0], s, 0) /\ InOrder(R, p, f[0], 0)
    BY <2>1 DEF Arranges, InOrder
  <2> QED
    BY <2>2
<1>4. ASSUME NEW n \in Nat, n \in K PROVE n + 1 \in K
  <2> SUFFICES ASSUME n + 1 <= Len(s) PROVE Q(n + 1)
    OBVIOUS
  <2>1. PICK p : Arranges(p, f[n], s, n) /\ (IsLess(R, A) => InOrder(R, p, f[n], n))
    BY <1>2, <1>4
  <2>2. f[n] \in Seq(A) /\ f[n + 1] = Inserted(R, f[n], s[n + 1])
    <3>1. n \in 0 .. Len(s) /\ n + 1 \in 1 .. Len(s) /\ (n + 1) - 1 = n
      BY <1>2
    <3> QED
      BY <1>1, <3>1 DEF SortRun
  <2> QED
    BY <2>1, <2>2, InsertedArranges
<1>5. Q(Len(s))
  <2>1. \A n \in Nat : n \in K
    <3> HIDE DEF K
    <3> QED
      BY <1>3, <1>4, Induction
  <2> QED
    BY <1>2, <2>1
<1>6. SortedBy(R, s) \in Seq(A) /\ Len(SortedBy(R, s)) = Len(s)
  BY <1>1, <1>2, <1>5 DEF SortRun, Arranges
<1> QED
  BY <1>1, <1>2, <1>5, <1>6

-------------------------------------------------------------------------------
(* Counting                                                                *)

(* b lists the elements of U, each once.                                   *)
Enumerates(b, m, U) ==
  /\ m \in Nat
  /\ b \in [1 .. m -> U]
  /\ \A i, j \in 1 .. m : b[i] = b[j] => i = j
  /\ \A u \in U : \E k \in 1 .. m : b[k] = u

(* The first k elements of a list are k.                                   *)
LEMMA FirstCount ==
  ASSUME NEW U, NEW m, NEW b, Enumerates(b, m, U), NEW k \in 0 .. m
  PROVE  LET first == {b[l] : l \in 1 .. k} IN
           IsFiniteSet(first) /\ Cardinality(first) = k /\ first \subseteq U
<1> DEFINE first == {b[l] : l \in 1 .. k}
           f == [l \in 1 .. k |-> b[l]]
<1>1. /\ m \in Nat /\ k \in Nat /\ b \in [1 .. m -> U]
      /\ \A l \in 1 .. k : l \in 1 .. m
      /\ \A i, j \in 1 .. m : b[i] = b[j] => i = j
  BY DEF Enumerates
<1>2. f \in Bijection(1 .. k, first)
  <2>1. f \in [1 .. k -> first]
    OBVIOUS
  <2>2. \A i, j \in 1 .. k : f[i] = f[j] => i = j
    BY <1>1
  <2>3. \A u \in first : \E l \in 1 .. k : f[l] = u
    OBVIOUS
  <2> HIDE DEF f, first
  <2>4. f \in Injection(1 .. k, first)
    BY <2>1, <2>2, Zenon DEF Injection, IsInjective
  <2>5. f \in Surjection(1 .. k, first)
    BY <2>1, <2>3 DEF Surjection
  <2> QED
    BY <2>4, <2>5 DEF Bijection
<1>3. ExistsBijection(1 .. k, first)
  BY <1>2 DEF ExistsBijection
<1> HIDE DEF first, f
<1>4. IsFiniteSet(first) /\ Cardinality(first) = k
  BY <1>1, <1>3, FS_NatBijection, FS_CountingElements
<1> QED
  BY <1>1, <1>4 DEF first

(* A set that is listed once each in m places has m elements.              *)
LEMMA EnumerationCount ==
  ASSUME NEW U, NEW m, NEW b, Enumerates(b, m, U)
  PROVE  IsFiniteSet(U) /\ Cardinality(U) = m
<1>1. m \in 0 .. m
  BY DEF Enumerates
<1>2. U = {b[l] : l \in 1 .. m}
  BY DEF Enumerates
<1> QED
  BY <1>1, <1>2, FirstCount

(* Filtering lists the indices of the elements in T.                       *)
LEMMA KeptCount ==
  ASSUME NEW A, NEW s \in Seq(A), NEW T
  PROVE  LET I == {i \in 1 .. Len(s) : s[i] \in T} IN
           /\ Len(Kept(s, T)) = Cardinality(I) /\ IsFiniteSet(I)
           /\ \E ix : /\ Enumerates(ix, Len(Kept(s, T)), I)
                      /\ \A k \in 1 .. Len(Kept(s, T)) : Kept(s, T)[k] = s[ix[k]]
                      /\ \A i, j \in 1 .. Len(Kept(s, T)) : i < j => ix[i] < ix[j]
<1> DEFINE I == {i \in 1 .. Len(s) : s[i] \in T}
           m == Len(Kept(s, T))
<1>1. PICK ix : Picks(ix, Kept(s, T), s, Len(s), T)
  BY KeptPicks
<1>2. m \in Nat
  BY KeptPicks, LenProperties
<1>3. /\ ix \in [1 .. m -> 1 .. Len(s)]
      /\ \A i, j \in 1 .. m : i < j => ix[i] < ix[j]
      /\ \A k \in 1 .. m : Kept(s, T)[k] = s[ix[k]] /\ s[ix[k]] \in T
      /\ \A i \in 1 .. Len(s) : s[i] \in T => \E k \in 1 .. m : ix[k] = i
  BY <1>1 DEF Picks
<1> HIDE DEF m
<1>4. \A i, j \in 1 .. m : ix[i] = ix[j] => i = j
  <2> SUFFICES ASSUME NEW i \in 1 .. m, NEW j \in 1 .. m, ix[i] = ix[j], i # j PROVE FALSE
    OBVIOUS
  <2>1. ix[i] \in 1 .. Len(s) /\ ix[i] \in Int /\ (i < j \/ j < i)
    BY <1>2, <1>3
  <2> QED
    BY <1>3, <2>1
<1>5. Enumerates(ix, m, I)
  BY <1>2, <1>3, <1>4 DEF Enumerates
<1> HIDE DEF I
<1>6. IsFiniteSet(I) /\ Cardinality(I) = m
  BY <1>5, EnumerationCount
<1> QED
  BY <1>3, <1>5, <1>6 DEF I, m

-------------------------------------------------------------------------------
(* Ranks                                                                   *)

(* t has the values c of the elements of U in ascending order.             *)
Ranks(t, c, U, m) ==
  /\ t \in Seq(Nat) /\ Len(t) = m
  /\ \A i, j \in 1 .. m : i < j => t[i] <= t[j]
  /\ \E b : Enumerates(b, m, U) /\ \A k \in 1 .. m : t[k] = c[b[k]]

(* Sorting the values of c over U lists them by rank.                      *)
LEMMA AscendingRanks ==
  ASSUME NEW c, NEW U, \A u \in U : c[u] \in Nat,
         NEW m, NEW idx, Enumerates(idx, m, U),
         NEW v, v = [k \in 1 .. m |-> c[idx[k]]]
  PROVE  v \in Seq(Nat) /\ Len(v) = m /\ Ranks(Ascending(v), c, U, m)
<1> DEFINE R == {p \in Range(v) \X Range(v) : p[1] < p[2]}
           t == SortedBy(R, v)
<1>1. /\ m \in Nat /\ idx \in [1 .. m -> U]
      /\ \A i, j \in 1 .. m : idx[i] = idx[j] => i = j
      /\ \A u \in U : \E k \in 1 .. m : idx[k] = u
  BY DEF Enumerates
<1>2. v \in [1 .. m -> Nat] /\ \A k \in 1 .. m : v[k] = c[idx[k]]
  BY <1>1
<1>3. v \in Seq(Nat) /\ Len(v) = m /\ DOMAIN v = 1 .. m
  BY <1>1, <1>2
<1>4. v \in Seq(Range(v)) /\ Range(v) \subseteq Nat
  <2>1. v \in Seq(Range(v))
    BY <1>3, SeqOfRange
  <2>2. \A i \in DOMAIN v : v[i] \in Nat
    BY <1>2, <1>3
  <2>3. Range(v) \subseteq Nat
    BY <2>2 DEF Range
  <2> QED
    BY <2>1, <2>3
<1>5. IsLess(R, Range(v))
  <2>1. \A a, b \in Range(v) : <<a, b>> \in R <=> a < b
    OBVIOUS
  <2>2. \A a \in Range(v) : a \in Int
    BY <1>4
  <2> HIDE DEF R
  <2> DEFINE W == Range(v)
  <2> HIDE DEF W
  <2>3. \A a, b \in W : <<a, b>> \in R <=> a < b
    BY <2>1 DEF W
  <2>4. \A a \in W : a \in Int
    BY <2>2 DEF W
  <2>5. IsLess(R, W)
    BY <2>3, <2>4 DEF IsLess
  <2> QED
    BY <2>5 DEF W
<1>6. t = Ascending(v)
  BY DEF Ascending, SliceStable
<1>7. \A a, b \in Range(v) : <<a, b>> \notin R => b <= a
  BY <1>4
<1> HIDE DEF R
<1>8. PICK p : Arranges(p, t, v, m) /\ InOrder(R, p, t, m)
  BY <1>3, <1>4, <1>5, SortedArranges
<1>9. t \in Seq(Range(v)) /\ Len(t) = m
  BY <1>3, <1>4, SortedArranges
<1> HIDE DEF t
<1>10. t \in Seq(Nat)
  BY <1>4, <1>9, SeqMonotonic
<1>11. \A i, j \in 1 .. m : i < j => t[i] <= t[j]
  <2>1. \A i \in 1 .. m : t[i] \in Range(v)
    BY <1>9, ElementOfSeq
  <2> QED
    BY <1>7, <1>8, <2>1 DEF InOrder
<1>12. /\ p \in [1 .. m -> 1 .. m]
       /\ \A i, j \in 1 .. m : p[i] = p[j] => i = j
       /\ \A i \in 1 .. m : \E k \in 1 .. m : p[k] = i
       /\ \A k \in 1 .. m : t[k] = v[p[k]]
  BY <1>8 DEF Arranges
<1> DEFINE b == [k \in 1 .. m |-> idx[p[k]]]
<1>13. Enumerates(b, m, U)
  <2>1. b \in [1 .. m -> U]
    BY <1>1, <1>12
  <2>2. ASSUME NEW i \in 1 .. m, NEW j \in 1 .. m, b[i] = b[j] PROVE i = j
    <3>1. p[i] \in 1 .. m /\ p[j] \in 1 .. m /\ idx[p[i]] = idx[p[j]]
      BY <1>12, <2>2
    <3>2. p[i] = p[j]
      BY <1>1, <3>1
    <3> QED
      BY <1>12, <3>2
  <2>3. ASSUME NEW u \in U PROVE \E k \in 1 .. m : b[k] = u
    <3>1. PICK l \in 1 .. m : idx[l] = u
      BY <1>1
    <3>2. PICK k \in 1 .. m : p[k] = l
      BY <1>12
    <3> QED
      BY <3>1, <3>2
  <2> QED
    BY <1>1, <2>1, <2>2, <2>3 DEF Enumerates
<1>14. \A k \in 1 .. m : t[k] = c[b[k]]
  BY <1>2, <1>12
<1> HIDE DEF b
<1>15. Ranks(t, c, U, m)
  BY <1>9, <1>10, <1>11, <1>13, <1>14 DEF Ranks
<1> QED
  BY <1>3, <1>6, <1>15

(* Counting instead of sorting: below the k-th value there are less than k *)
(* elements, and not above it at least k.                                  *)
Counts(t, c, U, m) ==
  /\ m \in Nat /\ IsFiniteSet(U) /\ Cardinality(U) = m
  /\ \A k \in 1 .. m :
       /\ Cardinality({i \in U : c[i] < t[k]}) \in 0 .. k - 1
       /\ Cardinality({i \in U : c[i] <= t[k]}) \in k .. m
       /\ \E i \in U : c[i] = t[k]
  /\ m > 0 => \A i \in U : t[1] <= c[i] /\ c[i] <= t[m]

(* Fewer than k values are below the k-th by rank, and at least k are not *)
(* above it.                                                               *)
LEMMA RankCounts ==
  ASSUME NEW c, NEW U, \A u \in U : c[u] \in Nat, NEW t, NEW m, Ranks(t, c, U, m)
  PROVE  Counts(t, c, U, m)
<1>1. PICK b : Enumerates(b, m, U) /\ \A k \in 1 .. m : t[k] = c[b[k]]
  BY DEF Ranks
<1>2. /\ m \in Nat /\ \A k \in 1 .. m : b[k] \in U
      /\ \A u \in U : \E k \in 1 .. m : b[k] = u
  BY <1>1 DEF Enumerates
<1>3. IsFiniteSet(U) /\ Cardinality(U) = m
  BY <1>1, EnumerationCount
<1>4. \A i, j \in 1 .. m : i < j => t[i] <= t[j]
  BY DEF Ranks
<1>5. \A k \in 1 .. m : t[k] \in Nat
  BY <1>1, <1>2
<1>6. ASSUME NEW k \in 1 .. m
      PROVE  /\ Cardinality({i \in U : c[i] < t[k]}) \in 0 .. k - 1
             /\ Cardinality({i \in U : c[i] <= t[k]}) \in k .. m
             /\ \E i \in U : c[i] = t[k]
  <2> DEFINE below == {i \in U : c[i] < t[k]}
             upTo  == {i \in U : c[i] <= t[k]}
             less  == {b[l] : l \in 1 .. k - 1}
             first == {b[l] : l \in 1 .. k}
  <2>1. k \in Int /\ k - 1 \in 0 .. m /\ k \in 0 .. m
    BY <1>2
  <2>2. IsFiniteSet(less) /\ Cardinality(less) = k - 1
    BY <1>1, <2>1, FirstCount
  <2>3. IsFiniteSet(first) /\ Cardinality(first) = k /\ first \subseteq U
    BY <1>1, <2>1, FirstCount
  <2>4. below \subseteq less
    <3> SUFFICES ASSUME NEW i \in U, c[i] < t[k] PROVE i \in less
      OBVIOUS
    <3>1. PICK l \in 1 .. m : b[l] = i
      BY <1>2
    <3>2. t[l] < t[k] /\ t[l] \in Nat /\ t[k] \in Nat
      BY <1>1, <1>5, <3>1
    <3>3. l < k
      BY <1>2, <1>4, <2>1, <3>2
    <3> QED
      BY <3>1, <3>3
  <2>5. first \subseteq upTo
    <3> SUFFICES ASSUME NEW l \in 1 .. k PROVE b[l] \in upTo
      OBVIOUS
    <3>1. l \in 1 .. m /\ (l < k \/ l = k)
      BY <1>2, <2>1
    <3>2. t[l] <= t[k]
      BY <1>4, <1>5, <3>1
    <3> QED
      BY <1>1, <1>2, <3>1, <3>2
  <2>6. upTo \subseteq U
    OBVIOUS
  <2>7. \E i \in U : c[i] = t[k]
    BY <1>1, <1>2
  <2> HIDE DEF below, upTo, less, first
  <2>8. Cardinality(below) \in Nat /\ Cardinality(below) <= k - 1
    <3>1. IsFiniteSet(below) /\ Cardinality(below) <= Cardinality(less)
      BY <2>2, <2>4, FS_Subset
    <3> QED
      BY <2>2, <3>1, FS_CardinalityType
  <2>9. Cardinality(upTo) \in Nat /\ k <= Cardinality(upTo) /\ Cardinality(upTo) <= m
    <3>1. IsFiniteSet(upTo) /\ Cardinality(upTo) <= Cardinality(U)
      BY <1>3, <2>6, FS_Subset
    <3>2. Cardinality(first) <= Cardinality(upTo)
      BY <2>5, <3>1, FS_Subset
    <3> QED
      BY <1>3, <2>3, <3>1, <3>2, FS_CardinalityType
  <2>10. Cardinality(below) \in 0 .. k - 1 /\ Cardinality(upTo) \in k .. m
    BY <1>2, <2>1, <2>8, <2>9
  <2> QED
    BY <2>7, <2>10 DEF below, upTo
<1>7. ASSUME m > 0, NEW i \in U PROVE t[1] <= c[i] /\ c[i] <= t[m]
  <2>1. PICK l \in 1 .. m : b[l] = i
    BY <1>2
  <2>2. 1 \in 1 .. m /\ m \in 1 .. m /\ (l = 1 \/ 1 < l) /\ (l = m \/ l < m)
    BY <1>2, <1>7
  <2>3. t[1] \in Nat /\ t[m] \in Nat /\ t[l] \in Nat
    BY <1>5, <2>2
  <2>4. t[1] <= t[l] /\ t[l] <= t[m]
    BY <1>4, <2>2, <2>3
  <2> QED
    BY <1>1, <2>1, <2>4
<1> QED
  BY <1>2, <1>3, <1>6, <1>7 DEF Counts

(* Two sets that have nothing in common.                                   *)
LEMMA DisjointCount ==
  ASSUME NEW S, NEW T, IsFiniteSet(S), IsFiniteSet(T), S \cap T = {}
  PROVE  IsFiniteSet(S \cup T) /\ Cardinality(S \cup T) = Cardinality(S) + Cardinality(T)
<1>1. /\ IsFiniteSet(S \cup T)
      /\ Cardinality(S \cup T) = Cardinality(S) + Cardinality(T) - Cardinality(S \cap T)
  BY FS_Union
<1>2. Cardinality(S \cap T) = 0 /\ Cardinality(S) \in Nat /\ Cardinality(T) \in Nat
  BY FS_EmptySet, FS_CardinalityType
<1> QED
  BY <1>1, <1>2

(* The sum of the sizes of m sets that have nothing in common.             *)
Sizes(t, P, m) ==
  /\ t \in Seq(Nat) /\ Len(t) = m /\ m \in Nat
  /\ \A k \in 1 .. m : IsFiniteSet(P[k]) /\ t[k] = Cardinality(P[k])
  /\ \A i, j \in 1 .. m : i # j => P[i] \cap P[j] = {}

(* The sizes of disjoint sets add up to the size of their union.           *)
LEMMA TotalOfSizes ==
  ASSUME NEW t, NEW P, NEW m, Sizes(t, P, m)
  PROVE  LET all == UNION {P[k] : k \in 1 .. m} IN
           Total(t) \in Nat /\ IsFiniteSet(all) /\ Total(t) = Cardinality(all)
<1>1. PICK f : SumRun(t, f) /\ Total(t) = f[Len(t)]
  BY SumLoop DEF Sizes
<1>2. /\ f[0] = 0 /\ Total(t) = f[m] /\ f \in [0 .. m -> Nat] /\ m \in Nat
      /\ \A n \in 1 .. m : f[n] = f[n - 1] + t[n]
  BY <1>1 DEF Sizes, SumRun
<1> DEFINE W(n) == UNION {P[l] : l \in 1 .. n}
           Q(n) == IsFiniteSet(W(n)) /\ Cardinality(W(n)) = f[n]
           K    == {n \in Nat : n <= m => Q(n)}
<1>3. 0 \in K
  <2>1. W(0) = {}
    OBVIOUS
  <2> HIDE DEF W
  <2> QED
    BY <1>2, <2>1, FS_EmptySet
<1>4. ASSUME NEW n \in Nat, n \in K PROVE n + 1 \in K
  <2> SUFFICES ASSUME n + 1 <= m PROVE Q(n + 1)
    OBVIOUS
  <2>1. /\ n + 1 \in 1 .. m /\ n \in 0 .. m /\ (n + 1) - 1 = n
        /\ \A l \in 1 .. n : l \in 1 .. m /\ l # n + 1
        /\ \A l \in 1 .. n + 1 : l \in 1 .. n \/ l = n + 1
        /\ \A l \in 1 .. n : l \in 1 .. n + 1
    BY <1>2
  <2>2. Q(n)
    BY <1>2, <1>4, <2>1
  <2> DEFINE old == W(n)
             new == W(n + 1)
             add == P[n + 1]
  <2>3. new = old \cup add
    <3>1. n + 1 \in 1 .. n + 1
      OBVIOUS
    <3> QED
      BY <2>1, <3>1
  <2>4. old \cap add = {}
    BY <2>1 DEF Sizes
  <2>5. /\ IsFiniteSet(old) /\ Cardinality(old) = f[n]
        /\ IsFiniteSet(add) /\ Cardinality(add) = t[n + 1]
    BY <2>1, <2>2 DEF Sizes
  <2> HIDE DEF old, new, add
  <2>6. IsFiniteSet(new) /\ Cardinality(new) = f[n] + t[n + 1] - 0
    BY <2>3, <2>4, <2>5, FS_Union, FS_EmptySet
  <2>7. f[n + 1] = f[n] + t[n + 1] /\ f[n] \in Nat /\ t[n + 1] \in Nat
    BY <1>2, <2>1, ElementOfSeq DEF Sizes
  <2>8. IsFiniteSet(new) /\ Cardinality(new) = f[n + 1]
    BY <2>6, <2>7
  <2> QED
    BY <2>8 DEF new
<1>5. Q(m)
  <2>1. \A n \in Nat : n \in K
    <3> HIDE DEF K
    <3> QED
      BY <1>3, <1>4, Induction
  <2>2. m \in Nat /\ m <= m
    BY <1>2
  <2> HIDE DEF Q
  <2> QED
    BY <2>1, <2>2
<1>6. f[m] \in Nat
  BY <1>2
<1> QED
  BY <1>2, <1>5, <1>6

(* The sum of the values, as so many units for each element.               *)
LEMMA RankTotal ==
  ASSUME NEW c, NEW U, \A u \in U : c[u] \in Nat, NEW t, NEW m, Ranks(t, c, U, m)
  PROVE  Total(t) \in Nat /\ Total(t) = Cardinality(UNION {{i} \X (1 .. c[i]) : i \in U})
<1> DEFINE part(i) == {i} \X (1 .. c[i])
<1>1. PICK b : Enumerates(b, m, U) /\ \A k \in 1 .. m : t[k] = c[b[k]]
  BY DEF Ranks
<1>2. /\ m \in Nat /\ \A k \in 1 .. m : b[k] \in U
      /\ \A u \in U : \E k \in 1 .. m : b[k] = u
      /\ \A i, j \in 1 .. m : b[i] = b[j] => i = j
  BY <1>1 DEF Enumerates
<1>3. ASSUME NEW x \in U PROVE IsFiniteSet(part(x)) /\ Cardinality(part(x)) = c[x]
  <2>1. IsFiniteSet({x}) /\ Cardinality({x}) = 1
    BY FS_Singleton
  <2>2. IsFiniteSet(1 .. c[x]) /\ Cardinality(1 .. c[x]) = c[x]
    BY FS_Interval
  <2>3. IsFiniteSet(part(x)) /\ Cardinality(part(x)) = Cardinality({x}) * Cardinality(1 .. c[x])
    BY <2>1, <2>2, FS_Product
  <2> HIDE DEF part
  <2> QED
    BY <2>1, <2>2, <2>3
<1>4. \A x, y \in U : x # y => part(x) \cap part(y) = {}
  OBVIOUS
<1> HIDE DEF part
<1> DEFINE P == [k \in 1 .. m |-> part(b[k])]
<1>5. Sizes(t, P, m)
  <2>1. t \in Seq(Nat) /\ Len(t) = m
    BY DEF Ranks
  <2>2. \A k \in 1 .. m : IsFiniteSet(P[k]) /\ t[k] = Cardinality(P[k])
    BY <1>1, <1>2, <1>3
  <2>3. \A i, j \in 1 .. m : i # j => P[i] \cap P[j] = {}
    BY <1>2, <1>4
  <2> HIDE DEF P
  <2> QED
    BY <1>2, <2>1, <2>2, <2>3 DEF Sizes
<1>6. UNION {P[k] : k \in 1 .. m} = UNION {part(i) : i \in U}
  BY <1>2
<1> HIDE DEF P
<1>7. Total(t) \in Nat /\ Total(t) = Cardinality(UNION {part(i) : i \in U})
  <2>1. Total(t) \in Nat /\ Total(t) = Cardinality(UNION {P[k] : k \in 1 .. m})
    BY <1>5, TotalOfSizes
  <2> QED
    BY <1>6, <2>1, Zenon
<1> QED
  BY <1>7 DEF part

(* The sum of one element, and of two.                                     *)
LEMMA TotalOfTwo ==
  ASSUME NEW s \in Seq(Nat)
  PROVE  /\ Len(s) = 1 => Total(s) = s[1]
         /\ Len(s) = 2 => Total(s) = s[1] + s[2]
<1>1. PICK f : SumRun(s, f) /\ Total(s) = f[Len(s)]
  BY SumLoop
<1>2. f[0] = 0 /\ \A n \in 1 .. Len(s) : f[n] = f[n - 1] + s[n]
  BY <1>1 DEF SumRun
<1>3. \A n \in 1 .. Len(s) : s[n] \in Nat
  BY ElementOfSeq
<1>4. CASE Len(s) = 1
  <2>1. f[1] = f[0] + s[1] /\ s[1] \in Nat
    BY <1>2, <1>3, <1>4
  <2> QED
    BY <1>1, <1>2, <1>4, <2>1
<1>5. CASE Len(s) = 2
  <2>1. f[1] = f[0] + s[1] /\ f[2] = f[1] + s[2] /\ s[1] \in Nat /\ s[2] \in Nat
    BY <1>2, <1>3, <1>5
  <2> QED
    BY <1>1, <1>2, <1>5, <2>1
<1> QED
  BY <1>4, <1>5

(* A function on 1 .. m is a sequence of length m.                         *)
LEMMA FunctionIsSeq ==
  ASSUME NEW A, NEW m \in Nat, NEW f, f \in [1 .. m -> A]
  PROVE  f \in Seq(A) /\ Len(f) = m /\ DOMAIN f = 1 .. m
OBVIOUS

(* A sequence that lists U, filtered, lists the part of U in T.            *)
LEMMA KeptEnumerates ==
  ASSUME NEW U, NEW s \in Seq(U), Enumerates(s, Len(s), U), NEW T
  PROVE  /\ Kept(s, T) \in Seq(U \cap T)
         /\ Enumerates(Kept(s, T), Len(Kept(s, T)), U \cap T)
<1> DEFINE K == Kept(s, T)
           m == Len(K)
<1>1. K \in Seq(U)
  BY KeptPicks
<1>2. PICK ix : Picks(ix, K, s, Len(s), T)
  BY KeptPicks
<1>3. m \in Nat /\ DOMAIN K = 1 .. m /\ \A k \in 1 .. m : K[k] \in U
  BY <1>1, LenProperties, ElementOfSeq
<1>4. Len(s) \in Nat
  BY LenProperties
<1>5. /\ \A k \in 1 .. m : ix[k] \in 1 .. Len(s) /\ K[k] = s[ix[k]] /\ s[ix[k]] \in T
      /\ \A i, j \in 1 .. m : i < j => ix[i] < ix[j]
      /\ \A i \in 1 .. Len(s) : s[i] \in T => \E k \in 1 .. m : ix[k] = i
  BY <1>2 DEF Picks
<1>6. /\ \A i, j \in 1 .. Len(s) : s[i] = s[j] => i = j
      /\ \A u \in U : \E i \in 1 .. Len(s) : s[i] = u
  BY DEF Enumerates
<1>7. K = [k \in 1 .. m |-> K[k]]
  BY <1>1, <1>3
<1> HIDE DEF K, m
<1>8. \A i, j \in 1 .. m : K[i] = K[j] => i = j
  <2> SUFFICES ASSUME NEW i \in 1 .. m, NEW j \in 1 .. m, K[i] = K[j], i # j PROVE FALSE
    OBVIOUS
  <2>1. ix[i] = ix[j] /\ ix[i] \in Int
    <3>1. /\ ix[i] \in 1 .. Len(s) /\ ix[j] \in 1 .. Len(s)
          /\ K[i] = s[ix[i]] /\ K[j] = s[ix[j]]
      BY <1>5
    <3>2. s[ix[i]] = s[ix[j]]
      BY <3>1, Zenon
    <3>3. ix[i] = ix[j]
      BY <1>6, <3>1, <3>2, Zenon
    <3> QED
      BY <1>4, <3>1, <3>3
  <2>2. i < j \/ j < i
    BY <1>3
  <2> QED
    BY <1>5, <2>1, <2>2
<1>9. \A k \in 1 .. m : K[k] \in U \cap T
  BY <1>3, <1>5
<1>10. \A u \in U \cap T : \E k \in 1 .. m : K[k] = u
  BY <1>5, <1>6
<1>11. K \in [1 .. m -> U \cap T]
  BY <1>7, <1>9
<1> DEFINE UT == U \cap T
<1> HIDE DEF UT
<1>12. Enumerates(K, m, UT)
  BY <1>3, <1>8, <1>10, <1>11 DEF Enumerates, UT
<1>13. K \in Seq(UT)
  BY <1>3, <1>11, FunctionIsSeq DEF UT
<1> QED
  BY <1>12, <1>13 DEF K, m, UT

(* The numbers up to n, listed.                                            *)
LEMMA IdentityEnumerates ==
  ASSUME NEW n \in Nat
  PROVE  LET f == [i \in 1 .. n |-> i] IN
           f \in Seq(1 .. n) /\ Len(f) = n /\ Enumerates(f, n, 1 .. n)
<1> DEFINE f == [i \in 1 .. n |-> i]
<1>1. f \in [1 .. n -> 1 .. n] /\ \A i \in 1 .. n : f[i] = i
  OBVIOUS
<1> HIDE DEF f
<1>2. f \in Seq(1 .. n) /\ Len(f) = n
  BY <1>1, FunctionIsSeq
<1>3. Enumerates(f, n, 1 .. n)
  BY <1>1 DEF Enumerates
<1> QED
  BY <1>2, <1>3 DEF f

(* A sequence that lists U still does when it is sorted.                   *)
LEMMA SortedEnumerates ==
  ASSUME NEW U, NEW s \in Seq(U), Enumerates(s, Len(s), U), NEW R
  PROVE  LET t == SortedBy(R, s) IN
           /\ t \in Seq(U) /\ Len(t) = Len(s) /\ Enumerates(t, Len(t), U)
           /\ IsLess(R, U) => \A i, j \in 1 .. Len(t) : i < j => <<t[j], t[i]>> \notin R
<1> DEFINE t == SortedBy(R, s)
           m == Len(s)
<1>1. t \in Seq(U) /\ Len(t) = m /\ m \in Nat
  BY SortedArranges
<1>2. PICK p : Arranges(p, t, s, m) /\ (IsLess(R, U) => InOrder(R, p, t, m))
  BY SortedArranges
<1>3. /\ \A i, j \in 1 .. m : s[i] = s[j] => i = j
      /\ \A u \in U : \E k \in 1 .. m : s[k] = u
  BY DEF Enumerates
<1>4. /\ \A k \in 1 .. m : p[k] \in 1 .. m /\ t[k] = s[p[k]]
      /\ \A i, j \in 1 .. m : p[i] = p[j] => i = j
      /\ \A i \in 1 .. m : \E k \in 1 .. m : p[k] = i
  BY <1>2 DEF Arranges
<1>5. t \in [1 .. m -> U]
  BY <1>1, LenProperties
<1> HIDE DEF t, m
<1>6. \A i, j \in 1 .. m : t[i] = t[j] => i = j
  <2> SUFFICES ASSUME NEW i \in 1 .. m, NEW j \in 1 .. m, t[i] = t[j] PROVE i = j
    OBVIOUS
  <2>1. p[i] \in 1 .. m /\ p[j] \in 1 .. m /\ t[i] = s[p[i]] /\ t[j] = s[p[j]]
    BY <1>4
  <2>2. s[p[i]] = s[p[j]]
    BY <2>1, Zenon
  <2>3. p[i] = p[j]
    BY <1>3, <2>1, <2>2, Zenon
  <2> QED
    BY <1>4, <2>3, Zenon
<1>7. \A u \in U : \E k \in 1 .. m : t[k] = u
  <2> SUFFICES ASSUME NEW u \in U PROVE \E k \in 1 .. m : t[k] = u
    OBVIOUS
  <2>1. PICK i \in 1 .. m : s[i] = u
    BY <1>3
  <2>2. PICK k \in 1 .. m : p[k] = i
    BY <1>4
  <2> QED
    BY <1>4, <2>1, <2>2
<1>8. Enumerates(t, m, U)
  BY <1>1, <1>5, <1>6, <1>7 DEF Enumerates
<1>9. IsLess(R, U) => \A i, j \in 1 .. m : i < j => <<t[j], t[i]>> \notin R
  BY <1>2 DEF InOrder
<1>10. Len(t) = m
  BY <1>1
<1> QED
  BY <1>1, <1>8, <1>9, <1>10 DEF t, m

(* A set as a sequence: each element once.                                *)
LEMMA SetToSeqLists ==
  ASSUME NEW S, IsFiniteSet(S)
  PROVE  /\ SetToSeq(S) \in Seq(S) /\ Len(SetToSeq(S)) = Cardinality(S)
         /\ Enumerates(SetToSeq(S), Len(SetToSeq(S)), S)
<1> DEFINE n == Cardinality(S)
           F == {f \in [1 .. n -> S] : IsInjective(f)}
           q == SetToSeq(S)
<1>1. n \in Nat
  BY FS_CardinalityType
<1>2. F # {}
  <2>1. PICK m \in Nat : ExistsBijection(1 .. m, S)
    BY FS_NatBijection
  <2>2. m = n
    BY <2>1, FS_CountingElements
  <2>3. PICK f : f \in Bijection(1 .. m, S)
    BY <2>1 DEF ExistsBijection
  <2>4. f \in Injection(1 .. m, S)
    BY <2>3 DEF Bijection
  <2>5. f \in [1 .. m -> S] /\ IsInjective(f)
    BY <2>4 DEF Injection
  <2> HIDE DEF n
  <2> QED
    BY <2>2, <2>5
<1>3. q \in F
  <2>1. q = CHOOSE f \in F : TRUE
    <3>1. q = CHOOSE f \in [1 .. n -> S] : IsInjective(f)
      BY DEF SetToSeq
    <3>2. \A f : (f \in [1 .. n -> S] /\ IsInjective(f)) <=> (f \in F /\ TRUE)
      OBVIOUS
    <3> QED
      BY <3>1, <3>2
  <2> QED
    BY <1>2, <2>1
<1> HIDE DEF n, q
<1>4. q \in [1 .. n -> S] /\ IsInjective(q)
  BY <1>3
<1>5. q \in Seq(S) /\ Len(q) = n /\ DOMAIN q = 1 .. n
  BY <1>1, <1>4, FunctionIsSeq
<1>6. \A i, j \in 1 .. n : q[i] = q[j] => i = j
  BY <1>4, <1>5 DEF IsInjective
<1> DEFINE I == {q[k] : k \in 1 .. n}
<1>7. Enumerates(q, n, I)
  <2>1. q \in [1 .. n -> I]
    BY <1>4
  <2> QED
    BY <1>1, <1>6, <2>1 DEF Enumerates
<1>8. I \subseteq S
  BY <1>4
<1> HIDE DEF I
<1>9. Cardinality(I) = n
  BY <1>7, EnumerationCount
<1>10. I = S
  BY <1>8, <1>9, FS_Subset DEF n
<1> QED
  BY <1>5, <1>7, <1>10 DEF n, q
===============================================================================
