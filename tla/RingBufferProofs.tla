--------------------------- MODULE RingBufferProofs ---------------------------
(***************************************************************************)
(* For every capacity, set of results and number of readers, the ring of   *)
(* package store keeps its indices in range, copies out snapshots and      *)
(* implements the bounded log.                                             *)
(***************************************************************************)
EXTENDS RingBuffer, SequenceTheorems, TLAPS

(* The remainder of a number below 2n, which is all the code ever divides. *)
LEMMA ModBelowTwice ==
  ASSUME NEW n \in Nat \ {0}, NEW x \in 0 .. 2*n - 1
  PROVE  x % n = IF x < n THEN x ELSE x - n
BY SMT

(* The value of Slot without the remainder.                                *)
LEMMA SlotValue ==
  ASSUME NEW h \in 0 .. capacity - 1, NEW c \in 0 .. capacity,
         NEW i \in 0 .. c - 1
  PROVE  /\ Slot(h, c, i) = IF h - c + i < 0 THEN h - c + i + capacity ELSE h - c + i
         /\ Slot(h, c, i) \in 0 .. capacity - 1
<1> DEFINE x == h - c + i + capacity
<1>1. capacity \in Nat \ {0}
  BY CapacityAssumption
<1>2. x \in 0 .. 2*capacity - 1
  BY <1>1
<1>3. Slot(h, c, i) = x % capacity
  BY DEF Slot
<1>4. x % capacity = IF x < capacity THEN x ELSE x - capacity
  <2> HIDE DEF x
  <2> QED BY <1>1, <1>2, ModBelowTwice
<1>5. x < capacity <=> h - c + i < 0
  BY <1>1
<1> QED
  BY <1>1, <1>3, <1>4, <1>5

(* The value of NextHead without the remainder.                            *)
LEMMA NextHeadValue ==
  ASSUME head \in 0 .. capacity - 1
  PROVE  /\ NextHead = IF head + 1 < capacity THEN head + 1 ELSE 0
         /\ NextHead \in 0 .. capacity - 1
<1> DEFINE x == head + 1
<1>1. capacity \in Nat \ {0} /\ x \in 0 .. 2*capacity - 1
  BY CapacityAssumption
<1>2. NextHead = x % capacity
  BY DEF NextHead
<1>3. x % capacity = IF x < capacity THEN x ELSE x - capacity
  <2> HIDE DEF x
  <2> QED BY <1>1, ModBelowTwice
<1> QED
  BY <1>1, <1>2, <1>3

(* Two functions on 1 .. n that agree everywhere are the same sequence.    *)
LEMMA ListingIsSeq ==
  ASSUME NEW S, NEW n \in Nat, NEW f \in [1 .. n -> S]
  PROVE  f \in Seq(S) /\ Len(f) = n
OBVIOUS

(* Writing at head and advancing head and count pushes onto the listing: it*)
(* appends, and forgets the oldest result when the ring was full.          *)
LEMMA WriteAtHeadPushes ==
  ASSUME NEW a \in [0 .. capacity - 1 -> Results \cup {NoResult}],
         NEW x \in Results,
         head \in 0 .. capacity - 1,
         count \in 0 .. capacity,
         Listing(a, head, count) \in Seq(Results)
  PROVE  LET old == Listing(a, head, count)
             new == Listing([a EXCEPT ![head] = x], NextHead, NextCount)
         IN  /\ new \in Seq(Results)
             /\ new = Append(IF Len(old) < capacity THEN old ELSE Tail(old), x)
<1> DEFINE old == Listing(a, head, count)
           b   == [a EXCEPT ![head] = x]
           new == Listing(b, NextHead, NextCount)
           kept == IF Len(old) < capacity THEN old ELSE Tail(old)
           skip == IF count < capacity THEN 0 ELSE 1
<1>0. /\ capacity \in Nat \ {0}
      /\ NextHead \in 0 .. capacity - 1
      /\ NextHead = IF head + 1 < capacity THEN head + 1 ELSE 0
      /\ NextCount \in 1 .. capacity
      /\ NextCount = count + 1 - skip
  BY CapacityAssumption, NextHeadValue DEF NextCount
<1>1. /\ old \in Seq(Results) /\ Len(old) = count
      /\ \A i \in 1 .. count : old[i] = a[Slot(head, count, i - 1)] /\ old[i] \in Results
  <2>1. DOMAIN old = 1 .. count
    BY DEF Listing
  <2>2. Len(old) = count
    BY <2>1, LenProperties
  <2> QED
    BY <2>1, <2>2, ElementOfSeq DEF Listing
<1>2. kept \in Seq(Results) /\ Len(kept) = count - skip
  BY <1>0, <1>1, HeadTailProperties
<1>3. \A i \in 1 .. count - skip : kept[i] = old[i + skip]
  BY <1>0, <1>1, HeadTailProperties
<1>4. \A i \in 1 .. NextCount :
        new[i] = IF i < NextCount THEN old[i + skip] ELSE x
  <2> SUFFICES ASSUME NEW i \in 1 .. NextCount
               PROVE  new[i] = IF i < NextCount THEN old[i + skip] ELSE x
    OBVIOUS
  <2>1. new[i] = b[Slot(NextHead, NextCount, i - 1)]
    BY DEF Listing
  <2>2. CASE i = NextCount
    <3>1. i - 1 \in 0 .. NextCount - 1 /\ NextCount \in 0 .. capacity
      BY <1>0
    <3>a. Slot(NextHead, NextCount, i - 1) =
            IF NextHead - NextCount + (i - 1) < 0
              THEN NextHead - NextCount + (i - 1) + capacity
              ELSE NextHead - NextCount + (i - 1)
      BY <1>0, <3>1, SlotValue
    <3>2. Slot(NextHead, NextCount, i - 1) = head
      BY <1>0, <2>2, <3>a
    <3>3. b[head] = x
      OBVIOUS
    <3> QED
      BY <2>1, <2>2, <3>2, <3>3, <1>0
  <2>3. CASE i < NextCount
    <3>1. /\ i - 1 \in 0 .. NextCount - 1 /\ NextCount \in 0 .. capacity
          /\ i + skip - 1 \in 0 .. count - 1
          /\ i + skip \in 1 .. count
      BY <1>0, <2>3
    <3> DEFINE s == Slot(NextHead, NextCount, i - 1)
               t == Slot(head, count, i + skip - 1)
    <3>2. /\ s = IF NextHead - NextCount + (i - 1) < 0
                 THEN NextHead - NextCount + (i - 1) + capacity
                 ELSE NextHead - NextCount + (i - 1)
          /\ s \in 0 .. capacity - 1
      <4>1. NextHead \in 0 .. capacity - 1
        BY <1>0
      <4> QED
        BY <4>1, <3>1, SlotValue
    <3>3. /\ t = IF head - count + (i + skip - 1) < 0
                 THEN head - count + (i + skip - 1) + capacity
                 ELSE head - count + (i + skip - 1)
          /\ t \in 0 .. capacity - 1
      BY <3>1, SlotValue
    <3>4. s = t /\ s # head
      <4> HIDE DEF s, t
      <4>1. s = t
        BY <1>0, <2>3, <3>1, <3>2, <3>3
      <4>2. t # head
        BY <1>0, <2>3, <3>1, <3>3
      <4> QED
        BY <4>1, <4>2
    <3>5. b[s] = a[t]
      BY <3>2, <3>4
    <3>6. old[i + skip] = a[t]
      BY <3>1 DEF Listing
    <3> QED
      BY <2>1, <2>3, <3>5, <3>6
  <2> QED
    BY <2>2, <2>3, <1>0
<1>5. \A i \in 1 .. NextCount : new[i] \in Results
  <2> HIDE DEF new, old
  <2> SUFFICES ASSUME NEW i \in 1 .. NextCount PROVE new[i] \in Results
    OBVIOUS
  <2>1. i < NextCount => i + skip \in 1 .. count
    BY <1>0
  <2> QED
    BY <1>1, <1>4, <2>1
<1>6. new \in Seq(Results) /\ Len(new) = NextCount
  <2>1. new = [i \in 1 .. NextCount |-> new[i]]
    BY DEF Listing
  <2>2. new \in [1 .. NextCount -> Results]
    <3> HIDE DEF new
    <3> QED BY <1>5, <2>1
  <2> HIDE DEF new
  <2> QED
    BY <1>0, <2>2, ListingIsSeq
<1>7. /\ Append(kept, x) \in Seq(Results)
      /\ Len(Append(kept, x)) = count - skip + 1
      /\ \A i \in 1 .. count - skip + 1 :
           Append(kept, x)[i] = IF i <= count - skip THEN kept[i] ELSE x
  <2> HIDE DEF kept
  <2> QED
    BY <1>2, AppendProperties
<1>8. new = Append(kept, x)
  <2> HIDE DEF new, kept, old
  <2>1. Len(new) = Len(Append(kept, x))
    BY <1>0, <1>6, <1>7
  <2>2. \A i \in 1 .. Len(new) : new[i] = Append(kept, x)[i]
    BY <1>0, <1>3, <1>4, <1>6, <1>7
  <2> QED
    BY <1>6, <1>7, <2>1, <2>2, SeqEqual
<1> QED
  BY <1>6, <1>8

(* IInv holds initially.                                                   *)
LEMMA InitIInv == Init => IInv
<1> SUFFICES ASSUME Init PROVE IInv
  OBVIOUS
<1>1. TypeOK
  BY CapacityAssumption DEF Init, TypeOK
<1>2. SettledCount = 0
  BY DEF Init, SettledCount
<1>3. ContentsWritten
  BY <1>2 DEF ContentsWritten, Contents, Listing
<1>4. CopyIsSnapshot
  BY DEF Init, CopyIsSnapshot
<1> QED
  BY <1>1, <1>3, <1>4 DEF IInv

(* An Add changes what the ring stands for when it writes its item, and    *)
(* only then: advancing head and count leaves Contents alone.              *)
LEMMA ContentsStep ==
  ASSUME IInv, [Next]_vars
  PROVE  \/ /\ AddItem
            /\ Contents' \in Seq(Results)
            /\ Contents' = Append(IF Len(Contents) < capacity THEN Contents
                                                              ELSE Tail(Contents), res)
         \/ ~AddItem /\ Contents' = Contents
<1>1. CASE AddItem
  <2>1. /\ SettledHead = head /\ SettledCount = count
        /\ SettledHead' = NextHead /\ SettledCount' = NextCount
    BY <1>1 DEF AddItem, SettledHead, SettledCount, NextHead, NextCount
  <2>2. Contents = Listing(items, head, count)
    BY <2>1 DEF Contents
  <2>3. Contents' = Listing([items EXCEPT ![head] = res], NextHead, NextCount)
    BY <1>1, <2>1 DEF Contents, AddItem, Listing, Slot
  <2>4. /\ items \in [0 .. capacity - 1 -> Results \cup {NoResult}]
        /\ res \in Results
        /\ head \in 0 .. capacity - 1
        /\ count \in 0 .. capacity
        /\ Listing(items, head, count) \in Seq(Results)
    BY <1>1, <2>2 DEF IInv, TypeOK, ContentsWritten, AddItem
  <2>5. LET old == Listing(items, head, count)
            new == Listing([items EXCEPT ![head] = res], NextHead, NextCount)
        IN  /\ new \in Seq(Results)
            /\ new = Append(IF Len(old) < capacity THEN old ELSE Tail(old), res)
    BY <2>4, WriteAtHeadPushes
  <2> QED
    BY <1>1, <2>2, <2>3, <2>5
<1>2. CASE ~AddItem
  <2>1. items' = items /\ SettledHead' = SettledHead /\ SettledCount' = SettledCount
    <3>1. ASSUME NEW x \in Results, AddLock(x) PROVE <2>1
      BY <3>1 DEF AddLock, SettledHead, SettledCount, NextHead, NextCount
    <3>2. CASE AddHead
      BY <3>2 DEF AddHead, SettledHead, SettledCount, NextHead, NextCount
    <3>3. CASE AddCountAndUnlock
      BY <3>3 DEF AddCountAndUnlock, SettledHead, SettledCount, NextHead, NextCount
    <3>4. ASSUME NEW r \in Readers, AllLock(r) \/ AllCopy(r) \/ AllReturn(r) PROVE <2>1
      BY <3>4 DEF AllLock, AllCopy, AllReturn, SettledHead, SettledCount, NextHead, NextCount
    <3>5. CASE UNCHANGED vars
      BY <3>5 DEF vars, SettledHead, SettledCount, NextHead, NextCount
    <3> QED
      BY <1>2, <3>1, <3>2, <3>3, <3>4, <3>5 DEF Next
  <2> QED
    BY <1>2, <2>1 DEF Contents, Listing, Slot
<1> QED
  BY <1>1, <1>2

(* While no Add is in progress, Contents is what All reads.                *)
LEMMA IdleContents ==
  ASSUME IInv, adding = "idle"
  PROVE  /\ Contents = Listing(items, head, count)
         /\ Contents \in Seq(Results)
         /\ Len(Contents) = count
         /\ \A i \in 1 .. count : /\ Contents[i] = items[Slot(head, count, i - 1)]
                                  /\ Contents[i] \in Results
<1>1. Contents = Listing(items, head, count)
  BY DEF Contents, SettledHead, SettledCount
<1>2. Contents \in Seq(Results)
  BY DEF IInv, ContentsWritten
<1>3. DOMAIN Contents = 1 .. count /\ count \in Nat
  BY <1>1, CapacityAssumption DEF Listing, IInv, TypeOK
<1>4. Len(Contents) = count
  BY <1>2, <1>3, LenProperties
<1>5. \A i \in 1 .. count : Contents[i] = items[Slot(head, count, i - 1)]
  BY <1>1 DEF Listing
<1>6. \A i \in 1 .. count : Contents[i] \in Results
  BY <1>2, <1>4, ElementOfSeq
<1> QED
  BY <1>1, <1>2, <1>4, <1>5, <1>6

(* What one step of AllCopy does to a reader's copy.                       *)
LEMMA CopyStep ==
  ASSUME IInv, NEW r \in Readers, AllCopy(r)
  PROVE  /\ adding = "idle"
         /\ out'[r] \in Seq(Results)
         /\ Len(out'[r]) = Len(out[r]) + 1
         /\ Len(out'[r]) <= count
         /\ \A i \in 1 .. Len(out'[r]) : out'[r][i] = Contents[i]
<1> DEFINE k == Len(out[r])
           e == items[Slot(head, count, k)]
<1>1. /\ adding = "idle" /\ out[r] \in Seq(Results) /\ k < count /\ k \in Nat
      /\ count \in Nat
      /\ \A i \in 1 .. k : out[r][i] = Contents[i]
      /\ out'[r] = Append(out[r], e)
  BY CapacityAssumption DEF IInv, TypeOK, CopyIsSnapshot, AllCopy
<1>2. k + 1 \in 1 .. count /\ (k + 1) - 1 = k
  BY <1>1
<1>3. e = Contents[k + 1] /\ e \in Results
  BY <1>1, <1>2, IdleContents
<1> HIDE DEF e
<1> QED
  BY <1>1, <1>2, <1>3, AppendProperties

(* Every step preserves the invariant.                                     *)
LEMMA NextIInv == IInv /\ [Next]_vars => IInv'
<1> SUFFICES ASSUME IInv, [Next]_vars PROVE IInv'
  OBVIOUS
<1> USE DEF IInv
<1>1. ContentsWritten'
  BY ContentsStep DEF ContentsWritten
<1>2. TypeOK'
  <2>1. ASSUME NEW x \in Results, AddLock(x) PROVE TypeOK'
    BY <2>1 DEF TypeOK, AddLock
  <2>2. CASE AddItem
    BY <2>2 DEF TypeOK, AddItem
  <2>3. CASE AddHead
    BY <2>3, NextHeadValue DEF TypeOK, AddHead
  <2>4. CASE AddCountAndUnlock
    <3>1. NextCount \in 0 .. capacity
      BY CapacityAssumption DEF TypeOK, NextCount
    <3> QED
      BY <2>4, <3>1 DEF TypeOK, AddCountAndUnlock
  <2>5. ASSUME NEW r \in Readers, AllLock(r) PROVE TypeOK'
    BY <2>5 DEF TypeOK, AllLock
  <2>6. ASSUME NEW r \in Readers, AllCopy(r) PROVE TypeOK'
    <3>1. out' \in [Readers -> Seq(Results)]
      <4>1. out'[r] \in Seq(Results)
        BY <2>6, CopyStep
      <4> QED
        BY <2>6, <4>1 DEF TypeOK, AllCopy
    <3> QED
      BY <2>6, <3>1 DEF TypeOK, AllCopy
  <2>7. ASSUME NEW r \in Readers, AllReturn(r) PROVE TypeOK'
    BY <2>7 DEF TypeOK, AllReturn
  <2>8. CASE UNCHANGED vars
    BY <2>8 DEF TypeOK, vars
  <2> QED
    BY <2>1, <2>2, <2>3, <2>4, <2>5, <2>6, <2>7, <2>8 DEF Next
<1>3. CopyIsSnapshot'
  <2>1. ASSUME NEW x \in Results, AddLock(x) PROVE CopyIsSnapshot'
    BY <2>1 DEF CopyIsSnapshot, AddLock
  <2>2. CASE AddItem \/ AddHead \/ AddCountAndUnlock
    <3>1. rlocked' = {}
      BY <2>2 DEF CopyIsSnapshot, AddItem, AddHead, AddCountAndUnlock
    <3> QED
      BY <3>1 DEF CopyIsSnapshot
  <2>3. ASSUME NEW r \in Readers, AllLock(r) PROVE CopyIsSnapshot'
    <3>1. Contents' = Contents
      BY <2>3, ContentsStep DEF AllLock, AddItem
    <3>2. /\ adding' = "idle" /\ count' = count /\ count \in Nat
          /\ rlocked' = rlocked \cup {r}
          /\ out'[r] = << >>
          /\ \A q \in rlocked : q # r /\ out'[q] = out[q]
      BY <2>3, CapacityAssumption DEF AllLock, TypeOK
    <3> QED
      BY <3>1, <3>2 DEF CopyIsSnapshot
  <2>4. ASSUME NEW r \in Readers, AllCopy(r) PROVE CopyIsSnapshot'
    <3>1. Contents' = Contents
      BY <2>4, ContentsStep, CopyStep DEF AddItem
    <3>2. /\ adding' = "idle" /\ count' = count /\ rlocked' = rlocked
          /\ \A q \in rlocked \ {r} : out'[q] = out[q]
          /\ Len(out'[r]) <= count
          /\ \A i \in 1 .. Len(out'[r]) : out'[r][i] = Contents[i]
      BY <2>4, CopyStep DEF AllCopy, TypeOK
    <3> QED
      BY <3>1, <3>2 DEF CopyIsSnapshot
  <2>5. ASSUME NEW r \in Readers, AllReturn(r) PROVE CopyIsSnapshot'
    <3>1. Contents' = Contents
      BY <2>5, ContentsStep DEF AllReturn, AddItem, CopyIsSnapshot
    <3>2. /\ rlocked' = rlocked \ {r} /\ adding' = adding /\ count' = count
          /\ \A q \in rlocked \ {r} : out'[q] = out[q]
      BY <2>5 DEF AllReturn, TypeOK
    <3> QED
      BY <3>1, <3>2 DEF CopyIsSnapshot
  <2>6. CASE UNCHANGED vars
    <3>1. Contents' = Contents
      BY <2>6 DEF vars, Contents, Listing, Slot, SettledHead, SettledCount, NextHead, NextCount
    <3> QED
      BY <2>6, <3>1 DEF CopyIsSnapshot, vars
  <2> QED
    BY <2>1, <2>2, <2>3, <2>4, <2>5, <2>6 DEF Next
<1> QED
  BY <1>1, <1>2, <1>3

(* The inductive invariant holds in every reachable state.                 *)
LEMMA AlwaysIInv == Spec => []IInv
BY InitIInv, NextIInv, PTL DEF Spec

(* head is always a valid index of the array and count never exceeds its   *)
(* length, so neither Add nor All can index out of bounds.                 *)
THEOREM TypeCorrect == Spec => []TypeOK
BY AlwaysIInv, PTL DEF IInv

(* A GET /results handler inside All only ever holds a prefix of what the  *)
(* ring stood for at one instant, whatever Adds are waiting.               *)
THEOREM CopiesAreSnapshots == Spec => []CopyIsSnapshot
BY AlwaysIInv, PTL DEF IInv

(* For every capacity, the ring written through Add and read through All   *)
(* implements the bounded log.                                             *)
THEOREM Refinement == Spec => ImplementsBoundedLog
<1>1. Init => Log!Init
  <2> SUFFICES ASSUME Init PROVE Log!Init
    OBVIOUS
  <2>1. SettledCount = 0
    BY DEF Init, SettledCount
  <2>2. Contents = << >>
    BY <2>1 DEF Contents, Listing
  <2> QED
    BY <2>2 DEF Init, Log!Init
<1>2. IInv /\ [Next]_vars => [Log!Next]_(Log!vars)
  <2> SUFFICES ASSUME IInv, [Next]_vars PROVE [Log!Next]_(Log!vars)
    OBVIOUS
  <2>1. CASE AddItem
    <3>1. res \in Results /\ response' = response
      BY <2>1 DEF AddItem, IInv, TypeOK
    <3>2. Contents' = Append(IF Len(Contents) < capacity THEN Contents
                                                          ELSE Tail(Contents), res)
      BY <2>1, ContentsStep
    <3>3. Log!Add(res)
      BY <3>1, <3>2 DEF Log!Add, Log!Pushed
    <3> QED
      BY <3>1, <3>3 DEF Log!Next
  <2>2. ASSUME NEW r \in Readers, AllReturn(r) PROVE Log!Next
    <3>1. adding = "idle" /\ out[r] \in Seq(Results) /\ Len(out[r]) = count
          /\ \A i \in 1 .. Len(out[r]) : out[r][i] = Contents[i]
      BY <2>2 DEF AllReturn, IInv, TypeOK, CopyIsSnapshot
    <3>2. out[r] = Contents
      BY <3>1, IdleContents, SeqEqual
    <3>3. Contents' = Contents
      BY <3>1, <2>2, ContentsStep DEF AddItem
    <3>4. Log!Answer(r)
      BY <2>2, <3>2, <3>3 DEF AllReturn, Log!Answer
    <3> QED
      BY <3>4 DEF Log!Next
  <2>3. CASE ~AddItem /\ ~(\E r \in Readers : AllReturn(r))
    <3>1. Contents' = Contents
      BY <2>3, ContentsStep
    <3>2. response' = response
      BY <2>3 DEF Next, AddLock, AddHead, AddCountAndUnlock, AllLock, AllCopy, vars
    <3> QED
      BY <3>1, <3>2 DEF Log!vars
  <2> QED
    BY <2>1, <2>2, <2>3
<1> QED
  BY <1>1, <1>2, AlwaysIInv, PTL DEF Spec, ImplementsBoundedLog, Log!Spec
===============================================================================
