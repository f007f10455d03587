------------------------------ MODULE RingBuffer ------------------------------
(***************************************************************************)
(* store.RingBuffer (src/store/store.go): an array written at `head' by the*)
(* guest goroutines through Add and copied out by the GET /results handlers*)
(* through All, both under one sync.RWMutex.                               *)
(*                                                                         *)
(* Each assignment of Add and each element copied by All is a step of its  *)
(* own, so that what the lock protects is visible: a reader that could see *)
(* Add half done would answer with a result twice or with a stale slot.    *)
(***************************************************************************)
EXTENDS Integers, Sequences

CONSTANTS Results,   \* the values of type Result that are added
          Readers,   \* concurrent GET /results handlers
          capacity,  \* the array's length (1000 in the code)
          NoResult   \* the zero Result of an array cell not yet written

ASSUME CapacityAssumption == capacity \in Nat \ {0}

ASSUME NoResultAssumption == NoResult \notin Results

VARIABLES items,     \* items[0 .. capacity-1]
          head,      \* the slot the next Add writes
          count,     \* how many slots hold results
          adding,    \* where the Add holding mu is: "idle" if none holds it
          res,       \* the argument of that Add
          rlocked,   \* the readers that hold mu.RLock
          out,       \* out[r]: the prefix of the copy reader r has made
          response   \* response[r]: what reader r last encoded and sent

vars == <<items, head, count, adding, res, rlocked, out, response>>

Init ==
  /\ items = [i \in 0 .. capacity - 1 |-> NoResult]
  /\ head = 0
  /\ count = 0
  /\ adding = "idle"
  /\ res = NoResult
  /\ rlocked = {}
  /\ out = [r \in Readers |-> << >>]
  /\ response = [r \in Readers |-> << >>]

-------------------------------------------------------------------------------
(* Add                                                                     *)

AddLockBarging(x) ==
  /\ adding = "idle"
  /\ adding' = "item"
  /\ res' = x
  /\ UNCHANGED <<items, head, count, rlocked, out, response>>

(* mu.Lock(): no other Add holds mu and no reader holds it shared.         *)
AddLock(x) ==
  /\ adding = "idle"
  /\ rlocked = {}
  /\ adding' = "item"
  /\ res' = x
  /\ UNCHANGED <<items, head, count, rlocked, out, response>>

AddItem ==
  /\ adding = "item"
  /\ items' = [items EXCEPT ![head] = res]
  /\ adding' = "head"
  /\ UNCHANGED <<head, count, res, rlocked, out, response>>

NextHeadNoWrap == head + 1

(* (r.head + 1) % capacity                                                 *)
NextHead == (head + 1) % capacity

AddHead ==
  /\ adding = "head"
  /\ head' = NextHead
  /\ adding' = "count"
  /\ UNCHANGED <<items, count, res, rlocked, out, response>>

(* if r.count < capacity { r.count++ }                                     *)
NextCount == IF count < capacity THEN count + 1 ELSE count

AddCountAndUnlock ==
  /\ adding = "count"
  /\ count' = NextCount
  /\ adding' = "idle"
  /\ res' = NoResult
  /\ UNCHANGED <<items, head, rlocked, out, response>>

-------------------------------------------------------------------------------
(* All                                                                     *)

SlotFromHead(h, c, i) == (h - c + i + 1 + capacity) % capacity

(* The slot of the i-th oldest result (from 0) of a ring with this head    *)
(* and count: (r.head - r.count + i + capacity) % capacity.                *)
Slot(h, c, i) == (h - c + i + capacity) % capacity

AllLock(r) ==
  /\ r \notin rlocked
  /\ adding = "idle"
  /\ rlocked' = rlocked \cup {r}
  /\ out' = [out EXCEPT ![r] = << >>]
  /\ UNCHANGED <<items, head, count, adding, res, response>>

AllCopy(r) ==
  /\ r \in rlocked
  /\ Len(out[r]) < count
  /\ out' = [out EXCEPT ![r] = Append(@, items[Slot(head, count, Len(@))])]
  /\ UNCHANGED <<items, head, count, adding, res, rlocked, response>>

(* RUnlock, then the handler encodes the copy, which nobody else refers to.*)
AllReturn(r) ==
  /\ r \in rlocked
  /\ Len(out[r]) = count
  /\ rlocked' = rlocked \ {r}
  /\ out' = [out EXCEPT ![r] = << >>]
  /\ response' = [response EXCEPT ![r] = out[r]]
  /\ UNCHANGED <<items, head, count, adding, res>>

-------------------------------------------------------------------------------

Next ==
  \/ \E x \in Results : AddLock(x)
  \/ AddItem
  \/ AddHead
  \/ AddCountAndUnlock
  \/ \E r \in Readers : AllLock(r) \/ AllCopy(r) \/ AllReturn(r)

Spec == Init /\ [][Next]_vars

-------------------------------------------------------------------------------
(* Properties                                                              *)

(* Every index and counter of RingBuffer stays in its range: head is always*)
(* a valid array index and count never exceeds the array's length.         *)
TypeOK ==
  /\ items \in [0 .. capacity - 1 -> Results \cup {NoResult}]
  /\ head \in 0 .. capacity - 1
  /\ count \in 0 .. capacity
  /\ adding \in {"idle", "item", "head", "count"}
  /\ res \in Results \cup {NoResult}
  /\ adding # "idle" => res \in Results
  /\ rlocked \subseteq Readers
  /\ out \in [Readers -> Seq(Results)]
  /\ response \in [Readers -> Seq(Results)]

(* The head and the count the ring has once the Add in progress, if it has *)
(* written its item, is through.                                           *)
SettledHead  == IF adding = "head" THEN NextHead ELSE head
SettledCount == IF adding \in {"head", "count"} THEN NextCount ELSE count

(* What All returns of the array a when head is h and count is c.          *)
Listing(a, h, c) == [i \in 1 .. c |-> a[Slot(h, c, i - 1)]]

(* The results the ring stands for, oldest first. An Add takes effect when *)
(* it writes its item.                                                     *)
Contents == Listing(items, SettledHead, SettledCount)

(* The part of the array All reads holds results only, never a cell that   *)
(* no Add has written.                                                     *)
ContentsWritten == Contents \in Seq(Results)

(* A handler in the middle of All has copied a prefix of the ring's        *)
(* contents, whatever the guest goroutines do meanwhile: the copy is a     *)
(* snapshot of one instant, with no slot overwritten under it.             *)
CopyIsSnapshot ==
  \A r \in rlocked :
    /\ adding = "idle"
    /\ Len(out[r]) <= count
    /\ \A i \in 1 .. Len(out[r]) : out[r][i] = Contents[i]

(* The ring implements the bounded log: Add pushes onto the last `capacity'*)
(* results and every GET /results answer is exactly that sequence, oldest  *)
(* first ("All returns results in insertion order (oldest first)").        *)
Log == INSTANCE BoundedLog WITH recent <- Contents

ImplementsBoundedLog == Log!Spec

(* The inductive invariant of RingBufferProofs.                            *)
IInv == TypeOK /\ ContentsWritten /\ CopyIsSnapshot
===============================================================================
