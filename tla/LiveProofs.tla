------------------------------ MODULE LiveProofs ------------------------------
(***************************************************************************)
(* For any number of nodes, any capacity of the channel and any block      *)
(* numbers: the pool's variables stay in range, block numbers reach the    *)
(* consumer in strictly increasing order and none is lost but by a full    *)
(* channel, and next always has a node to return. For any guests and any   *)
(* capacity of the store, whatever the order in which guests end and blocks*)
(* come: the results are in block order without repetition, no goroutine   *)
(* outlives its block, the blocks shown are shown with all their results,  *)
(* and the counters agree with them.                                       *)
(***************************************************************************)
EXTENDS Live, FiniteSetTheorems, SequenceTheorems, TLAPS

-------------------------------------------------------------------------------
(* The pool                                                                *)

(* The node next returns is one of the pool's, as soon as there is one.    *)
LEMMA NextNodeIsANode ==
  ASSUME NEW S, nodes \in Seq(S), nodes # << >>, robin \in Nat
  PROVE  /\ NextNode \in S
         /\ \E i \in 1 .. Len(nodes) : nodes[i] = NextNode
<1>1. Len(nodes) \in Nat \ {0}
  BY EmptySeq, LenProperties
<1>2. robin % Len(nodes) \in 0 .. Len(nodes) - 1
  BY <1>1
<1>3. (robin % Len(nodes)) + 1 \in 1 .. Len(nodes)
  BY <1>1, <1>2
<1> QED
  BY <1>3, ElementOfSeq DEF NextNode

(* AdvanceRobin keeps the counter in its range.                            *)
LEMMA RobinInRange ==
  ASSUME robin \in 0 .. RobinRange - 1, AdvanceRobin
  PROVE  robin' \in 0 .. RobinRange - 1
<1>1. RobinRange \in Nat \ {0}
  BY PoolAssumption
<1> QED
  BY <1>1 DEF AdvanceRobin

(* A new pool has nothing in its channel and nothing it could be wrong     *)
(* about.                                                                  *)
LEMMA InitPoolIInv == PoolInit => PoolIInv
<1> SUFFICES ASSUME PoolInit PROVE PoolIInv
  OBVIOUS
<1>1. /\ healthy = << >> /\ Len(healthy) = 0 /\ healthy \in Seq(Urls)
      /\ nodes = << >> /\ nodes \in Seq(Urls)
      /\ Heads = << >> /\ Len(Heads) = 0 /\ Heads \in Seq(Heights)
  BY EmptySeq DEF PoolInit
<1>2. PoolTypeOK
  <2>1. 0 \in Heights /\ 0 \in 0 .. RobinRange - 1 /\ 1 \in 1 .. ProbeRetryMax
    BY PoolAssumption DEF Heights
  <2>2. Len(Heads) <= HeadsCap
    BY <1>1, PoolAssumption
  <2>3. cancelled \in BOOLEAN
    BY DEF PoolInit
  <2> QED
    BY <1>1, <2>1, <2>2, <2>3 DEF PoolInit, PoolTypeOK
<1>3. HeadsOrdered /\ NewestAccountedFor
  BY <1>1 DEF PoolInit, HeadsOrdered, NewestAccountedFor
<1>4. NewKeeps
  BY <1>1 DEF PoolInit, NewKeeps
<1> QED
  BY <1>2, <1>3, <1>4 DEF PoolIInv

(* New: a probe that succeeds adds a node that is not there yet.           *)
LEMMA NewStep == PoolIInv /\ New => PoolIInv'
<1> SUFFICES ASSUME PoolIInv, New PROVE PoolIInv'
  OBVIOUS
<1> USE DEF PoolIInv
<1>1. ASSUME NEW u \in Urls, ProbeOK(u) PROVE PoolIInv'
  <2>1. /\ healthy' = Append(healthy, u)
        /\ healthy' \in Seq(Urls)
        /\ Len(healthy') = Len(healthy) + 1
        /\ \A i \in 1 .. Len(healthy) : healthy'[i] = healthy[i]
        /\ healthy'[Len(healthy) + 1] = u
        /\ Len(healthy) \in Nat
    BY <1>1, AppendProperties, LenProperties DEF ProbeOK, PoolTypeOK
  <2>2. PoolTypeOK'
    BY <1>1, <2>1 DEF ProbeOK, PoolTypeOK, pollVars
  <2>3. HeadsOrdered' /\ NewestAccountedFor'
    BY <1>1 DEF ProbeOK, HeadsOrdered, NewestAccountedFor, pollVars
  <2>4. \A i, j \in 1 .. Len(healthy') : healthy'[i] = healthy'[j] => i = j
    <3>1. \A i \in 1 .. Len(healthy) : healthy[i] # u
      BY <1>1 DEF ProbeOK, NewKeeps
    <3> QED
      BY <2>1, <3>1 DEF NewKeeps
  <2>5. \A i \in 1 .. Len(healthy') : healthy'[i] \notin pending'
    BY <1>1, <2>1 DEF ProbeOK, NewKeeps
  <2> QED
    BY <1>1, <2>2, <2>3, <2>4, <2>5 DEF ProbeOK, NewKeeps, pollVars
<1>2. ASSUME NEW u \in Urls, ProbeFail(u) PROVE PoolIInv'
  BY <1>2 DEF ProbeFail, PoolTypeOK, HeadsOrdered, NewestAccountedFor, NewKeeps, pollVars
<1>3. CASE NewSucceeds
  BY <1>3 DEF NewSucceeds, PoolTypeOK, HeadsOrdered, NewestAccountedFor, NewKeeps, pollVars
<1>4. CASE NewRetries
  <2>1. attempt' \in 1 .. ProbeRetryMax
    BY <1>4, PoolAssumption DEF NewRetries, PoolTypeOK
  <2> QED
    BY <1>4, <2>1 DEF NewRetries, PoolTypeOK, HeadsOrdered, NewestAccountedFor, NewKeeps,
       pollVars
<1>5. CASE NewGivesUp
  BY <1>5 DEF NewGivesUp, PoolTypeOK, HeadsOrdered, NewestAccountedFor, NewKeeps, pollVars
<1> QED
  BY <1>1, <1>2, <1>3, <1>4, <1>5 DEF New

(* The two callers of next.                                                *)
LEMMA PollStartsStep == PoolIInv /\ PollStarts => PoolIInv'
<1> SUFFICES ASSUME PoolIInv, PollStarts PROVE PoolIInv'
  OBVIOUS
<1> USE DEF PoolIInv
<1>1. nodes \in Seq(Urls) /\ nodes # << >> /\ robin \in Nat
  BY PoolAssumption DEF PollStarts, PoolTypeOK, NewKeeps
<1>2. NextNode \in Urls /\ \E i \in 1 .. Len(nodes) : nodes[i] = NextNode
  BY <1>1, NextNodeIsANode
<1>3. robin' \in 0 .. RobinRange - 1
  BY RobinInRange DEF PollStarts, PoolTypeOK
<1>4. PoolTypeOK'
  BY <1>2, <1>3 DEF PollStarts, PoolTypeOK, newVars
<1>5. HeadsOrdered' /\ NewestAccountedFor'
  BY DEF PollStarts, HeadsOrdered, NewestAccountedFor
<1>6. NewKeeps'
  BY <1>2 DEF PollStarts, NewKeeps, newVars
<1> QED
  BY <1>4, <1>5, <1>6

LEMMA PickStep == ASSUME PoolIInv, NEW u \in Urls, Pick(u) PROVE PoolIInv'
<1> USE DEF PoolIInv
<1>1. robin' \in 0 .. RobinRange - 1
  BY RobinInRange DEF Pick, PoolTypeOK
<1> QED
  BY <1>1 DEF Pick, PoolTypeOK, HeadsOrdered, NewestAccountedFor, NewKeeps, newVars, pollVars

(* poll: only a number above seen, hence above everything in Heads, is sent*)
LEMMA PollAnsweredStep == PoolIInv /\ PollAnswered => PoolIInv'
<1> SUFFICES ASSUME PoolIInv, PollAnswered PROVE PoolIInv'
  OBVIOUS
<1> USE DEF PoolIInv
<1> DEFINE num == tip[asked]
<1>1. phase = "running" /\ asked \in Urls /\ num \in Heights
  <2>1. phase = "running" /\ nodes \in Seq(Urls) /\ tip \in [Urls -> Heights]
    BY DEF PollAnswered, NewKeeps, PoolTypeOK
  <2>2. PICK i \in 1 .. Len(nodes) : nodes[i] = asked
    BY DEF PollAnswered, NewKeeps
  <2> QED
    BY <2>1, <2>2, ElementOfSeq
<1>2. NewKeeps'
  BY <1>1 DEF PollAnswered, NewKeeps, newVars
<1>3. /\ Heads \in Seq(Heights) /\ Len(Heads) \in Nat /\ Len(Heads) <= HeadsCap
      /\ \A i \in 1 .. Len(Heads) : Heads[i] \in Nat
      /\ seen \in Nat /\ taken \in Nat /\ num \in Nat /\ HeadsCap \in Nat
  BY <1>1, PoolAssumption, LenProperties, ElementOfSeq DEF PoolTypeOK, Heights
<1>4. CASE num > seen /\ Len(Heads) < HeadsCap
  <2>1. seen' = num /\ Heads' = Append(Heads, num) /\ taken' = taken /\ dropped' = dropped
    BY <1>4 DEF PollAnswered
  <2>2. /\ Heads' \in Seq(Heights)
        /\ Len(Heads') = Len(Heads) + 1
        /\ \A i \in 1 .. Len(Heads) : Heads'[i] = Heads[i]
        /\ Heads'[Len(Heads) + 1] = num
    BY <1>1, <1>3, <2>1, AppendProperties
  <2>3. PoolTypeOK'
    BY <1>1, <1>3, <1>4, <2>1, <2>2 DEF PollAnswered, PoolTypeOK, newVars
  <2>4. HeadsOrdered'
    BY <1>3, <1>4, <2>1, <2>2 DEF HeadsOrdered
  <2>5. NewestAccountedFor'
    BY <1>3, <2>1, <2>2, EmptySeq DEF NewestAccountedFor
  <2> QED
    BY <1>2, <2>3, <2>4, <2>5
<1>5. CASE num > seen /\ ~(Len(Heads) < HeadsCap)
  <2>1. seen' = num /\ dropped' = num /\ UNCHANGED <<Heads, taken>>
    BY <1>5 DEF PollAnswered
  <2>2. PoolTypeOK'
    BY <1>1, <2>1 DEF PollAnswered, PoolTypeOK, newVars
  <2>3. HeadsOrdered' /\ NewestAccountedFor'
    BY <1>3, <1>5, <2>1 DEF HeadsOrdered, NewestAccountedFor
  <2> QED
    BY <1>2, <2>2, <2>3
<1>6. CASE ~(num > seen)
  <2>1. UNCHANGED <<seen, Heads, dropped, taken>>
    BY <1>6 DEF PollAnswered
  <2>2. PoolTypeOK'
    BY <2>1 DEF PollAnswered, PoolTypeOK, newVars
  <2> QED
    BY <1>2, <2>1, <2>2 DEF HeadsOrdered, NewestAccountedFor
<1> QED
  BY <1>4, <1>5, <1>6

(* Receiving the oldest number leaves larger ones.                         *)
LEMMA ReceiveStep == PoolIInv /\ Receive => PoolIInv'
<1> SUFFICES ASSUME PoolIInv, Receive PROVE PoolIInv'
  OBVIOUS
<1> USE DEF PoolIInv
<1>1. /\ Heads \in Seq(Heights) /\ Len(Heads) \in Nat \ {0} /\ HeadsCap \in Nat
      /\ \A i \in 1 .. Len(Heads) : Heads[i] \in Heights /\ Heads[i] \in Nat
      /\ seen \in Nat /\ taken \in Nat
  BY PoolAssumption, LenProperties, ElementOfSeq, EmptySeq DEF Receive, PoolTypeOK, Heights
<1>2. /\ taken' = Heads[1]
      /\ Heads' \in Seq(Heights)
      /\ Len(Heads') = Len(Heads) - 1
      /\ \A i \in 1 .. Len(Heads') : Heads'[i] = Heads[i + 1]
  BY <1>1, HeadTailProperties DEF Receive
<1>3. UNCHANGED <<newVars, robin, poller, asked, seen, dropped, tip, cancelled>>
  BY DEF Receive
<1>4. PoolTypeOK'
  BY <1>1, <1>2, <1>3 DEF PoolTypeOK, newVars
<1>5. HeadsOrdered'
  <2>1. \A i \in 1 .. Len(Heads') : i + 1 \in 1 .. Len(Heads) /\ 1 < i + 1
    BY <1>1, <1>2
  <2>2. \A i, j \in 1 .. Len(Heads') : i < j => Heads'[i] < Heads'[j]
    <3> SUFFICES ASSUME NEW i \in 1 .. Len(Heads'), NEW j \in 1 .. Len(Heads'), i < j
                 PROVE  Heads[i + 1] < Heads[j + 1]
      BY <1>2
    <3> QED
      BY <1>1, <2>1 DEF HeadsOrdered
  <2>3. \A i \in 1 .. Len(Heads') : taken' < Heads'[i] /\ Heads'[i] <= seen'
    BY <1>1, <1>2, <1>3, <2>1 DEF HeadsOrdered
  <2>4. taken' <= seen'
    BY <1>1, <1>2, <1>3 DEF HeadsOrdered
  <2> QED
    BY <2>2, <2>3, <2>4 DEF HeadsOrdered
<1>6. NewestAccountedFor'
  <2>1. CASE seen = dropped
    BY <2>1, <1>3 DEF NewestAccountedFor
  <2>2. CASE seen = Heads[Len(Heads)] /\ Len(Heads) = 1
    <3>1. Len(Heads') = 0
      BY <1>1, <1>2, <2>2
    <3>2. Heads' = << >>
      BY <1>2, <3>1, EmptySeq
    <3> QED
      BY <1>2, <1>3, <2>2, <3>2 DEF NewestAccountedFor
  <2>3. CASE seen = Heads[Len(Heads)] /\ Len(Heads) # 1
    BY <2>3, <1>1, <1>2, <1>3, EmptySeq DEF NewestAccountedFor
  <2> QED
    BY <2>1, <2>2, <2>3 DEF NewestAccountedFor, Receive
<1>7. NewKeeps'
  BY <1>3 DEF NewKeeps, newVars
<1> QED
  BY <1>4, <1>5, <1>6, <1>7

(* Every step of the pool and of what surrounds it keeps the invariant.    *)
LEMMA NextPoolIInv == PoolIInv /\ [PoolNext]_poolVars => PoolIInv'
<1> SUFFICES ASSUME PoolIInv, [PoolNext]_poolVars PROVE PoolIInv'
  OBVIOUS
<1>1. CASE New
  BY <1>1, NewStep
<1>2. CASE Run
  <2>1. CASE PollFails
    BY <2>1 DEF PollFails, PoolIInv, PoolTypeOK, HeadsOrdered, NewestAccountedFor, NewKeeps,
       newVars
  <2>2. CASE PollerStops
    BY <2>2 DEF PollerStops, PoolIInv, PoolTypeOK, HeadsOrdered, NewestAccountedFor,
       NewKeeps, newVars
  <2> QED
    BY <1>2, <2>1, <2>2, PollStartsStep, PollAnsweredStep DEF Run
<1>3. CASE Receive
  BY <1>3, ReceiveStep
<1>4. ASSUME NEW u \in Urls, Pick(u) PROVE PoolIInv'
  BY <1>4, PickStep
<1>5. CASE Environment
  <2>1. UNCHANGED <<newVars, robin, pollVars>>
    BY <1>5 DEF Environment, Cancel, TipMoves
  <2>2. tip' \in [Urls -> Heights] /\ cancelled' \in BOOLEAN
    <3>1. CASE Cancel
      BY <3>1 DEF Cancel, PoolIInv, PoolTypeOK
    <3>2. ASSUME NEW u \in Urls, NEW h \in Heights, TipMoves(u, h)
          PROVE  tip' \in [Urls -> Heights] /\ cancelled' \in BOOLEAN
      BY <3>2 DEF TipMoves, PoolIInv, PoolTypeOK
    <3> QED
      BY <1>5, <3>1, <3>2 DEF Environment
  <2>3. PoolTypeOK'
    BY <2>1, <2>2 DEF PoolIInv, PoolTypeOK, newVars, pollVars
  <2>4. HeadsOrdered' /\ NewestAccountedFor'
    BY <2>1 DEF PoolIInv, HeadsOrdered, NewestAccountedFor, pollVars
  <2>5. NewKeeps'
    BY <2>1 DEF PoolIInv, NewKeeps, newVars, pollVars
  <2> QED
    BY <2>3, <2>4, <2>5 DEF PoolIInv
<1>6. CASE UNCHANGED poolVars
  BY <1>6 DEF poolVars, PoolIInv, PoolTypeOK, HeadsOrdered, NewestAccountedFor, NewKeeps,
     newVars, pollVars
<1> QED
  BY <1>1, <1>2, <1>3, <1>4, <1>5, <1>6 DEF PoolNext

LEMMA AlwaysPoolIInv == PoolSpec => []PoolIInv
BY InitPoolIInv, NextPoolIInv, PTL DEF PoolSpec

(* The pool's variables stay in range for any number of nodes and probe    *)
(* attempts and any capacity: robin never leaves the range of its type and *)
(* Heads never holds more than its capacity.                               *)
THEOREM PoolTypeCorrect == PoolSpec => []PoolTypeOK
BY AlwaysPoolIInv, PTL DEF PoolIInv

(* However the nodes lag, unwind or fail, poll and its consumer hand out   *)
(* every block number at most once and in increasing order.                *)
THEOREM HeadsInOrder == PoolSpec => []HeadsOrdered
BY AlwaysPoolIInv, PTL DEF PoolIInv

(* A full channel is the only way in which the pool loses the newest head. *)
THEOREM NoHeadLostSilently == PoolSpec => []NewestAccountedFor
BY AlwaysPoolIInv, PTL DEF PoolIInv

(* A running pool has nodes, without repetition, and polls only those.     *)
THEOREM NodesAlwaysUsable == PoolSpec => []NodesUsable
<1>1. PoolIInv => NodesUsable
  BY DEF PoolIInv, NewKeeps, NodesUsable
<1> QED
  BY <1>1, AlwaysPoolIInv, PTL

-------------------------------------------------------------------------------
(* main                                                                    *)

LEMMA InitLiveIInv == Init => LiveIInv
<1> SUFFICES ASSUME Init PROVE LiveIInv
  OBVIOUS
<1>1. buf = << >> /\ Len(buf) = 0 /\ buf \in Seq(Rows)
  BY EmptySeq DEF Init
<1>2. PoolIInv
  BY InitPoolIInv DEF Init
<1>3. LiveTypes /\ GuestsKnow /\ NoStragglers /\ ResultsOrdered /\ BlocksComplete
  BY <1>1, LiveAssumption DEF Init, LiveTypes, GuestsKnow, NoStragglers, ResultsOrdered,
     BlocksComplete
<1>4. MetricsMatchResults
  <2> SUFFICES ASSUME NEW g \in Guests, NEW o \in Outcomes
               PROVE  Cardinality(Shown(g, o)) = 0
    BY DEF MetricsMatchResults, Init
  <2>1. Shown(g, o) = {}
    BY <1>1 DEF Shown
  <2> QED
    BY <2>1, FS_EmptySet
<1> QED
  BY <1>2, <1>3, <1>4 DEF LiveIInv

(* What the store holds.                                                   *)
LEMMA RowTypes ==
  ASSUME PoolTypeOK, LiveTypes
  PROVE  /\ Len(buf) \in Nat /\ taken \in Nat
         /\ \A i \in 1 .. Len(buf) : /\ buf[i] \in Rows
                                    /\ buf[i].block \in Nat
                                    /\ buf[i].guest \in Guests
<1>1. Len(buf) \in Nat /\ \A i \in 1 .. Len(buf) : buf[i] \in Rows
  BY LenProperties, ElementOfSeq DEF LiveTypes
<1>2. Heights \subseteq Nat
  BY PoolAssumption DEF Heights
<1> QED
  BY <1>1, <1>2 DEF Rows, PoolTypeOK

(* Only a change of the store changes what it shows.                       *)
LEMMA ShownKept ==
  ASSUME UNCHANGED buf, NEW g, NEW o
  PROVE  Shown(g, o)' = Shown(g, o)
BY DEF Shown

LEMMA ShownFinite ==
  ASSUME LiveTypes, NEW g, NEW o
  PROVE  IsFiniteSet(Shown(g, o)) /\ Cardinality(Shown(g, o)) \in Nat
<1>1. IsFiniteSet(1 .. Len(buf))
  BY LenProperties, FS_Interval DEF LiveTypes
<1>2. Shown(g, o) \subseteq 1 .. Len(buf)
  BY DEF Shown
<1> QED
  BY <1>1, <1>2, FS_Subset, FS_CardinalityType

(* Whatever moves in the process, the pool moves by its own steps only.    *)
LEMMA PoolKept == ASSUME PoolIInv, [Next]_vars PROVE PoolIInv'
<1>1. [PoolNext]_poolVars
  <2>1. CASE UNCHANGED poolVars
    BY <2>1
  <2>2. CASE TakeHead \/ FetchPicks
    BY <2>2 DEF TakeHead, FetchPicks, PoolNext
  <2>3. CASE Judge \/ PollHeads \/ Outside \/ \E u \in Urls : Probe(u)
    BY <2>3 DEF Judge, PollHeads, Outside, Probe, PoolNext, New
  <2> QED
    BY <2>1, <2>2, <2>3 DEF Next, Main, Start, FetchGetsWitness, FetchReturns, FetchFails,
       GuestsDone, SeesDone, Exit, ServerFails, RunGuest, GuestStarts, RunReturns, Publish,
       Publishes, vars
<1> QED
  BY <1>1, NextPoolIInv

(* What live mode adds to the pool's invariant.                            *)
Rest == /\ LiveTypes /\ GuestsKnow
        /\ NoStragglers /\ ResultsOrdered /\ BlocksComplete /\ MetricsMatchResults

-------------------------------------------------------------------------------
(* Steps of the pool and of main                                           *)

(* The pool may do anything but hand over a block.                         *)
LEMMA PoolMoves ==
  ASSUME LiveIInv,
         \/ Judge \/ PollHeads \/ Outside \/ \E u \in Urls : Probe(u)
         \/ UNCHANGED vars
  PROVE  Rest'
<1>1. UNCHANGED <<mainVars, taken>>
  BY DEF Judge, NewSucceeds, NewRetries, NewGivesUp, PollHeads, Run, PollStarts, PollAnswered,
     PollFails, PollerStops, Outside, Environment, Cancel, TipMoves, Probe, ProbeOK, ProbeFail,
     pollVars, poolVars, vars
<1>2. MetricsMatchResults'
  BY <1>1, ShownKept DEF mainVars, LiveIInv, MetricsMatchResults
<1>3. LiveTypes' /\ NoStragglers' /\ ResultsOrdered' /\ BlocksComplete'
  BY <1>1 DEF mainVars, LiveIInv, LiveTypes, NoStragglers, ResultsOrdered, BlocksComplete,
     Labelled
<1>4. GuestsKnow'
  BY <1>1 DEF mainVars, LiveIInv, GuestsKnow, RunResult
<1> QED
  BY <1>2, <1>3, <1>4 DEF Rest

(* The block main takes is newer than every result: no guest is at work,   *)
(* and the numbers in Heads are above the one taken last.                  *)
LEMMA TakeHeadStep == ASSUME LiveIInv, TakeHead PROVE Rest'
<1>1. /\ taken \in Nat /\ taken' \in Nat
      /\ taken < taken'
      /\ \A i \in 1 .. Len(buf) : buf[i].block \in Nat /\ buf[i].block < taken'
  <2>1. /\ Heads \in Seq(Heights) /\ Heads # << >> /\ Len(Heads) \in Nat \ {0}
        /\ taken' = Heads[1] /\ Heads[1] \in Heights /\ taken \in Heights /\ taken < Heads[1]
    BY EmptySeq, LenProperties, ElementOfSeq, HeadTailProperties
       DEF TakeHead, Receive, LiveIInv, PoolIInv, PoolTypeOK, HeadsOrdered
  <2>2. \A i \in 1 .. Len(buf) : buf[i].block \in Nat /\ buf[i].block <= taken
    BY RowTypes DEF LiveIInv, PoolIInv, GuestsKnow
  <2> QED
    BY <2>1, <2>2, PoolAssumption DEF Heights
<1>2. \A g \in Guests : guest[g] \in {"none", "done"}
  BY DEF TakeHead, LiveIInv, NoStragglers
<1>3. UNCHANGED <<guest, ran, buf, verified>> /\ pc = "select" /\ pc' = "pick"
  BY DEF TakeHead
<1>4. MetricsMatchResults'
  BY <1>3, ShownKept DEF LiveIInv, MetricsMatchResults
<1>5. LiveTypes' /\ NoStragglers' /\ ResultsOrdered'
  BY <1>2, <1>3 DEF LiveIInv, LiveTypes, NoStragglers, ResultsOrdered
<1>6. GuestsKnow' /\ BlocksComplete'
  BY <1>1, <1>2, <1>3 DEF LiveIInv, GuestsKnow, BlocksComplete
<1> QED
  BY <1>4, <1>5, <1>6 DEF Rest

(* main's other steps. When wg.Wait returns, the block's results are all   *)
(* in the store, unless it has room for nothing else.                      *)
LEMMA MainStep ==
  ASSUME LiveIInv,
         \/ Start \/ FetchPicks \/ FetchGetsWitness \/ FetchReturns \/ FetchFails
         \/ GuestsDone \/ SeesDone \/ Exit \/ ServerFails
  PROVE  Rest'
<1> USE DEF LiveIInv, Rest
<1>1. CASE \/ Start \/ FetchPicks \/ FetchGetsWitness \/ FetchFails
           \/ SeesDone \/ Exit \/ ServerFails
  <2>1. UNCHANGED <<guest, ran, buf, verified, taken>>
    BY <1>1 DEF Start, FetchPicks, Pick, FetchGetsWitness, FetchFails, SeesDone, Exit,
       ServerFails, poolVars, pollVars
  <2>2. LiveTypes' /\ ResultsOrdered' /\ MetricsMatchResults'
    BY <2>1, ShownKept DEF LiveTypes, ResultsOrdered, MetricsMatchResults
  <2>3. GuestsKnow'
    BY <1>1, <2>1 DEF GuestsKnow, RunResult, Start, FetchPicks, FetchGetsWitness, FetchFails,
       SeesDone, Exit, ServerFails
  <2>4. NoStragglers'
    BY <1>1, <2>1 DEF NoStragglers, Labelled, Start, FetchPicks, FetchGetsWitness, FetchFails,
       SeesDone, Exit, ServerFails
  <2>5. BlocksComplete'
    BY <1>1, <2>1 DEF BlocksComplete, Start, FetchPicks, FetchGetsWitness, FetchFails,
       SeesDone, Exit, ServerFails
  <2> QED
    BY <2>2, <2>3, <2>4, <2>5
<1>2. CASE FetchReturns
  <2>1. UNCHANGED <<ran, buf, verified, taken>> /\ pc = "extras" /\ pc' = "guests"
    BY <1>2 DEF FetchReturns, poolVars, pollVars
  <2>2. \A g \in Guests : guest'[g] = "launched" /\ guest[g] # "ran"
    BY <1>2, <2>1 DEF FetchReturns, NoStragglers
  <2>3. LiveTypes'
    BY <1>2, <2>1 DEF FetchReturns, LiveTypes
  <2>4. MetricsMatchResults'
    BY <2>1, <2>2, ShownKept DEF MetricsMatchResults
  <2> QED
    BY <2>1, <2>2, <2>3, <2>4 DEF GuestsKnow, NoStragglers, ResultsOrdered, BlocksComplete
<1>3. CASE GuestsDone
  <2>1. /\ UNCHANGED <<guest, ran, buf, verified, taken>> /\ pc = "guests" /\ pc' = "select"
        /\ \A g \in Guests : guest[g] = "done"
    BY <1>3 DEF GuestsDone, poolVars, pollVars
  <2>2. LiveTypes' /\ ResultsOrdered' /\ MetricsMatchResults' /\ NoStragglers' /\ GuestsKnow'
    BY <2>1, ShownKept DEF LiveTypes, ResultsOrdered, MetricsMatchResults, NoStragglers,
       GuestsKnow
  <2>3. BlocksComplete'
    <3> SUFFICES ASSUME NEW i \in 1 .. Len(buf), buf[i].block # buf[1].block, NEW g \in Guests
                 PROVE  \E j \in 1 .. Len(buf) : buf[j].block = buf[i].block /\ buf[j].guest = g
      BY <2>1 DEF BlocksComplete
    <3>1. CASE buf[i].block = taken
      BY <3>1, <2>1 DEF GuestsKnow
    <3>2. CASE buf[i].block # taken
      BY <3>2 DEF BlocksComplete
    <3> QED
      BY <3>1, <3>2
  <2> QED
    BY <2>2, <2>3
<1> QED
  BY <1>1, <1>2, <1>3

-------------------------------------------------------------------------------
(* The guests' goroutines                                                  *)

(* Run counts the outcome it returns, once.                                *)
LEMMA RunGuestStep == ASSUME LiveIInv, NEW g \in Guests, RunGuest(g) PROVE Rest'
<1> USE DEF LiveIInv
<1>1. /\ pc = "guests" /\ guest[g] \in {"launched", "running"}
      /\ UNCHANGED <<pc, buf, taken>>
  BY DEF RunGuest, Running, GuestStarts, RunReturns, NoStragglers, poolVars, pollVars
<1>2. ResultsOrdered' /\ BlocksComplete'
  BY <1>1 DEF ResultsOrdered, BlocksComplete
<1>3. CASE GuestStarts(g)
  <2>1. UNCHANGED <<ran, verified>> /\ guest' = [guest EXCEPT ![g] = "running"]
    BY <1>3 DEF GuestStarts
  <2>2. LiveTypes'
    BY <1>1, <2>1 DEF LiveTypes
  <2>3. GuestsKnow' /\ NoStragglers'
    BY <1>1, <2>1 DEF LiveTypes, GuestsKnow, NoStragglers, Labelled, RunResult
  <2>4. MetricsMatchResults'
    BY <1>1, <2>1, ShownKept DEF LiveTypes, MetricsMatchResults
  <2> QED
    BY <1>2, <2>2, <2>3, <2>4 DEF Rest
<1>4. ASSUME NEW o \in Outcomes, RunReturns(g, o) PROVE Rest'
  <2>1. /\ ran' = [ran EXCEPT ![g] = RunResult(g, o)]
        /\ verified' = [verified EXCEPT ![g][o] = @ + 1]
        /\ guest' = [guest EXCEPT ![g] = "ran"]
    BY <1>4 DEF RunReturns
  <2>2. LiveTypes'
    BY <1>1, <2>1 DEF LiveTypes
  <2>3. GuestsKnow'
    <3>1. \A h \in Guests : guest'[h] = "ran" => \E p \in Outcomes : ran'[h] = RunResult(h, p)'
      <4> SUFFICES ASSUME NEW h \in Guests, guest'[h] = "ran"
                   PROVE  \E p \in Outcomes : ran'[h] = RunResult(h, p)
        BY <1>1 DEF RunResult
      <4>1. CASE h = g
        BY <2>1, <4>1 DEF LiveTypes
      <4>2. CASE h # g
        BY <2>1, <4>2 DEF LiveTypes, GuestsKnow
      <4> QED
        BY <4>1, <4>2
    <3>2. \A i \in 1 .. Len(buf) : buf[i].block = taken => guest'[buf[i].guest] = "done"
      BY <1>1, <2>1, RowTypes DEF LiveTypes, GuestsKnow, PoolIInv
    <3>3. \A h \in Guests : guest'[h] = "done" => guest[h] = "done"
      BY <2>1 DEF LiveTypes
    <3> QED
      BY <1>1, <3>1, <3>2, <3>3 DEF GuestsKnow
  <2>4. NoStragglers'
    BY <1>1, <2>1 DEF LiveTypes, NoStragglers, Labelled, RunResult
  <2>5. MetricsMatchResults'
    <3> SUFFICES ASSUME Len(buf) < capacity, NEW h \in Guests, NEW p \in Outcomes
                 PROVE  verified'[h][p] =
                          Cardinality(Shown(h, p)) + IF guest'[h] = "ran" /\ ran'[h].outcome = p
                                                       THEN 1 ELSE 0
      BY <1>1, ShownKept DEF MetricsMatchResults
    <3>1. verified[h][p] \in Nat
      BY DEF LiveTypes
    <3>2. verified[h][p] = Cardinality(Shown(h, p)) + IF guest[h] = "ran" /\ ran[h].outcome = p
                                                        THEN 1 ELSE 0
      BY DEF MetricsMatchResults
    <3>3. CASE h = g
      <4>1. guest[h] # "ran" /\ guest'[h] = "ran" /\ ran'[h].outcome = o
        BY <1>1, <2>1, <3>3 DEF LiveTypes, RunResult
      <4>2. verified'[h][p] = IF p = o THEN verified[h][p] + 1 ELSE verified[h][p]
        BY <2>1, <3>3 DEF LiveTypes
      <4> QED
        BY <3>1, <3>2, <4>1, <4>2, ShownFinite
    <3>4. CASE h # g
      BY <2>1, <3>2, <3>4 DEF LiveTypes
    <3> QED
      BY <3>3, <3>4
  <2> QED
    BY <1>2, <2>2, <2>3, <2>4, <2>5 DEF Rest
<1> QED
  BY <1>3, <1>4 DEF RunGuest

(* What the goroutine of a guest adds to the store.                        *)
LEMMA LabelledResult ==
  ASSUME NEW g \in Guests, NEW o \in Outcomes, ran[g] = RunResult(g, o)
  PROVE  Labelled(g) = [block |-> taken, guest |-> g, outcome |-> o]
<1>1. CASE o = "error"
  <2>1. ran[g] = [block |-> 0, guest |-> NoUrl, outcome |-> "error"]
    BY <1>1 DEF RunResult
  <2>2. Labelled(g) = [[block |-> 0, guest |-> NoUrl, outcome |-> "error"]
                          EXCEPT !.block = taken, !.guest = g]
    BY <2>1 DEF Labelled
  <2> QED
    BY <1>1, <2>2
<1>2. CASE o # "error"
  BY <1>2 DEF Labelled, RunResult
<1> QED
  BY <1>1, <1>2

(* How adding a result changes the store: it comes last, and what was there*)
(* stays in place or moves up by one, the oldest falling out.              *)
LEMMA PushedProperties ==
  ASSUME buf \in Seq(Rows), Len(buf) <= capacity, NEW res \in Rows, buf' = Pushed(res)
  PROVE  /\ buf' \in Seq(Rows) /\ Len(buf) \in Nat
         /\ Len(buf) < capacity =>
              /\ Len(buf') = Len(buf) + 1
              /\ \A i \in 1 .. Len(buf) : buf'[i] = buf[i]
         /\ ~(Len(buf) < capacity) =>
              /\ Len(buf) = capacity /\ Len(buf') = capacity
              /\ \A i \in 1 .. capacity - 1 : buf'[i] = buf[i + 1]
         /\ buf'[Len(buf')] = res
<1>1. Len(buf) \in Nat /\ capacity \in Nat \ {0}
  BY LenProperties, LiveAssumption
<1>2. CASE Len(buf) < capacity
  <2>1. buf' = Append(buf, res)
    BY <1>2 DEF Pushed
  <2> QED
    BY <1>1, <1>2, <2>1, AppendProperties
<1>3. CASE ~(Len(buf) < capacity)
  <2>1. Len(buf) = capacity
    BY <1>1, <1>3
  <2>2. buf' = Append(Tail(buf), res)
    BY <1>3 DEF Pushed
  <2>3. buf # << >>
    BY <1>1, <2>1, EmptySeq
  <2>4. /\ Tail(buf) \in Seq(Rows)
        /\ Len(Tail(buf)) = Len(buf) - 1
        /\ \A i \in 1 .. Len(Tail(buf)) : Tail(buf)[i] = buf[i + 1]
    BY <2>3, HeadTailProperties
  <2> QED
    BY <1>1, <2>1, <2>2, <2>4, AppendProperties
<1> QED
  BY <1>2, <1>3

(* A result that is added is newer than or of the same block as all that   *)
(* are shown, and the first of its guest for its block.                    *)
LEMMA PublishStep == ASSUME LiveIInv, NEW g \in Guests, Publish(g) PROVE Rest'
<1> USE DEF LiveIInv
<1> DEFINE n == Len(buf)
<1>1. /\ pc = "guests" /\ guest[g] = "ran" /\ UNCHANGED <<pc, verified, taken>>
      /\ guest' = [guest EXCEPT ![g] = "done"]
      /\ ran' = [ran EXCEPT ![g] = Nothing]
      /\ buf' = Pushed(Labelled(g))
  BY DEF Publish, Publishes, Running, NoStragglers, poolVars, pollVars
<1>2. PICK o \in Outcomes : ran[g] = RunResult(g, o)
  BY <1>1 DEF GuestsKnow
<1> DEFINE res == [block |-> taken, guest |-> g, outcome |-> o]
<1>3. Labelled(g) = res /\ ran[g].outcome = o
  BY <1>2, LabelledResult DEF RunResult
<1>4. res \in Rows
  BY DEF Rows, PoolIInv, PoolTypeOK
<1>5. /\ buf' \in Seq(Rows) /\ n \in Nat /\ capacity \in Nat \ {0} /\ n <= capacity
      /\ n < capacity => /\ Len(buf') = n + 1
                         /\ \A i \in 1 .. n : buf'[i] = buf[i]
      /\ ~(n < capacity) => /\ n = capacity /\ Len(buf') = capacity
                            /\ \A i \in 1 .. capacity - 1 : buf'[i] = buf[i + 1]
      /\ buf'[Len(buf')] = res
  BY <1>1, <1>3, <1>4, PushedProperties, LiveAssumption DEF LiveTypes
<1> DEFINE shift == IF n < capacity THEN 0 ELSE 1
<1> HIDE DEF res
<1>6. /\ Len(buf') \in Nat \ {0} /\ Len(buf') = n + 1 - shift /\ shift \in {0, 1}
      /\ \A i \in 1 .. Len(buf') - 1 : i + shift \in 1 .. n /\ buf'[i] = buf[i + shift]
      /\ buf'[Len(buf')] = res
      /\ \A i \in 1 .. n : i = shift \/ (i - shift \in 1 .. Len(buf') - 1 /\ buf'[i - shift] = buf[i])
  BY <1>5
<1>7. res.block = taken /\ res.guest = g /\ res.outcome = o
  BY DEF res
<1>8. /\ taken \in Nat
      /\ \A i \in 1 .. n : /\ buf[i].block \in Nat /\ buf[i].guest \in Guests
                           /\ buf[i].block <= taken
                           /\ buf[i].block = taken => guest[buf[i].guest] = "done"
  BY <1>1, RowTypes DEF PoolIInv, GuestsKnow
<1> HIDE DEF shift, n
<1>9. LiveTypes'
  BY <1>1, <1>5 DEF LiveTypes
<1>10. ResultsOrdered'
  <2> SUFFICES ASSUME NEW i \in 1 .. Len(buf'), NEW j \in 1 .. Len(buf'), i < j
               PROVE  /\ buf'[i].block <= buf'[j].block
                      /\ buf'[i].block = buf'[j].block => buf'[i].guest # buf'[j].guest
    BY DEF ResultsOrdered
  <2>1. i \in 1 .. Len(buf') - 1 /\ i + shift \in 1 .. n /\ buf'[i] = buf[i + shift]
    BY <1>6
  <2>2. CASE j = Len(buf')
    BY <1>1, <1>6, <1>7, <1>8, <2>1, <2>2
  <2>3. CASE j # Len(buf')
    <3>1. j + shift \in 1 .. n /\ buf'[j] = buf[j + shift] /\ i + shift < j + shift
      BY <1>6, <2>3
    <3> QED
      BY <2>1, <3>1 DEF ResultsOrdered, n
  <2> QED
    BY <2>2, <2>3
<1>11. NoStragglers'
  BY <1>1 DEF NoStragglers, LiveTypes, Labelled
<1>12. BlocksComplete'
  <2> SUFFICES ASSUME NEW i \in 1 .. Len(buf'), buf'[i].block # buf'[1].block,
                      buf'[i].block # taken, NEW h \in Guests
               PROVE  \E j \in 1 .. Len(buf') : buf'[j].block = buf'[i].block /\ buf'[j].guest = h
    BY <1>1 DEF BlocksComplete
  <2>1. /\ i # Len(buf') /\ i # 1
        /\ i + shift \in 1 .. n /\ buf'[i] = buf[i + shift]
        /\ 1 + shift \in 1 .. n /\ buf'[1] = buf[1 + shift] /\ 1 + shift < i + shift
    BY <1>6, <1>7
  <2>2. buf[i + shift].block # buf[1].block
    <3>1. CASE shift = 0
      BY <2>1, <3>1
    <3>2. CASE shift = 1
      <4>1. 1 \in 1 .. n /\ 1 < 1 + shift
        BY <2>1, <3>2, <1>5
      <4>2. /\ buf[1].block <= buf[1 + shift].block
            /\ buf[1 + shift].block <= buf[i + shift].block
        BY <2>1, <4>1 DEF ResultsOrdered, n
      <4> QED
        BY <2>1, <4>1, <4>2, <1>8
    <3> QED
      BY <1>6, <3>1, <3>2
  <2>3. PICK j \in 1 .. n : buf[j].block = buf[i + shift].block /\ buf[j].guest = h
    BY <1>1, <2>1, <2>2 DEF BlocksComplete, n
  <2>4. j # shift
    BY <1>6, <2>2, <2>3
  <2>5. j - shift \in 1 .. Len(buf') /\ buf'[j - shift] = buf[j]
    BY <1>6, <2>4
  <2> QED
    BY <2>1, <2>3, <2>5
<1>13. MetricsMatchResults'
  <2> SUFFICES ASSUME Len(buf') < capacity, NEW h \in Guests, NEW p \in Outcomes
               PROVE  verified'[h][p] =
                        Cardinality(Shown(h, p)') + IF guest'[h] = "ran" /\ ran'[h].outcome = p
                                                      THEN 1 ELSE 0
    BY DEF MetricsMatchResults
  <2>1. /\ n < capacity /\ Len(buf') = n + 1
        /\ \A i \in 1 .. n : buf'[i] = buf[i]
        /\ buf'[n + 1] = res
    BY <1>5
  <2>2. verified[h][p] = Cardinality(Shown(h, p)) + IF guest[h] = "ran" /\ ran[h].outcome = p
                                                      THEN 1 ELSE 0
    BY <2>1 DEF MetricsMatchResults, n
  <2>3. CASE h = g /\ p = o
    <3>1. Shown(h, p)' = Shown(h, p) \cup {n + 1}
      BY <1>5, <1>7, <2>1, <2>3 DEF Shown, n
    <3>2. n + 1 \notin Shown(h, p)
      BY <1>5 DEF Shown, n
    <3>3. Cardinality(Shown(h, p)') = Cardinality(Shown(h, p)) + 1
      BY <3>1, <3>2, ShownFinite, FS_AddElement
    <3>4. guest'[h] = "done" /\ guest[h] = "ran" /\ ran[h].outcome = p
      BY <1>1, <1>3, <2>3 DEF LiveTypes
    <3> QED
      BY <1>1, <2>2, <3>3, <3>4, ShownFinite
  <2>4. CASE ~(h = g /\ p = o)
    <3>1. Shown(h, p)' = Shown(h, p)
      BY <1>5, <1>7, <2>1, <2>4 DEF Shown, n
    <3>2. (guest'[h] = "ran" /\ ran'[h].outcome = p) <=> (guest[h] = "ran" /\ ran[h].outcome = p)
      BY <1>1, <1>3, <2>4 DEF LiveTypes
    <3> QED
      BY <1>1, <2>2, <3>1, <3>2
  <2> QED
    BY <2>3, <2>4
<1>14. GuestsKnow'
  <2>1. \A h \in Guests : guest'[h] = "ran" => \E p \in Outcomes : ran'[h] = RunResult(h, p)'
    <3> SUFFICES ASSUME NEW h \in Guests, guest'[h] = "ran"
                 PROVE  \E p \in Outcomes : ran'[h] = RunResult(h, p)
      BY <1>1 DEF RunResult
    <3>1. h # g /\ guest[h] = "ran" /\ ran'[h] = ran[h]
      BY <1>1 DEF LiveTypes
    <3> QED
      BY <3>1 DEF GuestsKnow
  <2>2. \A i \in 1 .. Len(buf') : i = Len(buf') \/ (i + shift \in 1 .. n /\ buf'[i] = buf[i + shift])
    BY <1>6
  <2>3. \A i \in 1 .. Len(buf') : buf'[i].block <= taken
    BY <1>6, <1>7, <1>8, <2>2
  <2>4. \A i \in 1 .. Len(buf') : buf'[i].block = taken => guest'[buf'[i].guest] = "done"
    <3> SUFFICES ASSUME NEW i \in 1 .. Len(buf'), buf'[i].block = taken
                 PROVE  guest'[buf'[i].guest] = "done"
      OBVIOUS
    <3>1. CASE i = Len(buf')
      BY <1>1, <1>6, <1>7, <3>1 DEF LiveTypes
    <3>2. CASE i # Len(buf')
      <4>1. i + shift \in 1 .. n /\ buf'[i] = buf[i + shift]
        BY <2>2, <3>2
      <4>2. buf'[i].guest \in Guests /\ guest[buf'[i].guest] = "done"
        BY <1>8, <4>1
      <4> QED
        BY <1>1, <4>2 DEF LiveTypes
    <3> QED
      BY <3>1, <3>2
  <2>5. ASSUME NEW h \in Guests, guest'[h] = "done"
        PROVE  \/ buf' # << >> /\ buf'[1].block = taken
               \/ \E j \in 1 .. Len(buf') : buf'[j].block = taken /\ buf'[j].guest = h
    <3>1. CASE h = g
      BY <1>6, <1>7, <3>1
    <3>2. ASSUME n \in Nat \ {0}, buf[1].block = taken
          PROVE  buf' # << >> /\ buf'[1].block = taken
      <4>1. \A i \in 1 .. n : buf[i].block = taken
        BY <1>8, <3>2 DEF ResultsOrdered, n
      <4>2. buf' # << >>
        BY <1>5, <1>6, EmptySeq
      <4>3. buf'[1].block = taken
        BY <1>6, <1>7, <2>2, <4>1
      <4> QED
        BY <4>2, <4>3
    <3>3. CASE h # g
      <4>1. guest[h] = "done"
        BY <1>1, <2>5, <3>3 DEF LiveTypes
      <4>2. CASE buf # << >> /\ buf[1].block = taken
        <5>1. n \in Nat \ {0}
          BY <1>5, <4>2, EmptySeq DEF LiveTypes, n
        <5> QED
          BY <3>2, <4>2, <5>1
      <4>3. ASSUME NEW j \in 1 .. n, buf[j].block = taken, buf[j].guest = h
            PROVE  \/ buf' # << >> /\ buf'[1].block = taken
                   \/ \E k \in 1 .. Len(buf') : buf'[k].block = taken /\ buf'[k].guest = h
        <5>1. CASE j = shift
          <6>1. j = 1 /\ n \in Nat \ {0}
            BY <1>5, <1>6, <5>1
          <6> QED
            BY <3>2, <4>3, <6>1
        <5>2. CASE j # shift
          <6>1. j - shift \in 1 .. Len(buf') /\ buf'[j - shift] = buf[j]
            BY <1>6, <5>2
          <6> QED
            BY <4>3, <6>1
        <5> QED
          BY <5>1, <5>2
      <4> QED
        BY <1>1, <4>1, <4>2, <4>3 DEF GuestsKnow, n
    <3> QED
      BY <3>1, <3>3
  <2> QED
    BY <1>1, <2>1, <2>3, <2>4, <2>5 DEF GuestsKnow
<1> QED
  BY <1>9, <1>10, <1>11, <1>12, <1>13, <1>14 DEF Rest

-------------------------------------------------------------------------------

LEMMA NextLiveIInv == LiveIInv /\ [Next]_vars => LiveIInv'
<1> SUFFICES ASSUME LiveIInv, [Next]_vars PROVE LiveIInv'
  OBVIOUS
<1>1. PoolIInv'
  BY PoolKept DEF LiveIInv
<1>2. Rest'
  BY PoolMoves, TakeHeadStep, MainStep, RunGuestStep, PublishStep DEF Next, Main
<1> QED
  BY <1>1, <1>2 DEF LiveIInv, Rest

LEMMA AlwaysLiveIInv == Spec => []LiveIInv
BY InitLiveIInv, NextLiveIInv, PTL DEF Spec

(* However blocks, guests and the pool interleave, main verifies no block  *)
(* twice and GET /results shows the results in block order.                *)
THEOREM ResultsInOrder == Spec => []ResultsOrdered
BY AlwaysLiveIInv, PTL DEF LiveIInv

(* wg.Wait separates the blocks: no goroutine works on a block main has    *)
(* left.                                                                   *)
THEOREM GuestsStayWithTheirBlock == Spec => []NoStragglers
BY AlwaysLiveIInv, PTL DEF LiveIInv

(* Eviction takes results one by one, yet only the oldest block shown can  *)
(* miss some.                                                              *)
THEOREM ShownBlocksAreComplete == Spec => []BlocksComplete
BY AlwaysLiveIInv, PTL DEF LiveIInv

(* Each counter of the metrics is the number of results with its labels,   *)
(* as long as the store has evicted none.                                  *)
THEOREM MetricsCorrect == Spec => []MetricsMatchResults
BY AlwaysLiveIInv, PTL DEF LiveIInv

(* In live mode, too, the pool hands out each number once and in order, and*)
(* has a node for each call of next.                                       *)
THEOREM PoolCorrectInMain == Spec => [](HeadsOrdered /\ NodesUsable)
<1>1. LiveIInv => HeadsOrdered /\ NodesUsable
  BY DEF LiveIInv, PoolIInv, NewKeeps, NodesUsable
<1> QED
  BY <1>1, AlwaysLiveIInv, PTL
===============================================================================
