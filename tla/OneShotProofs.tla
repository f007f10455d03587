---------------------------- MODULE OneShotProofs -----------------------------
(***************************************************************************)
(* For any blocks that compete for a number, any BALs and requests they    *)
(* commit to, and any reorganisations and failures between the calls: an   *)
(* input Fetch returns has the block's own requests, and BALErr tells      *)
(* whether it has the block's own BAL. For any guests and any setting of   *)
(* the environment variables: the exit code is the verdict and a complete  *)
(* dump is a vector.                                                       *)
(***************************************************************************)
EXTENDS OneShot, TLAPS

-------------------------------------------------------------------------------
(* Fetch                                                                   *)

(* The branches of the check, taken together: no error exactly for the     *)
(* encoding of the list the header commits to, or for a header without one.*)
LEMMA BalErrorIsRight ==
  ASSUME NEW bytes \in BalBytes, block \in Blocks
  PROVE  BalError(bytes) <=> (BalOf[block] # NoBal /\ bytes # Rlp(BalOf[block]))
<1>1. BalOf[block] # NoBal => BalOf[block] \in Bals
  BY DEF Bals
<1>2. BalOf[block] # NoBal => BalOf[block] # NotAList
  BY <1>1, FetchAssumption
<1>3. CASE bytes \in {Nil, NoBytes, Garbage}
  BY <1>2, <1>3 DEF BalError, verifyBALHash, Nil, NoBytes, Garbage, Rlp
<1>4. ASSUME NEW x \in Bals \cup {EmptyBal, OtherBal}, bytes = Rlp(x)
      PROVE  BalError(bytes) <=> (BalOf[block] # NoBal /\ bytes # Rlp(BalOf[block]))
  <2>1. bytes.len = 1 /\ bytes.list = x
    BY <1>4 DEF Rlp
  <2>2. x # NotAList
    BY FetchAssumption DEF EmptyBal, OtherBal, NotAList
  <2>3. bytes = Rlp(BalOf[block]) <=> x = BalOf[block]
    BY <1>4 DEF Rlp
  <2> QED
    BY <2>1, <2>2, <2>3 DEF BalError, verifyBALHash
<1> QED
  BY <1>3, <1>4 DEF BalBytes

(* Fetch tells "nothing was fetched" from "no bytes" by comparing with nil.*)
LEMMA NilIsNil == \A bytes \in BalBytes : bytes.nil <=> bytes = Nil
BY DEF BalBytes, Nil, NoBytes, Garbage, Rlp

LEMMA InitFetchIInv == FetchInit => FetchIInv
BY DEF FetchInit, BalBytes, FetchIInv, FetchTypeOK, FetchKnows, RequestsAreTheBlocks,
   BalErrIsRight, Returned

(* The calls up to the witness, and every error return.                    *)
LEMMA BlockStep ==
  ASSUME FetchIInv,
         GetBlock \/ GetWitness \/ \E s \in {"block", "witness", "requests"} : Fails(s)
  PROVE  FetchIInv'
<1>1. CASE GetBlock
  <2>1. FetchTypeOK'
    BY <1>1 DEF GetBlock, FetchIInv, FetchTypeOK
  <2>2. ~err
    BY <1>1 DEF GetBlock, FetchIInv, FetchKnows
  <2> QED
    BY <1>1, <2>1, <2>2 DEF GetBlock, FetchIInv, FetchTypeOK, FetchKnows,
       RequestsAreTheBlocks, BalErrIsRight, Returned
<1>2. CASE GetWitness
  BY <1>2 DEF GetWitness, WitnessAnswers, FetchIInv, FetchTypeOK, FetchKnows,
     RequestsAreTheBlocks, BalErrIsRight, Returned
<1>3. CASE \E s \in {"block", "witness", "requests"} : Fails(s)
  BY <1>3 DEF Fails, FetchIInv, FetchTypeOK, FetchKnows, RequestsAreTheBlocks,
     BalErrIsRight, Returned
<1> QED
  BY <1>1, <1>2, <1>3

(* A block access list from the engine: its verdict is kept with it.       *)
LEMMA EngineStep ==
  ASSUME FetchIInv, NEW bytes \in BalBytes, GetBALFromEngine(bytes)
  PROVE  FetchIInv'
<1>1. CASE bytes = Nil
  BY <1>1, NilIsNil DEF GetBALFromEngine, FetchIInv, FetchTypeOK, FetchKnows,
     RequestsAreTheBlocks, BalErrIsRight, Returned
<1>2. CASE bytes # Nil
  <2>1. ~bytes.nil
    BY <1>2, NilIsNil
  <2>2. block \in Blocks
    BY DEF GetBALFromEngine, FetchIInv, FetchKnows
  <2>3. BalError(bytes) <=> (BalOf[block] # NoBal /\ bytes # Rlp(BalOf[block]))
    BY <2>2, BalErrorIsRight
  <2> QED
    BY <2>1, <2>2, <2>3 DEF GetBALFromEngine, AfterBal, FetchIInv, FetchTypeOK, FetchKnows,
       RequestsAreTheBlocks, BalErrIsRight, Returned, BalError, verifyBALHash
<1> QED
  BY <1>1, <1>2

(* A block access list from the fallback, perhaps of another block.        *)
LEMMA FallbackStep ==
  ASSUME FetchIInv, NEW bytes \in BalBytes, GetBAL(bytes)
  PROVE  FetchIInv'
<1>1. block \in Blocks
  BY DEF GetBAL, FetchIInv, FetchKnows
<1>2. BalError(bytes) <=> (BalOf[block] # NoBal /\ bytes # Rlp(BalOf[block]))
  BY <1>1, BalErrorIsRight
<1> QED
  BY <1>1, <1>2 DEF GetBAL, AfterBal, FetchIInv, FetchTypeOK, FetchKnows,
     RequestsAreTheBlocks, BalErrIsRight, Returned, BalError, verifyBALHash

(* The requests and the encoding.                                          *)
LEMMA RequestsStep ==
  ASSUME FetchIInv,
         Encode \/ \E r \in Requests, short \in BOOLEAN : GetRequests(r, short)
  PROVE  FetchIInv'
<1>1. CASE Encode
  <2>1. block \in Blocks /\ requests = RequestsOf[block]
    BY <1>1 DEF Encode, FetchIInv, FetchKnows
  <2>2. RequestsEncode =>
          \A i, j \in DOMAIN requests : requests[i].type = requests[j].type => i = j
    <3>1. DOMAIN requests \subseteq Nat /\ \A i \in DOMAIN requests : requests[i].type \in 0 .. 255
      BY <2>1, FetchAssumption
    <3>2. SUFFICES ASSUME RequestsEncode,
                          NEW i \in DOMAIN requests, NEW j \in DOMAIN requests,
                          requests[i].type = requests[j].type, i # j
                   PROVE  FALSE
      OBVIOUS
    <3>3. requests[i].type \in Nat /\ i \in Nat /\ j \in Nat
      BY <3>1
    <3> QED
      BY <3>2, <3>3 DEF RequestsEncode
  <2> QED
    BY <1>1, <2>1, <2>2 DEF Encode, RequestsEncode, FetchIInv, FetchTypeOK, FetchKnows,
       RequestsAreTheBlocks, BalErrIsRight, Returned
<1>2. ASSUME NEW r \in Requests, NEW short \in BOOLEAN, GetRequests(r, short)
      PROVE  FetchIInv'
  BY <1>2 DEF GetRequests, FetchIInv, FetchTypeOK, FetchKnows, RequestsAreTheBlocks,
     BalErrIsRight, Returned
<1> QED
  BY <1>1, <1>2

(* A reorganisation or the end of the context between two calls.           *)
LEMMA WorldStep == ASSUME FetchIInv, World PROVE FetchIInv'
<1>1. CASE CtxEnds
  BY <1>1 DEF CtxEnds, FetchIInv, FetchTypeOK, FetchKnows, RequestsAreTheBlocks,
     BalErrIsRight, Returned
<1>2. ASSUME NEW b \in Blocks, Reorg(b) PROVE FetchIInv'
  BY <1>2 DEF Reorg, FetchIInv, FetchTypeOK, FetchKnows, RequestsAreTheBlocks,
     BalErrIsRight, Returned
<1> QED
  BY <1>1, <1>2 DEF World

LEMMA NextFetchIInv == FetchIInv /\ [FetchNext]_fetchVars => FetchIInv'
<1> SUFFICES ASSUME FetchIInv, [FetchNext]_fetchVars PROVE FetchIInv'
  OBVIOUS
<1>1. CASE FetchStep
  BY <1>1, BlockStep, EngineStep, FallbackStep, RequestsStep DEF FetchStep
<1>2. CASE World
  BY <1>2, WorldStep
<1>3. CASE UNCHANGED fetchVars
  BY <1>3 DEF fetchVars, FetchIInv, FetchTypeOK, FetchKnows, RequestsAreTheBlocks,
     BalErrIsRight, Returned
<1> QED
  BY <1>1, <1>2, <1>3 DEF FetchNext

LEMMA AlwaysFetchIInv == FetchSpec => []FetchIInv
BY InitFetchIInv, NextFetchIInv, PTL DEF FetchSpec

(* The variables of Fetch stay in range, whatever the node and the engine  *)
(* answer.                                                                 *)
THEOREM FetchTypeCorrect == FetchSpec => []FetchTypeOK
BY AlwaysFetchIInv, PTL DEF FetchIInv

(* An input that Fetch returns has the requests of its own block's header. *)
THEOREM RequestsChecked == FetchSpec => []RequestsAreTheBlocks
BY AlwaysFetchIInv, PTL DEF FetchIInv

(* BALErr is nil exactly for an input with the BAL its header commits to.  *)
THEOREM BalChecked == FetchSpec => []BalErrIsRight
BY AlwaysFetchIInv, PTL DEF FetchIInv

-------------------------------------------------------------------------------
(* Fetch as main calls it                                                  *)

(* A failed Fetch does not become a returned one, and what it returned does*)
(* not change any more: FetchStep is over, and so is the world's part.     *)
LEMMA ReturnedIsFinal == at = "returned" => ~FetchStep /\ ~World
BY DEF FetchStep, Fails, GetBlock, GetWitness, GetBALFromEngine, GetBAL, GetRequests, Encode,
   World

(* The end of the context changes nothing Fetch has found out.             *)
LEMMA InterruptStep == ASSUME FetchIInv, Interrupt PROVE FetchIInv'
BY DEF Interrupt, FetchIInv, FetchTypeOK, FetchKnows, RequestsAreTheBlocks, BalErrIsRight,
   Returned

(* Every step of main keeps what Fetch guarantees.                         *)
LEMMA FetchKept == ASSUME FetchIInv, [Next]_vars PROVE FetchIInv'
<1>1. CASE UNCHANGED fetchVars
  BY <1>1, NextFetchIInv
<1>2. CASE FetchGoesOn
  BY <1>2, NextFetchIInv DEF FetchGoesOn, FetchNext
<1>3. CASE Outside
  BY <1>3, NextFetchIInv DEF Outside, FetchNext
<1>4. CASE Interrupt
  BY <1>4, InterruptStep
<1> QED
  BY <1>1, <1>2, <1>3, <1>4 DEF Next, Step, CheckEnvironment, InitPool, ChooseMode,
     FetchFailed, LaunchGuests, GuestStarts, GuestEnds, GuestsDone, DumpRefused, DumpOpens,
     DumpWrites, Killed, vars
-------------------------------------------------------------------------------
(* main                                                                    *)

LEMMA InitOneShotIInv == Init => OneShotIInv
BY InitFetchIInv DEF Init, FetchInit, OneShotIInv, MainKnows, ExitCodeIsVerdict, Returned

(* Everything main does before and after Fetch, apart from the guests.     *)
LEMMA MainStep ==
  ASSUME OneShotIInv,
         \/ CheckEnvironment \/ InitPool \/ ChooseMode \/ FetchFailed
         \/ DumpRefused \/ DumpOpens \/ DumpWrites \/ Killed
  PROVE  (MainKnows /\ ExitCodeIsVerdict)'
<1> USE DEF OneShotIInv, MainKnows, ExitCodeIsVerdict, Returned, Exits, fetchVars
<1>1. CASE CheckEnvironment
  BY <1>1 DEF CheckEnvironment
<1>2. CASE InitPool
  BY <1>2 DEF InitPool
<1>3. CASE ChooseMode
  BY <1>3 DEF ChooseMode
<1>4. CASE FetchFailed
  BY <1>4 DEF FetchFailed
<1>5. CASE DumpRefused
  BY <1>5 DEF DumpRefused
<1>6. CASE DumpOpens
  BY <1>6 DEF DumpOpens
<1>7. CASE DumpWrites
  BY <1>7 DEF DumpWrites
<1>8. CASE Killed
  BY <1>8 DEF Killed
<1> QED
  BY <1>1, <1>2, <1>3, <1>4, <1>5, <1>6, <1>7, <1>8

(* The steps of Fetch and of the world, which touch nothing of main's.     *)
LEMMA AroundFetchStep ==
  ASSUME OneShotIInv, FetchGoesOn \/ Outside \/ Interrupt \/ UNCHANGED vars
  PROVE  (MainKnows /\ ExitCodeIsVerdict)'
<1>1. CASE FetchGoesOn \/ Outside
  BY <1>1 DEF FetchGoesOn, Outside, mainVars, OneShotIInv, MainKnows, ExitCodeIsVerdict
<1>2. CASE Interrupt
  BY <1>2 DEF Interrupt, OneShotIInv, MainKnows, ExitCodeIsVerdict, Returned
<1>3. CASE UNCHANGED vars
  BY <1>3 DEF vars, mainVars, fetchVars, OneShotIInv, MainKnows, ExitCodeIsVerdict, Returned
<1> QED
  BY <1>1, <1>2, <1>3

(* The guests: exitCode is 1 from the first that does not call the block   *)
(* valid on, in whatever order they end.                                   *)
LEMMA GuestStep ==
  ASSUME OneShotIInv,
         \/ LaunchGuests \/ GuestsDone
         \/ \E g \in Guests : GuestStarts(g) \/ \E o \in {"ok", "fail", "error"} : GuestEnds(g, o)
  PROVE  (MainKnows /\ ExitCodeIsVerdict)'
<1> USE DEF OneShotIInv, MainKnows, ExitCodeIsVerdict, Returned, fetchVars
<1>1. CASE LaunchGuests
  BY <1>1 DEF LaunchGuests
<1>2. CASE GuestsDone
  BY <1>2 DEF GuestsDone, Exits
<1>3. ASSUME NEW g \in Guests, GuestStarts(g)
      PROVE  (MainKnows /\ ExitCodeIsVerdict)'
  BY <1>3 DEF GuestStarts
<1>4. ASSUME NEW g \in Guests, NEW o \in {"ok", "fail", "error"}, GuestEnds(g, o)
      PROVE  (MainKnows /\ ExitCodeIsVerdict)'
  BY <1>4 DEF GuestEnds
<1> QED
  BY <1>1, <1>2, <1>3, <1>4

LEMMA NextOneShotIInv == OneShotIInv /\ [Next]_vars => OneShotIInv'
BY FetchKept, MainStep, AroundFetchStep, GuestStep DEF OneShotIInv, Next, Step

LEMMA AlwaysOneShotIInv == Spec => []OneShotIInv
BY InitOneShotIInv, NextOneShotIInv, PTL DEF Spec

-------------------------------------------------------------------------------

(* runBlock's exit code is 0 exactly if Fetch returned an input and every  *)
(* guest called the block valid, for any number of guests.                 *)
THEOREM ExitCodeCorrect == Spec => []ExitCodeIsVerdict
BY AlwaysOneShotIInv, PTL DEF OneShotIInv

(* A complete dump file holds the BAL and the requests its block commits   *)
(* to, and dumpBlock exits with 0 exactly if the file is complete.         *)
THEOREM DumpCorrect == Spec => []DumpIsVector
<1>1. OneShotIInv => DumpIsVector
  BY DEF OneShotIInv, MainKnows, FetchIInv, BalErrIsRight, RequestsAreTheBlocks, DumpIsVector
<1> QED
  BY <1>1, AlwaysOneShotIInv, PTL

(* What Fetch guarantees holds inside main too, where an interrupt may end *)
(* its context at any moment: the input has the block's own requests, and  *)
(* BALErr tells whether it has the block's own BAL.                        *)
THEOREM FetchCorrectInMain == Spec => [](RequestsAreTheBlocks /\ BalErrIsRight)
BY AlwaysOneShotIInv, PTL DEF OneShotIInv, FetchIInv
===============================================================================
