-------------------------------- MODULE Fetch ---------------------------------
(***************************************************************************)
(* pipeline.Fetch (src/pipeline/pipeline.go): a sequence of JSON-RPC calls *)
(* to one EL node, and one to the engine API, that collects a block, its   *)
(* witness, its block access list (BAL) and its execution requests, and    *)
(* encodes them into the guest's input.                                    *)
(*                                                                         *)
(* All calls but the engine's name the block by its number, so the chain   *)
(* may be reorganised between two of them. Each call may fail, answer null *)
(* or garbage, and the context may be done before any of them.             *)
(***************************************************************************)
EXTENDS Naturals

CONSTANTS Blocks,      \* the blocks that may be canonical at the number
          NoBal,       \* no BlockAccessListHash in the header
          BalOf,       \* BalOf[b]: the BAL b's header commits to, or NoBal
          RequestsOf,  \* RequestsOf[b]: the requests b's header commits to
          EngineConfigured   \* ENGINE_RPC_URL and JWT_SECRET_FILE are set

(* The BALs blocks commit to. A block may commit to the empty list, which  *)
(* is also what fetchBAL makes of null and of JSON without the expected    *)
(* fields. OtherBal is a list no block commits to: fetchBAL takes a value  *)
(* that does not parse for zero and goes on.                               *)
Bals     == {BalOf[b] : b \in Blocks} \ {NoBal}
EmptyBal == "empty list"
OtherBal == "other list"

(* A []byte meant to be a BAL: whether it is nil, its length as far as the *)
(* code asks for it, and the list whose RLP encoding it is. RLP rejects any*)
(* second encoding of a list, so there is one Rlp(x). From "0x" comes a    *)
(* slice of no bytes that is not nil, from a cut-off answer bytes that     *)
(* encode no list.                                                         *)
NotAList == "not a list"
Nil      == [nil |-> TRUE,  len |-> 0, list |-> NotAList]
NoBytes  == [nil |-> FALSE, len |-> 0, list |-> NotAList]
Garbage  == [nil |-> FALSE, len |-> 1, list |-> NotAList]
Rlp(x)   == [nil |-> FALSE, len |-> 1, list |-> x]

BalBytes == {Nil, NoBytes, Garbage} \cup {Rlp(x) : x \in Bals \cup {EmptyBal, OtherBal}}

(* No block, and the witness decoded from a null answer.                   *)
None == "none"

(* Execution requests are sequences of records with the type of each. No   *)
(* requests: RequestsHash is nil or that of the empty list.                *)
NoRequests == <<>>
Requests   == {RequestsOf[b] : b \in Blocks}

ASSUME FetchAssumption ==
  /\ EngineConfigured \in BOOLEAN
  /\ None \notin Blocks
  /\ {NotAList, OtherBal} \cap Bals = {}
  /\ \A b \in Blocks : /\ DOMAIN RequestsOf[b] \subseteq Nat
                       /\ \A i \in DOMAIN RequestsOf[b] : RequestsOf[b][i].type \in 0 .. 255

VARIABLES at,          \* the call Fetch is about to make, or "returned"
          canon,       \* environment: the canonical block at the number
          ctxDone,     \* fetchCtx is done: timed out or cancelled
          block,       \* the decoded block
          witness,     \* the block whose witness was decoded
          balBytes,    \* balBytes
          balErr,      \* meta.BALErr # nil
          requests,    \* the requests that passed the hash check
          shortItem,   \* one of them has fewer than two bytes
          err          \* Fetch returned an error

fetchVars == <<at, canon, ctxDone, block, witness, balBytes,
               balErr, requests, shortItem, err>>

FetchInit ==
  /\ at = "block"
  /\ canon \in Blocks
  /\ ctxDone = FALSE
  /\ block = None
  /\ witness = None
  /\ balBytes = Nil
  /\ balErr = FALSE
  /\ requests = NoRequests
  /\ shortItem = FALSE
  /\ err = FALSE

-------------------------------------------------------------------------------
(* The calls, in the order Fetch makes them                                *)

(* An error return. Any call may fail; all fail once the context is done.  *)
Fails(stage) ==
  /\ at = stage
  /\ at' = "returned"
  /\ err' = TRUE
  /\ UNCHANGED <<canon, ctxDone, block, witness, balBytes,
                 balErr, requests, shortItem>>

(* debug_getRawBlock by number. A null answer does not decode: Fails.      *)
GetBlock ==
  /\ at = "block"
  /\ ~ctxDone
  /\ block' = canon
  /\ at' = "witness"
  /\ UNCHANGED <<canon, ctxDone, witness, balBytes, balErr,
                 requests, shortItem, err>>

(* What the decoders of headers, state and codes make of an answer: the    *)
(* witness of the block that is canonical now, or nothing from null.       *)
WitnessAnswers == {canon, None}

(* debug_executionWitness by number. The engine is asked next if it is     *)
(* configured.                                                             *)
GetWitness ==
  /\ at = "witness"
  /\ ~ctxDone
  /\ witness' \in WitnessAnswers
  /\ at' = IF EngineConfigured THEN "engine" ELSE "fallback"
  /\ UNCHANGED <<canon, ctxDone, block, balBytes, balErr,
                 requests, shortItem, err>>

(* verifyBALHash returns an error: the header has a hash, and the bytes do *)
(* not decode or decode to a list of another hash.                         *)
verifyBALHash(bytes) ==
  /\ BalOf[block] # NoBal
  /\ bytes.list = NotAList \/ bytes.list # BalOf[block]

BalErrorIfFetched(bytes) == bytes.len > 0 /\ verifyBALHash(bytes)

(* What Fetch makes of the bytes it ended up with: it checks them if there *)
(* are any, and needs none only for a header without a hash.               *)
BalError(bytes) ==
  IF bytes.len > 0 THEN verifyBALHash(bytes) ELSE BalOf[block] # NoBal

AfterBal == IF RequestsOf[block] = NoRequests THEN "encode" ELSE "requests"

(* engine_getPayloadBodiesByHashV2 by the hash of the block. Fetch looks at*)
(* the bytes alone and overwrites the error. They are nil when the engine  *)
(* does not know the block or the call fails; hex that does not decode     *)
(* gives an error and the bytes before the bad digit, never nil.           *)
GetBALFromEngine(bytes) ==
  /\ at = "engine"
  /\ ctxDone => bytes = Nil
  /\ balBytes' = bytes
  /\ IF bytes.nil
       THEN at' = "fallback" /\ UNCHANGED balErr
       ELSE at' = AfterBal /\ balErr' = BalError(bytes)
  /\ UNCHANGED <<canon, ctxDone, block, witness, requests, shortItem, err>>

(* The lists fetchBAL can end up with: the one of the block that is        *)
(* canonical now, or what it makes of an answer that is null or has values *)
(* it cannot parse.                                                        *)
ListsByNumber == {EmptyBal, OtherBal} \cup ({BalOf[canon]} \ {NoBal})

GetBALOfAnyBlock(bytes) ==
  /\ at = "fallback"
  /\ ctxDone => bytes = Nil
  /\ balBytes' = IF bytes.nil THEN Nil ELSE Rlp(BalOf[canon])
  /\ balErr' = BalError(balBytes')
  /\ at' = AfterBal
  /\ UNCHANGED <<canon, ctxDone, block, witness, requests, shortItem, err>>

(* eth_getBlockAccessList by number, re-encoded. An error leaves the bytes *)
(* nil and does not stop Fetch.                                            *)
GetBAL(bytes) ==
  /\ at = "fallback"
  /\ bytes \in {Nil} \cup {Rlp(x) : x \in ListsByNumber}
  /\ ctxDone => bytes = Nil
  /\ balBytes' = bytes
  /\ balErr' = BalError(bytes)
  /\ at' = AfterBal
  /\ UNCHANGED <<canon, ctxDone, block, witness, requests, shortItem, err>>

GetRequestsUnchecked(r, short) ==
  /\ at = "requests"
  /\ ~ctxDone
  /\ requests' = r
  /\ shortItem' = short
  /\ at' = "encode"
  /\ UNCHANGED <<canon, ctxDone, block, witness, balBytes, balErr, err>>

(* debug_getRawExecutionRequests by number, only if the header commits to  *)
(* any. Fetch goes on only with a list whose hash the header has; the hash *)
(* does not cover items of less than two bytes. Any other list: Fails.     *)
GetRequests(r, short) ==
  /\ at = "requests"
  /\ ~ctxDone
  /\ r = RequestsOf[block]
  /\ requests' = r
  /\ shortItem' = short
  /\ at' = "encode"
  /\ UNCHANGED <<canon, ctxDone, block, witness, balBytes, balErr, err>>

(* encodeSszExecutionRequests accepts the requests: no item of less than   *)
(* two bytes, and types in range and strictly ascending, for each type has *)
(* one list.                                                               *)
executionRequestTypes == 5

RequestsEncode ==
  /\ ~shortItem
  /\ \A i \in DOMAIN requests :
       /\ requests[i].type < executionRequestTypes
       /\ \A j \in DOMAIN requests : j < i => requests[j].type < requests[i].type

(* ZesuInputSSZFromBlock. It also fails for a transaction that does not    *)
(* marshal, of which the model knows nothing.                              *)
Encode ==
  /\ at = "encode"
  /\ at' = "returned"
  /\ err' \in IF RequestsEncode THEN BOOLEAN ELSE {TRUE}
  /\ UNCHANGED <<canon, ctxDone, block, witness, balBytes,
                 balErr, requests, shortItem>>

-------------------------------------------------------------------------------
(* The environment                                                         *)

Reorg(b) ==
  /\ b # canon
  /\ canon' = b
  /\ UNCHANGED <<at, ctxDone, block, witness, balBytes, balErr,
                 requests, shortItem, err>>

(* 30 seconds are over, or SIGINT.                                         *)
CtxEnds ==
  /\ ~ctxDone
  /\ ctxDone' = TRUE
  /\ UNCHANGED <<at, canon, block, witness, balBytes, balErr,
                 requests, shortItem, err>>

FetchStep ==
  \/ \E stage \in {"block", "witness", "requests"} : Fails(stage)
  \/ GetBlock
  \/ GetWitness
  \/ \E bytes \in BalBytes : GetBALFromEngine(bytes)
  \/ \E bytes \in BalBytes : GetBAL(bytes)
  \/ \E r \in Requests, short \in BOOLEAN : GetRequests(r, short)
  \/ Encode

World == at # "returned" /\ (CtxEnds \/ \E b \in Blocks : Reorg(b))

FetchNext == FetchStep \/ World

(* Every call ends, at the latest when fetchCtx does.                      *)
FetchSpec == FetchInit /\ [][FetchNext]_fetchVars /\ WF_fetchVars(FetchStep)

-------------------------------------------------------------------------------
(* Properties                                                              *)

Returned == at = "returned" /\ ~err

(* Every variable of Fetch stays in its range.                             *)
FetchTypeOK ==
  /\ at \in {"block", "witness", "engine", "fallback", "requests", "encode", "returned"}
  /\ canon \in Blocks
  /\ block \in Blocks \cup {None}
  /\ witness \in Blocks \cup {None}
  /\ balBytes \in BalBytes
  /\ requests \in Requests \cup {NoRequests}
  /\ {ctxDone, balErr, shortItem, err} \subseteq BOOLEAN

(* An input Fetch returns carries exactly the requests the block's own     *)
(* header commits to, although they are asked for by number after the chain*)
(* may have been reorganised, and no two of them share the one list the    *)
(* input has for their type.                                               *)
RequestsAreTheBlocks ==
  Returned =>
    /\ requests = RequestsOf[block] /\ ~shortItem
    /\ \A i, j \in DOMAIN requests : requests[i].type = requests[j].type => i = j

(* BALErr is nil exactly if the input carries the encoding of the list the *)
(* header commits to or the header commits to none. That holds whichever   *)
(* source the bytes came from, if they came from none, and for a header    *)
(* that commits to the empty list: a caller that checks BALErr never uses  *)
(* the BAL of a reorganised block.                                         *)
BalErrIsRight ==
  Returned => (balErr <=> (BalOf[block] # NoBal /\ balBytes # Rlp(BalOf[block])))

(* What Fetch knows on its way: the block once it is decoded, the verdict  *)
(* on the BAL once there is one, and the requests once they are checked or *)
(* known to be none.                                                       *)
FetchKnows ==
  /\ at \notin {"block", "returned"} => block \in Blocks
  /\ at # "returned" => ~err
  /\ at \in {"block", "witness", "engine", "fallback", "requests"} =>
       requests = NoRequests /\ ~shortItem
  /\ at \in {"requests", "encode"} => 
       (balErr <=> (BalOf[block] # NoBal /\ balBytes # Rlp(BalOf[block])))
  /\ at = "encode" => requests = RequestsOf[block]

(* The inductive invariant of Fetch.                                       *)
FetchIInv == FetchTypeOK /\ FetchKnows /\ RequestsAreTheBlocks /\ BalErrIsRight

(* "fetches a block and its execution witness from an EL node"             *)
(* (pipeline.go:1): a witness that is not empty is the block's. Nothing in *)
(* Fetch ties the two calls together, so a reorganisation between them goes*)
(* unnoticed.                                                              *)
WitnessIsTheBlocks == Returned /\ witness # None => witness = block
===============================================================================
