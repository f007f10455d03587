--------------------------------- MODULE Pool ---------------------------------
(***************************************************************************)
(* pool.Pool (src/pool/pool.go): the EL nodes that answered the startup    *)
(* probe, the goroutine that polls them for their head, and the bounded    *)
(* channel Heads through which the main loop learns of new block numbers.  *)
(*                                                                         *)
(* Three parties interleave: New's probe goroutines (one per URL), the     *)
(* polling goroutine Run, and the consumer, which receives from Heads and  *)
(* calls Pick. The last two share the counter robin. The nodes' own heads  *)
(* are the environment.                                                    *)
(***************************************************************************)
EXTENDS Naturals, Sequences

CONSTANTS Urls,           \* EL_RPC_URLS, every entry an element of its own
          MaxHeight,      \* bound: block numbers are 0 .. MaxHeight
          HeadsCap,       \* capacity of the channel Heads (32 in the code)
          ProbeRetryMax,  \* probe attempts before New gives up (60)
          RobinRange      \* robin counts modulo this (2^64)

ASSUME PoolAssumption ==
  /\ Urls # {}
  /\ MaxHeight \in Nat
  /\ HeadsCap \in Nat \ {0}
  /\ ProbeRetryMax \in Nat \ {0}
  /\ RobinRange \in Nat \ {0}

VARIABLES phase,      \* New: "probing" | "judging" | "running" | "failed"
          attempt,    \* New's loop variable
          pending,    \* the URLs whose probe goroutine has not called wg.Done
          healthy,    \* the URLs that answered, in the order they did
          nodes,      \* p.nodes
          robin,      \* p.robin, the number of calls of next so far
          poller,     \* Run: "waiting" in select | "asking" a node | "stopped"
          asked,      \* the URL poll asks, or asked last
          seen,       \* p.seen, the highest block number any poll returned
          Heads,      \* the channel's contents
          dropped,    \* the last number poll could not put into Heads
          taken,      \* the consumer's blockNum: the last number received
          tip,        \* environment: tip[u] is what eth_blockNumber answers
          cancelled   \* ctx.Done() is closed

newVars  == <<phase, attempt, pending, healthy, nodes>>
pollVars == <<poller, asked, seen, Heads, dropped, taken>>
poolVars == <<newVars, robin, pollVars, tip, cancelled>>

Heights == 0 .. MaxHeight

(* No node: the zero string.                                               *)
NoUrl == ""

PoolInit ==
  /\ phase = "probing"
  /\ attempt = 1
  /\ pending = Urls
  /\ healthy = << >>
  /\ nodes = << >>
  /\ robin = 0
  /\ poller = "waiting"
  /\ asked = NoUrl
  /\ seen = 0
  /\ Heads = << >>
  /\ dropped = 0
  /\ taken = 0
  /\ tip \in [Urls -> Heights]
  /\ cancelled = FALSE

-------------------------------------------------------------------------------
(* New                                                                     *)

(* u answers eth_blockNumber and debug_executionWitness in time; its       *)
(* goroutine appends it to healthy under mu. The last wg.Done ends wg.Wait.*)
ProbeOK(u) ==
  /\ phase = "probing"
  /\ u \in pending
  /\ pending' = pending \ {u}
  /\ healthy' = Append(healthy, u)
  /\ phase' = IF pending' = {} THEN "judging" ELSE "probing"
  /\ UNCHANGED <<attempt, nodes, robin, pollVars, tip, cancelled>>

(* u is down, too slow, or does not know debug_executionWitness.           *)
ProbeFail(u) ==
  /\ phase = "probing"
  /\ u \in pending
  /\ pending' = pending \ {u}
  /\ phase' = IF pending' = {} THEN "judging" ELSE "probing"
  /\ UNCHANGED <<attempt, healthy, nodes, robin, pollVars, tip, cancelled>>

NewSucceedsUnchecked ==
  /\ phase = "judging"
  /\ nodes' = healthy
  /\ phase' = "running"
  /\ UNCHANGED <<attempt, pending, healthy, robin, pollVars, tip, cancelled>>

(* wg.Wait returned: keep the healthy nodes if there are any.              *)
NewSucceeds ==
  /\ phase = "judging"
  /\ healthy # << >>
  /\ nodes' = healthy
  /\ phase' = "running"
  /\ UNCHANGED <<attempt, pending, healthy, robin, pollVars, tip, cancelled>>

NewRetriesForever ==
  /\ phase = "judging"
  /\ healthy = << >>
  /\ pending' = Urls
  /\ phase' = "probing"
  /\ UNCHANGED <<attempt, healthy, nodes, robin, pollVars, tip, cancelled>>

NewRetriesOnceMore ==
  /\ phase = "judging"
  /\ healthy = << >>
  /\ attempt <= ProbeRetryMax
  /\ attempt' = attempt + 1
  /\ pending' = Urls
  /\ phase' = "probing"
  /\ UNCHANGED <<healthy, nodes, robin, pollVars, tip, cancelled>>

(* After probeRetryWait every URL is probed again.                         *)
NewRetries ==
  /\ phase = "judging"
  /\ healthy = << >>
  /\ attempt < ProbeRetryMax
  /\ attempt' = attempt + 1
  /\ pending' = Urls
  /\ phase' = "probing"
  /\ UNCHANGED <<healthy, nodes, robin, pollVars, tip, cancelled>>

NewGivesUp ==
  /\ phase = "judging"
  /\ healthy = << >>
  /\ attempt = ProbeRetryMax
  /\ phase' = "failed"
  /\ UNCHANGED <<attempt, pending, healthy, nodes, robin, pollVars, tip, cancelled>>

New ==
  \/ \E u \in Urls : ProbeOK(u) \/ ProbeFail(u)
  \/ NewSucceeds
  \/ NewRetries
  \/ NewGivesUp

-------------------------------------------------------------------------------
(* next and its two callers                                                *)

(* The node next returns: p.nodes[idx % len(p.nodes)].                     *)
NextNode == nodes[(robin % Len(nodes)) + 1]

(* p.robin.Add(1), a uint64.                                               *)
AdvanceRobin == robin' = (robin + 1) % RobinRange

(* A tick of Run's select: poll takes the next node and sends the request. *)
PollStarts ==
  /\ phase = "running"
  /\ poller = "waiting"
  /\ poller' = "asking"
  /\ asked' = NextNode
  /\ AdvanceRobin
  /\ UNCHANGED <<newVars, seen, Heads, dropped, taken, tip, cancelled>>

(* The consumer calls Pick and gets node u.                                *)
Pick(u) ==
  /\ phase = "running"
  /\ u = NextNode
  /\ AdvanceRobin
  /\ UNCHANGED <<newVars, pollVars, tip, cancelled>>

-------------------------------------------------------------------------------
(* Run and poll                                                            *)

PollAnsweredNotOlder ==
  LET num == tip[asked] IN
    /\ poller = "asking"
    /\ poller' = "waiting"
    /\ IF num >= seen
         THEN /\ seen' = num
              /\ IF Len(Heads) < HeadsCap
                   THEN Heads' = Append(Heads, num) /\ UNCHANGED dropped
                   ELSE dropped' = num /\ UNCHANGED Heads
         ELSE UNCHANGED <<seen, Heads, dropped>>
    /\ UNCHANGED <<newVars, robin, asked, taken, tip, cancelled>>

PollAnsweredOnlyIfIdle ==
  LET num == tip[asked] IN
    /\ poller = "asking"
    /\ poller' = "waiting"
    /\ IF num > seen
         THEN /\ seen' = num
              /\ Heads' = IF Heads = << >> THEN <<num>> ELSE Heads
         ELSE UNCHANGED <<seen, Heads>>
    /\ UNCHANGED <<newVars, robin, asked, dropped, taken, tip, cancelled>>

(* The node answers. A number above seen goes into Heads if there is room: *)
(* the send does not wait, and a number that finds the channel full is     *)
(* dropped although seen has been raised to it.                            *)
PollAnswered ==
  LET num == tip[asked] IN
    /\ poller = "asking"
    /\ poller' = "waiting"
    /\ IF num > seen
         THEN /\ seen' = num
              /\ IF Len(Heads) < HeadsCap
                   THEN Heads' = Append(Heads, num) /\ UNCHANGED dropped
                   ELSE dropped' = num /\ UNCHANGED Heads
         ELSE UNCHANGED <<seen, Heads, dropped>>
    /\ UNCHANGED <<newVars, robin, asked, taken, tip, cancelled>>

(* The request fails, times out (rpcTimeout) or its answer does not parse. *)
PollFails ==
  /\ poller = "asking"
  /\ poller' = "waiting"
  /\ UNCHANGED <<newVars, robin, asked, seen, Heads, dropped, taken, tip, cancelled>>

(* Run's select sees ctx.Done().                                           *)
PollerStops ==
  /\ phase = "running"
  /\ poller = "waiting"
  /\ cancelled
  /\ poller' = "stopped"
  /\ UNCHANGED <<newVars, robin, asked, seen, Heads, dropped, taken, tip, cancelled>>

Run == PollStarts \/ PollAnswered \/ PollFails \/ PollerStops

(* The consumer receives the oldest queued number.                         *)
Receive ==
  /\ Heads # << >>
  /\ taken' = Head(Heads)
  /\ Heads' = Tail(Heads)
  /\ UNCHANGED <<newVars, robin, poller, asked, seen, dropped, tip, cancelled>>

-------------------------------------------------------------------------------
(* The environment                                                         *)

(* A node imports or unwinds blocks.                                       *)
TipMoves(u, h) ==
  /\ h # tip[u]
  /\ tip' = [tip EXCEPT ![u] = h]
  /\ UNCHANGED <<newVars, robin, pollVars, cancelled>>

(* SIGINT or SIGTERM.                                                      *)
Cancel ==
  /\ ~cancelled
  /\ cancelled' = TRUE
  /\ UNCHANGED <<newVars, robin, pollVars, tip>>

Environment == Cancel \/ \E u \in Urls, h \in Heights : TipMoves(u, h)

-------------------------------------------------------------------------------
(* The pool on its own, with a consumer that may receive and Pick at any   *)
(* time.                                                                   *)

PoolNext ==
  \/ New
  \/ Run
  \/ Receive
  \/ \E u \in Urls : Pick(u)
  \/ Environment

(* Probes and requests end because both have timeouts. A ready ctx.Done()  *)
(* competes with the ticker in Run's select, which chooses at random among *)
(* the ready cases: strong fairness.                                       *)
PoolFairness ==
  /\ \A u \in Urls : WF_poolVars(ProbeOK(u) \/ ProbeFail(u))
  /\ WF_poolVars(NewSucceeds \/ NewRetries \/ NewGivesUp)
  /\ WF_poolVars(PollAnswered \/ PollFails)
  /\ SF_poolVars(PollerStops)

PoolSpec == PoolInit /\ [][PoolNext]_poolVars /\ PoolFairness

-------------------------------------------------------------------------------
(* Properties                                                              *)

(* Every variable of the pool stays in its range; in particular robin is a *)
(* counter that wraps, and Heads never holds more than the channel can.    *)
PoolTypeOK ==
  /\ phase \in {"probing", "judging", "running", "failed"}
  /\ attempt \in 1 .. ProbeRetryMax
  /\ pending \subseteq Urls
  /\ healthy \in Seq(Urls)
  /\ nodes \in Seq(Urls)
  /\ robin \in 0 .. RobinRange - 1
  /\ poller \in {"waiting", "asking", "stopped"}
  /\ asked \in Urls \cup {NoUrl}
  /\ seen \in Heights
  /\ Heads \in Seq(Heights) /\ Len(Heads) <= HeadsCap
  /\ dropped \in Heights
  /\ taken \in Heights
  /\ tip \in [Urls -> Heights]
  /\ cancelled \in BOOLEAN

(* The numbers waiting in Heads strictly increase, lie above the one the   *)
(* consumer took last and never exceed seen: however nodes lag, unwind or  *)
(* fail, the consumer is never handed a block number twice or out of order.*)
HeadsOrdered ==
  /\ \A i, j \in 1 .. Len(Heads) : i < j => Heads[i] < Heads[j]
  /\ \A i \in 1 .. Len(Heads) : taken < Heads[i] /\ Heads[i] <= seen
  /\ taken <= seen

(* The newest number poll has seen is the newest in Heads, or the one the  *)
(* consumer took last, or it was dropped because Heads was full. There is  *)
(* no other way to lose a head.                                            *)
NewestAccountedFor ==
  \/ seen = dropped
  \/ Heads # << >> /\ seen = Heads[Len(Heads)]
  \/ Heads = << >> /\ seen = taken

(* Once New has returned there is at least one node, and no entry of       *)
(* EL_RPC_URLS is in nodes twice: next never divides by zero and Pick never*)
(* answers with the empty string that Fetch and poll guard against. A node *)
(* that is asked is one of them.                                           *)
NodesUsable ==
  phase = "running" =>
    /\ nodes # << >>
    /\ \A i, j \in 1 .. Len(nodes) : nodes[i] = nodes[j] => i = j
    /\ poller = "asking" => \E i \in 1 .. Len(nodes) : nodes[i] = asked

(* What New has found and what poll has asked: every healthy node was found*)
(* once and is not being probed any more, and they are the nodes of the    *)
(* pool once it runs; nobody polls before that.                            *)
NewKeeps ==
  /\ \A i, j \in 1 .. Len(healthy) : healthy[i] = healthy[j] => i = j
  /\ \A i \in 1 .. Len(healthy) : healthy[i] \notin pending
  /\ phase = "running" => nodes = healthy /\ healthy # << >>
  /\ phase # "running" => poller = "waiting"
  /\ poller = "asking" => \E i \in 1 .. Len(nodes) : nodes[i] = asked

(* The inductive invariant of the pool.                                    *)
PoolIInv == PoolTypeOK /\ HeadsOrdered /\ NewestAccountedFor /\ NewKeeps

(* Nothing in the pool goes on for ever: New returns, with nodes or with an*)
(* error after probeRetryMax attempts, and Run ends after ctx is cancelled,*)
(* though select may prefer the ticker.                                    *)
PoolEnds ==
  /\ <>(phase \in {"running", "failed"})
  /\ (cancelled /\ phase = "running") ~> (poller = "stopped")
===============================================================================
