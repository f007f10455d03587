--------------------------------- MODULE Live ---------------------------------
(***************************************************************************)
(* Live mode (src/main.go, main): the loop that takes a block number from  *)
(* the pool, fetches the block, runs every guest on it in a goroutine of   *)
(* its own and waits for all of them, until SIGINT. The goroutines publish *)
(* their results in the store and count them in the metrics.               *)
(*                                                                         *)
(* The pool is module Pool. Fetch is reduced to its outcome and to the one *)
(* thing that matters here, that it asks one node picked from the pool. The*)
(* store is the bounded log that RingBuffer implements.                    *)
(***************************************************************************)
EXTENDS Pool, FiniteSets

CONSTANTS Guests,    \* the GuestSpecs, with distinct names
          capacity,  \* how many results the store keeps
          Faulty     \* whether a node that has the block may fail to serve it

ASSUME LiveAssumption ==
  /\ capacity \in Nat \ {0}
  /\ Faulty \in BOOLEAN

VARIABLES pc,        \* where main is
          elNode,    \* the node Fetch picked
          guest,     \* guest[g]: where g's goroutine is
          ran,       \* ran[g]: what runner.Run returned
          buf,       \* the store's results, oldest first
          verified,  \* the counter vector BlockVerifiedTotal
          height     \* the gauge BlockHeight

mainVars == <<pc, elNode, guest, ran, buf, verified, height>>
vars     == <<poolVars, mainVars>>

Outcomes == {"ok", "fail", "error"}   \* the label `result' of the counter

(* A result as runner.Run returns it. With an error it returns a Result    *)
(* without block and guest.                                                *)
RunResult(g, o) ==
  IF o = "error" THEN [block |-> 0, guest |-> NoUrl, outcome |-> o]
                 ELSE [block |-> taken, guest |-> g, outcome |-> o]

Nothing == [block |-> 0, guest |-> NoUrl, outcome |-> "none"]

Init ==
  /\ PoolInit
  /\ pc = "startup"
  /\ elNode = NoUrl
  /\ guest = [g \in Guests |-> "none"]
  /\ ran = [g \in Guests |-> Nothing]
  /\ buf = << >>
  /\ verified = [g \in Guests |-> [o \in Outcomes |-> 0]]
  /\ height = 0

Running == pc \notin {"done", "fatal"}

-------------------------------------------------------------------------------
(* main                                                                    *)

(* pool.New returned: start Run, the HTTP server and the loop, or exit.    *)
Start ==
  /\ pc = "startup"
  /\ \/ phase = "running" /\ pc' = "select"
     \/ phase = "failed" /\ pc' = "fatal"
  /\ UNCHANGED <<poolVars, elNode, guest, ran, buf, verified, height>>

(* case blockNum := <-p.Heads                                              *)
TakeHead ==
  /\ pc = "select"
  /\ Receive
  /\ height' = Head(Heads)
  /\ pc' = "pick"
  /\ UNCHANGED <<elNode, guest, ran, buf, verified>>

FetchPicks ==
  /\ pc = "pick"
  /\ \E u \in Urls : Pick(u) /\ elNode' = u
  /\ pc' = "fetch"
  /\ UNCHANGED <<guest, ran, buf, verified, height>>

(* The block and its witness arrive; needs a live context, and a node that *)
(* has the block.                                                          *)
FetchGetsWitness ==
  /\ pc = "fetch"
  /\ ~cancelled
  /\ tip[elNode] >= taken
  /\ pc' = "extras"
  /\ UNCHANGED <<poolVars, elNode, guest, ran, buf, verified, height>>

FetchReturnsOneGuest ==
  /\ pc = "extras"
  /\ \E h \in Guests : guest' = [g \in Guests |-> IF g = h THEN "launched" ELSE "done"]
  /\ pc' = "guests"
  /\ UNCHANGED <<poolVars, elNode, ran, buf, verified, height>>

(* The BAL, which may be missing, and the requests; the input is encoded   *)
(* and every guest gets a goroutine.                                       *)
FetchReturns ==
  /\ pc = "extras"
  /\ guest' = [g \in Guests |-> "launched"]
  /\ pc' = "guests"
  /\ UNCHANGED <<poolVars, elNode, ran, buf, verified, height>>

FetchFailsOnlyCancelled ==
  /\ pc \in {"fetch", "extras"}
  /\ cancelled
  /\ pc' = "select"
  /\ UNCHANGED <<poolVars, elNode, guest, ran, buf, verified, height>>

(* Fetch returns an error and main goes on with the next head: the block is*)
(* not tried again.                                                        *)
FetchFails ==
  /\ \/ pc = "fetch" /\ (Faulty \/ cancelled \/ tip[elNode] < taken)
     \/ pc = "extras" /\ (Faulty \/ cancelled)
  /\ pc' = "select"
  /\ UNCHANGED <<poolVars, elNode, guest, ran, buf, verified, height>>

GuestsDoneEarly ==
  /\ pc = "guests"
  /\ \E g \in Guests : guest[g] = "done"
  /\ pc' = "select"
  /\ UNCHANGED <<poolVars, elNode, guest, ran, buf, verified, height>>

(* wg.Wait() returns.                                                      *)
GuestsDone ==
  /\ pc = "guests"
  /\ \A g \in Guests : guest[g] = "done"
  /\ pc' = "select"
  /\ UNCHANGED <<poolVars, elNode, guest, ran, buf, verified, height>>

(* case <-ctx.Done(): the server is shut down within five seconds and main *)
(* returns.                                                                *)
SeesDone ==
  /\ pc = "select"
  /\ cancelled
  /\ pc' = "shutdown"
  /\ UNCHANGED <<poolVars, elNode, guest, ran, buf, verified, height>>

Exit ==
  /\ pc = "shutdown"
  /\ pc' = "done"
  /\ UNCHANGED <<poolVars, elNode, guest, ran, buf, verified, height>>

(* ListenAndServe fails, say because the address is in use: log.Fatalf ends*)
(* the process from the server's goroutine, whatever main is doing.        *)
ServerFails ==
  /\ pc \notin {"startup", "done", "fatal"}
  /\ pc' = "fatal"
  /\ UNCHANGED <<poolVars, elNode, guest, ran, buf, verified, height>>

-------------------------------------------------------------------------------
(* A guest's goroutine                                                     *)

(* runner.Run starts the process unless ctx is already done.               *)
GuestStarts(g) ==
  /\ guest[g] = "launched"
  /\ ~cancelled
  /\ guest' = [guest EXCEPT ![g] = "running"]
  /\ UNCHANGED <<poolVars, pc, elNode, ran, buf, verified, height>>

RunReturnsUncounted(g, o) ==
  /\ \/ guest[g] = "running"
     \/ guest[g] = "launched" /\ o = "error"
  /\ ran' = [ran EXCEPT ![g] = RunResult(g, o)]
  /\ verified' = IF guest[g] = "running" THEN [verified EXCEPT ![g][o] = @ + 1] ELSE verified
  /\ guest' = [guest EXCEPT ![g] = "ran"]
  /\ UNCHANGED <<poolVars, pc, elNode, buf, height>>

RunReturnsOnlyIfStarted(g, o) ==
  /\ guest[g] = "running"
  /\ ran' = [ran EXCEPT ![g] = RunResult(g, o)]
  /\ verified' = [verified EXCEPT ![g][o] = @ + 1]
  /\ guest' = [guest EXCEPT ![g] = "ran"]
  /\ UNCHANGED <<poolVars, pc, elNode, buf, height>>

(* Run counts its outcome and returns: "ok" or "fail" by the validity byte *)
(* of the output, "error" if the process could not start, was killed (ctx  *)
(* done, five minutes over), exited nonzero or wrote too little.           *)
RunReturns(g, o) ==
  /\ \/ guest[g] = "running"
     \/ guest[g] = "launched" /\ o = "error"
  /\ ran' = [ran EXCEPT ![g] = RunResult(g, o)]
  /\ verified' = [verified EXCEPT ![g][o] = @ + 1]
  /\ guest' = [guest EXCEPT ![g] = "ran"]
  /\ UNCHANGED <<poolVars, pc, elNode, buf, height>>

(* The result as it is published: the goroutine fills in block and guest if*)
(* Run returned an error.                                                  *)
Labelled(g) ==
  IF ran[g].outcome = "error"
    THEN [ran[g] EXCEPT !.block = taken, !.guest = g]
    ELSE ran[g]

(* buf with res added, as BoundedLog says.                                 *)
Pushed(res) == Append(IF Len(buf) < capacity THEN buf ELSE Tail(buf), res)

(* buf.Add(result), then wg.Done().                                        *)
Publishes(g) ==
  /\ guest[g] = "ran"
  /\ buf' = Pushed(Labelled(g))
  /\ guest' = [guest EXCEPT ![g] = "done"]
  /\ ran' = [ran EXCEPT ![g] = Nothing]
  /\ UNCHANGED <<poolVars, pc, elNode, verified, height>>

-------------------------------------------------------------------------------

Main ==
  \/ Start \/ TakeHead
  \/ FetchPicks \/ FetchGetsWitness \/ FetchReturns \/ FetchFails
  \/ GuestsDone \/ SeesDone \/ Exit

(* Goroutines, the pool and its surroundings move while the process lives. *)
RunGuest(g) == Running /\ (GuestStarts(g) \/ \E o \in Outcomes : RunReturns(g, o))
Publish(g)  == Running /\ Publishes(g)
Probe(u)    == Running /\ (ProbeOK(u) \/ ProbeFail(u)) /\ UNCHANGED mainVars
Judge       == Running /\ (NewSucceeds \/ NewRetries \/ NewGivesUp) /\ UNCHANGED mainVars
PollHeads   == Running /\ pc # "startup" /\ Run /\ UNCHANGED mainVars
Outside     == Running /\ Environment /\ UNCHANGED mainVars

Next ==
  \/ Main
  \/ ServerFails
  \/ \E g \in Guests : RunGuest(g) \/ Publish(g)
  \/ \E u \in Urls : Probe(u)
  \/ Judge
  \/ PollHeads
  \/ Outside

(* Every wait of main is bounded: Fetch by 30 seconds, a guest by five     *)
(* minutes after which it is killed, Shutdown by five seconds. In its      *)
(* select a ready ctx.Done() competes with Heads, one of them chosen at    *)
(* random: strong fairness.                                                *)
Fairness ==
  /\ \A u \in Urls : WF_vars(Probe(u))
  /\ WF_vars(Judge)
  /\ WF_vars(Main)
  /\ SF_vars(SeesDone)
  /\ \A g \in Guests : WF_vars(RunGuest(g)) /\ WF_vars(Publish(g))

Spec == Init /\ [][Next]_vars

FairSpec == Spec /\ Fairness

-------------------------------------------------------------------------------
(* Properties                                                              *)

(* The results GET /results shows are in block order, and no guest has two *)
(* results for one block: neither a node that lags nor a restarted loop    *)
(* makes main verify a block again.                                        *)
ResultsOrdered ==
  \A i, j \in 1 .. Len(buf) : i < j =>
    /\ buf[i].block <= buf[j].block
    /\ buf[i].block = buf[j].block => buf[i].guest # buf[j].guest

(* No goroutine outlives the block it was started for: while main is not   *)
(* waiting for them there is none, and a result still to be published is of*)
(* the block main is at.                                                   *)
NoStragglers ==
  /\ pc \notin {"guests", "fatal"} => \A g \in Guests : guest[g] \in {"none", "done"}
  /\ \A g \in Guests : guest[g] = "ran" => Labelled(g).block = taken

(* Of every block but the oldest shown, whose results may be evicted one by*)
(* one, and the one in progress, all guests' results are shown.            *)
BlocksComplete ==
  \A i \in 1 .. Len(buf) :
    LET b == buf[i].block IN
      b # buf[1].block /\ ~(pc \in {"guests", "fatal"} /\ b = taken) =>
        \A g \in Guests : \E j \in 1 .. Len(buf) : buf[j].block = b /\ buf[j].guest = g

(* The results of g with outcome o that the store has.                     *)
Shown(g, o) == {i \in 1 .. Len(buf) : buf[i].guest = g /\ buf[i].outcome = o}

(* As long as nothing was evicted, the counters and the store tell the same*)
(* story: each counter is the number of results with its label, and one    *)
(* more between the moment Run counts a result and the moment it is added. *)
MetricsMatchResults ==
  Len(buf) < capacity =>
    \A g \in Guests, o \in Outcomes :
      verified[g][o] = Cardinality(Shown(g, o)) + IF guest[g] = "ran" /\ ran[g].outcome = o THEN 1 ELSE 0

Rows == [block : Heights, guest : Guests, outcome : Outcomes]

LiveTypes ==
  /\ guest \in [Guests -> {"none", "launched", "running", "ran", "done"}]
  /\ buf \in Seq(Rows)
  /\ Len(buf) <= capacity
  /\ verified \in [Guests -> [Outcomes -> Nat]]
  /\ DOMAIN ran = Guests

(* How the results relate to the block main is at: those of guests that    *)
(* have still to publish are of that block; the store has nothing newer,   *)
(* nothing of that block before its guests start, and then only results of *)
(* guests that are done. Those it has, unless it only has that block's.    *)
GuestsKnow ==
  /\ \A g \in Guests : guest[g] = "ran" => \E o \in Outcomes : ran[g] = RunResult(g, o)
  /\ \A i \in 1 .. Len(buf) : buf[i].block <= taken
  /\ pc \in {"pick", "fetch", "extras"} => \A i \in 1 .. Len(buf) : buf[i].block # taken
  /\ pc = "guests" =>
       /\ \A i \in 1 .. Len(buf) : buf[i].block = taken => guest[buf[i].guest] = "done"
       /\ \A g \in Guests : guest[g] = "done" =>
            \/ buf # << >> /\ buf[1].block = taken
            \/ \E j \in 1 .. Len(buf) : buf[j].block = taken /\ buf[j].guest = g

(* The inductive invariant of live mode.                                   *)
LiveIInv ==
  /\ PoolIInv /\ LiveTypes /\ GuestsKnow
  /\ NoStragglers /\ ResultsOrdered /\ BlocksComplete /\ MetricsMatchResults

(* After SIGINT or SIGTERM the process ends, whatever main was waiting for *)
(* and however many heads are queued.                                      *)
ShutsDown == cancelled ~> ~Running

(* A head in the channel is taken, or the process ends: no block can hold  *)
(* up the loop for ever.                                                   *)
HeadsAreTaken == \A h \in 1 .. MaxHeight :
  (\E i \in 1 .. Len(Heads) : Heads[i] = h) ~> (taken >= h \/ ~Running)
===============================================================================
