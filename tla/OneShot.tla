------------------------------- MODULE OneShot --------------------------------
(***************************************************************************)
(* One-shot mode (src/main.go): main's checks of its environment, then with*)
(* BLOCK_NUMBER either runBlock, which fetches one block and runs every    *)
(* guest on it, or with DUMP_DIR too dumpBlock, which fetches it and writes*)
(* the input to a file. The exit code is the verdict; scripts rely on it.  *)
(***************************************************************************)
EXTENDS Fetch, FiniteSets

CONSTANTS Guests     \* the guests GUEST_BINARIES names, if it is well formed

(* What the environment variables hold.                                    *)
Configs == [urls    : BOOLEAN,                      \* EL_RPC_URLS names a node
            genesis : {"unset", "good", "bad"},     \* GENESIS_FILE
            guests  : {"empty", "good", "bad"},     \* GUEST_BINARIES
            block   : {"unset", "good", "bad"},     \* BLOCK_NUMBER
            dump    : BOOLEAN]                      \* DUMP_DIR is set

VARIABLES config,       \* the environment variables
          stage,        \* how far main has come
          exit,         \* the exit code, once stage is "exited"
          interrupted,  \* SIGINT or SIGTERM: ctx is done
          guest,        \* guest[g]: "none" | "launched" | "running" | an outcome
          exitCode,     \* runBlock's exitCode
          file          \* DUMP_DIR/<block>.bin

mainVars == <<config, stage, exit, interrupted, guest, exitCode, file>>
vars     == <<fetchVars, mainVars>>

Init ==
  /\ FetchInit
  /\ config \in Configs
  /\ stage = "environment"
  /\ exit = 0
  /\ interrupted = FALSE
  /\ guest = [g \in Guests |-> "none"]
  /\ exitCode = 0
  /\ file \in {"absent", "earlier"}

(* os.Exit(code), or log.Fatal with code 1.                                *)
Exits(code) == stage' = "exited" /\ exit' = code

-------------------------------------------------------------------------------
(* main before the mode is known                                           *)

(* splitEnv finds no URL in EL_RPC_URLS.                                   *)
NoUrls == ~config.urls

(* ParseGuestSpecs rejects GUEST_BINARIES, an empty one too.               *)
GuestsRejected == config.guests # "good"

(* ParseGenesisFile fails: the file is unreadable, does not parse or has no*)
(* activation time of a known fork. Without GENESIS_FILE the configuration *)
(* of mainnet is taken.                                                    *)
GenesisRejected == config.genesis = "bad"

ConfigRejected == NoUrls \/ GenesisRejected \/ GuestsRejected

CheckEnvironment ==
  /\ stage = "environment"
  /\ IF ConfigRejected THEN Exits(1) ELSE stage' = "pool" /\ UNCHANGED exit
  /\ UNCHANGED <<fetchVars, config, interrupted, guest, exitCode, file>>

(* pool.New returns, with nodes or with an error.                          *)
InitPool ==
  /\ stage = "pool"
  /\ \/ Exits(1)
     \/ stage' = "mode" /\ UNCHANGED exit
  /\ UNCHANGED <<fetchVars, config, interrupted, guest, exitCode, file>>

ChooseMode ==
  /\ stage = "mode"
  /\ \/ config.block = "bad" /\ Exits(1)
     \/ config.block = "good" /\ stage' = "fetch" /\ UNCHANGED exit
     \/ config.block = "unset" /\ config.dump /\ Exits(1)
     \/ config.block = "unset" /\ ~config.dump /\ stage' = "live" /\ UNCHANGED exit
  /\ UNCHANGED <<fetchVars, config, interrupted, guest, exitCode, file>>

-------------------------------------------------------------------------------
(* runBlock and dumpBlock                                                  *)

FetchGoesOn ==
  /\ stage = "fetch"
  /\ FetchStep
  /\ UNCHANGED mainVars

FetchFailed ==
  /\ stage = "fetch"
  /\ at = "returned" /\ err
  /\ Exits(1)
  /\ UNCHANGED <<fetchVars, config, interrupted, guest, exitCode, file>>

LaunchGuests ==
  /\ stage = "fetch" /\ Returned
  /\ ~config.dump
  /\ stage' = "guests"
  /\ guest' = [g \in Guests |-> "launched"]
  /\ UNCHANGED <<fetchVars, config, exit, interrupted, exitCode, file>>

GuestStarts(g) ==
  /\ stage = "guests"
  /\ guest[g] = "launched"
  /\ ~interrupted
  /\ guest' = [guest EXCEPT ![g] = "running"]
  /\ UNCHANGED <<fetchVars, config, stage, exit, interrupted, exitCode, file>>

GuestEndsOverwriting(g, o) ==
  /\ stage = "guests"
  /\ guest[g] = "running" \/ (guest[g] = "launched" /\ o = "error")
  /\ guest' = [guest EXCEPT ![g] = o]
  /\ exitCode' = IF o = "ok" THEN 0 ELSE 1
  /\ UNCHANGED <<fetchVars, config, stage, exit, interrupted, file>>

GuestEndsOnlyIfStarted(g, o) ==
  /\ stage = "guests"
  /\ guest[g] = "running"
  /\ guest' = [guest EXCEPT ![g] = o]
  /\ exitCode' = IF o = "ok" THEN exitCode ELSE 1
  /\ UNCHANGED <<fetchVars, config, stage, exit, interrupted, file>>

(* runner.Run returns and the goroutine sets exitCode unless the block is  *)
(* valid. The goroutines write it without a lock, but they all write 1.    *)
GuestEnds(g, o) ==
  /\ stage = "guests"
  /\ guest[g] = "running" \/ (guest[g] = "launched" /\ o = "error")
  /\ guest' = [guest EXCEPT ![g] = o]
  /\ exitCode' = IF o = "ok" THEN exitCode ELSE 1
  /\ UNCHANGED <<fetchVars, config, stage, exit, interrupted, file>>

GuestsDone ==
  /\ stage = "guests"
  /\ \A g \in Guests : guest[g] \in {"ok", "fail", "error"}
  /\ Exits(exitCode)
  /\ UNCHANGED <<fetchVars, config, interrupted, guest, exitCode, file>>

(* An input without the BAL the header commits to is not dumped.           *)
DumpRefused ==
  /\ stage = "fetch" /\ Returned
  /\ config.dump
  /\ balErr
  /\ Exits(1)
  /\ UNCHANGED <<fetchVars, config, interrupted, guest, exitCode, file>>

(* MkdirAll, and WriteFile's open, which truncates what an earlier dump    *)
(* left. Either may fail.                                                  *)
DumpOpens ==
  /\ stage = "fetch" /\ Returned
  /\ config.dump
  /\ ~balErr
  /\ \/ Exits(1) /\ UNCHANGED file
     \/ stage' = "write" /\ file' = "partial" /\ UNCHANGED exit
  /\ UNCHANGED <<fetchVars, config, interrupted, guest, exitCode>>

DumpWritesUnchecked ==
  /\ stage = "write"
  /\ Exits(0)
  /\ file' \in {"partial", "complete"}
  /\ UNCHANGED <<fetchVars, config, interrupted, guest, exitCode>>

(* WriteFile's write and close. An error leaves a partial file.            *)
DumpWrites ==
  /\ stage = "write"
  /\ \/ Exits(0) /\ file' = "complete"
     \/ Exits(1) /\ UNCHANGED file
  /\ UNCHANGED <<fetchVars, config, interrupted, guest, exitCode>>

-------------------------------------------------------------------------------
(* The environment                                                         *)

Interrupt ==
  /\ stage \notin {"exited", "killed", "live"}
  /\ ~interrupted
  /\ interrupted' = TRUE
  /\ ctxDone' = TRUE
  /\ UNCHANGED <<at, canon, block, witness, balBytes, balErr,
                 requests, shortItem, err, config, stage, exit, guest, exitCode, file>>

(* SIGKILL or a power failure.                                             *)
Killed ==
  /\ stage \notin {"exited", "killed", "live"}
  /\ stage' = "killed"
  /\ UNCHANGED <<fetchVars, config, exit, interrupted, guest, exitCode, file>>

Outside == stage = "fetch" /\ World /\ UNCHANGED mainVars

-------------------------------------------------------------------------------

Step ==
  \/ CheckEnvironment \/ InitPool \/ ChooseMode
  \/ FetchGoesOn \/ FetchFailed
  \/ LaunchGuests
  \/ \E g \in Guests : GuestStarts(g) \/ \E o \in {"ok", "fail", "error"} : GuestEnds(g, o)
  \/ GuestsDone
  \/ DumpRefused \/ DumpOpens \/ DumpWrites

Next == Step \/ Interrupt \/ Killed \/ Outside

(* Every step of main is bounded in time: the probes, Fetch and the guests *)
(* have timeouts, a write ends.                                            *)
Spec == Init /\ [][Next]_vars /\ WF_vars(Step)

-------------------------------------------------------------------------------
(* Properties                                                              *)

(* runBlock returns "an exit code (0 = all valid, 1 = any failure or       *)
(* error)" (main.go:162), in whatever order the guests end and though they *)
(* share exitCode.                                                         *)
ExitCodeIsVerdict ==
  (stage = "exited" /\ ~config.dump) =>
    (exit = 0 <=> (Returned /\ \A g \in Guests : guest[g] = "ok"))

(* A complete dump holds an input that carries the BAL its header commits  *)
(* to; if the program exits by itself, it is there if and only if the exit *)
(* code is 0.                                                              *)
DumpIsVector ==
  /\ file = "complete" => /\ Returned
                          /\ BalOf[block] = NoBal \/ balBytes = Rlp(BalOf[block])
                          /\ requests = RequestsOf[block]
  /\ (stage = "exited" /\ config.dump) => (exit = 0 <=> file = "complete")

(* Where main is tells what it has done: before Fetch returns no guest has *)
(* run and no dump is complete; while guests run, exitCode says whether one*)
(* has failed; the dump file is open only for a checked input.             *)
MainKnows ==
  /\ stage \in {"environment", "pool", "mode"} => at = "block"
  /\ stage \in {"environment", "pool", "mode", "fetch", "write"} =>
       exitCode = 0 /\ file # "complete"
  /\ stage = "guests" =>
       /\ Returned /\ ~config.dump
       /\ guest \in [Guests -> {"launched", "running", "ok", "fail", "error"}]
       /\ exitCode \in {0, 1}
       /\ exitCode = 0 <=> \A g \in Guests : guest[g] \notin {"fail", "error"}
  /\ stage = "write" => Returned /\ ~balErr /\ config.dump
  /\ file = "complete" =>
       stage = "exited" /\ exit = 0 /\ config.dump /\ Returned /\ ~balErr
  /\ (stage = "exited" /\ config.dump /\ exit = 0) => file = "complete"

(* The inductive invariant of one-shot mode.                               *)
OneShotIInv == FetchIInv /\ MainKnows /\ ExitCodeIsVerdict

(* The program ends or enters live mode, interrupted or not.               *)
Ends == <>(stage \in {"exited", "killed", "live"})

(* "exit without running guests; GUEST_BINARIES may be empty" (README.md:  *)
(* 88, of DUMP_DIR): a dump is not refused for want of guests. main checks *)
(* GUEST_BINARIES before it looks at the mode.                             *)
DumpNeedsNoGuests ==
  [][(/\ stage = "environment" /\ config.urls /\ config.genesis # "bad"
      /\ config.block = "good" /\ config.dump /\ config.guests = "empty")
       => exit' # 1]_vars
===============================================================================
