--------------------------- MODULE LiteBtcOracle ---------------------------
(***************************************************************************)
(* lite-btc-oracle: a main loop that reads Bitcoin block headers one       *)
(* height at a time, collects them into a batch and sends the batch to the *)
(* relay contract with addBlocks, while an HTTP control server lets an     *)
(* operator stop it, start it and move it to another height.               *)
(*                                                                         *)
(* pc names the statement of main that comes next; a step ends at every    *)
(* lock, channel operation, HTTP request and file operation, because that  *)
(* is where the handlers, the network or a crash can come between.         *)
(*                                                                         *)
(* Simplifications: a header is known by its height (the program never     *)
(* looks inside one); the one-minute sleep of endCycle changes no state    *)
(* and is left out; at most one POST /set-height is being handled at a     *)
(* time (the mutex serialises them anyway); -seed and -init are run only   *)
(* while no oracle process is up, since they share the state file.         *)
(***************************************************************************)
EXTENDS OracleControl, Sequences, Functions

CONSTANTS
    DefaultHeight,    \* where main starts without a readable state file
    BlocksPerTx,      \* -blocks-per-tx
    NoLimit,          \* -hard-stop-after-blocks by default: never reached
    Limits,           \* bound: the values operators start processes with
    MaxTip,           \* bound: the chain grows no higher
    OperatorHeights,  \* bound: heights an operator posts or seeds
    Commands          \* the operator's commands an instance allows

CommandKinds == {"stop", "start", "set-height", "seed", "init"}

ASSUME OracleAssumption ==
    /\ DefaultHeight \in Height
    /\ BlocksPerTx \in Int
    /\ NoLimit \notin Int
    /\ Limits \subseteq Nat \cup {NoLimit} /\ Limits # {}
    /\ MaxTip \in Height /\ MaxTip < MaxU32 /\ DefaultHeight <= MaxTip
    /\ OperatorHeights \subseteq Height
    /\ Commands \subseteq CommandKinds

VARIABLES
    pc,          \* the next statement of main, or why no process is up
    h,           \* main's local blockHeight
    blocks,      \* heights whose headers are in addBlocksInput.Blocks
    blocksInTx,  \* main's local blocksInTx
    i,           \* iterations left of the limit, or NoLimit
    post,        \* the height of the POST /set-height inside SetHeight
    tip,         \* the Bitcoin chain's height, as the API reports it
    relayed,     \* heights whose headers reached the contract
    strayed,     \* history: the resume position is no longer the loop's own
    overrun      \* history: headers taken since the last effective stop

loop == <<h, blocks, blocksInTx, i>>
history == <<strayed, overrun>>
vars == <<control, lastHeight, pc, loop, post, tip, relayed, history>>

Down == {"off", "failed", "done"}        \* no process
Seeding == {"seedOpen", "seedWrite"}     \* a process run with -seed or -init
Serving == {"check", "blocked", "read", "hash", "header", "advance",
            "advanceWrite", "call", "saveOpen", "saveWrite",
            "exitOpen", "exitWrite"}     \* a process with a control server

TypeOK ==
    /\ ControlTypeOK
    /\ pc \in Down \cup Seeding \cup Serving
    /\ h \in Height
    /\ blocks \in Seq(Height)
    /\ blocksInTx \in Nat
    /\ i \in Int \cup {NoLimit}
    /\ post \in Height \cup {NoHeight}
    /\ tip \in 0 .. MaxTip
    /\ relayed \subseteq Height
    /\ strayed \in BOOLEAN
    /\ overrun \in Nat

\* Mutation: the file taken for the next height, not the last one.
ResumeAtLast == IF lastHeight = NoHeight THEN DefaultHeight ELSE lastHeight

\* The height a new process starts from.
Resume == IF lastHeight = NoHeight THEN DefaultHeight ELSE Inc32(lastHeight)

Init ==
    /\ mu = Free /\ running = FALSE /\ blockHeight = 0 /\ wake = 0
    /\ lastHeight = NoHeight
    /\ pc = "off" /\ h = 0 /\ blocks = <<>> /\ blocksInTx = 0 /\ i = 0
    /\ post = NoHeight
    /\ tip = DefaultHeight
    /\ relayed = {}
    /\ strayed = FALSE /\ overrun = 0

(***************************************************************************)
(* Processes.  What dies with the process is reset; h and blockHeight keep *)
(* the last values it had, which nothing reads before the next boot.       *)
(***************************************************************************)
Exit(how) ==
    /\ pc' = how
    /\ mu' = Free /\ running' = FALSE /\ wake' = 0 /\ post' = NoHeight
    /\ blocks' = <<>> /\ blocksInTx' = 0 /\ i' = 0 /\ overrun' = 0
    /\ UNCHANGED <<blockHeight, h>>

\* The state file does not say what the contract holds: it is unreadable
\* although the contract has headers, or the height after it overflows.
FileStrays == (lastHeight = NoHeight /\ relayed # {}) \/ lastHeight = MaxU32

Boot ==
    /\ pc \in Down
    /\ pc' = "check"
    /\ NewOracleControl(Resume)
    /\ h' = Resume
    /\ i' \in Limits
    /\ strayed' = (strayed \/ FileStrays)
    /\ UNCHANGED <<lastHeight, blocks, blocksInTx, post, tip, relayed, overrun>>

\* A seed that reached the contract and was not recorded leaves it astray.
Crash ==
    /\ "crash" \in Faults
    /\ pc \notin Down
    /\ Exit("off")
    /\ strayed' = (strayed \/ pc \in Seeding)
    /\ UNCHANGED <<lastHeight, tip, relayed>>

(***************************************************************************)
(* The loop of main, up to the append.                                     *)
(***************************************************************************)
Goes(from, to) ==
    /\ pc = from
    /\ pc' = to
    /\ UNCHANGED <<control, lastHeight, loop, post, tip, relayed, history>>

\* The first half of os.WriteFile.
Opens(from, to) ==
    /\ pc = from
    /\ OpenFile
    /\ pc' = to
    /\ UNCHANGED <<control, loop, post, tip, relayed, history>>

LimitReached == i = 0

Tick == i' = IF i = NoLimit THEN i ELSE i - 1

\* Mutation: main returns at the limit without the last endCycle.
LeaveWithoutFlush ==
    /\ pc = "check"
    /\ LimitReached
    /\ Exit("done")
    /\ UNCHANGED <<lastHeight, tip, relayed, strayed>>

CheckLimit == LimitReached /\ Goes("check", "call")

IsRunning ==
    /\ ~LimitReached
    /\ mu = Free
    /\ Goes("check", IF running THEN "read" ELSE "blocked")

\* Mutation: "if !IsRunning()" for "for !IsRunning()".
WakeWithoutRecheck ==
    /\ pc = "blocked"
    /\ wake = 1
    /\ wake' = 0
    /\ pc' = "read"
    /\ UNCHANGED <<mu, running, blockHeight, lastHeight, loop, post, tip, relayed, history>>

ReceiveWake ==
    /\ pc = "blocked"
    /\ wake = 1
    /\ wake' = 0
    /\ pc' = "check"
    /\ UNCHANGED <<mu, running, blockHeight, lastHeight, loop, post, tip, relayed, history>>

GetHeight ==
    /\ pc = "read"
    /\ mu = Free
    /\ h' = blockHeight
    /\ pc' = "hash"
    /\ UNCHANGED <<control, lastHeight, blocks, blocksInTx, i, post, tip, relayed, history>>

\* Mutation: the newest block is never asked for.
StayBehindTip == Goes("hash", IF h < tip THEN "header" ELSE "call")

\* Mutation: a 404 does not end the cycle, only a full batch does.
WaitForFullBatch == Goes("hash", IF h <= tip THEN "header" ELSE "check")

GetBlockHash == Goes("hash", IF h <= tip THEN "header" ELSE "call")

GetBlockHeader ==
    /\ pc = "header"
    /\ blocks' = Append(blocks, h)
    /\ h' = Inc32(h)
    /\ overrun' = IF running THEN 0 ELSE overrun + 1
    /\ pc' = "advance"
    /\ UNCHANGED <<control, lastHeight, blocksInTx, i, post, tip, relayed, strayed>>

\* Any answer but 200 to either request, and but 404 to the first one.
FetchFails ==
    /\ "fetch" \in Faults
    /\ \E request \in {"hash", "header"} : Goes(request, "exitOpen")

(***************************************************************************)
(* oc.SetHeight(blockHeight) and the count of the batch.                   *)
(***************************************************************************)
\* Mutation: > for >= in the test of the count.
CountBlockLate ==
    /\ blocksInTx' = blocksInTx + 1
    /\ \/ blocksInTx + 1 > BlocksPerTx /\ pc' = "call" /\ UNCHANGED i
       \/ blocksInTx + 1 <= BlocksPerTx /\ pc' = "check" /\ Tick
    /\ UNCHANGED <<h, blocks, post, tip, relayed, overrun>>

CountBlock ==
    /\ blocksInTx' = blocksInTx + 1
    /\ \/ blocksInTx + 1 >= BlocksPerTx /\ pc' = "call" /\ UNCHANGED i
       \/ blocksInTx + 1 < BlocksPerTx /\ pc' = "check" /\ Tick
    /\ UNCHANGED <<h, blocks, post, tip, relayed, overrun>>

Advance ==
    /\ pc = "advance"
    /\ SetHeightOpen("main", h)
    /\ pc' = "advanceWrite"
    /\ UNCHANGED <<loop, post, tip, relayed, history>>

AdvanceWrite ==
    /\ pc = "advanceWrite"
    /\ SetHeightWrite("main", h)
    /\ CountBlock
    /\ UNCHANGED strayed

AdvanceFails ==
    /\ \/ pc = "advance" /\ SetHeightOpenFails(h)
       \/ pc = "advanceWrite" /\ SetHeightWriteFails("main")
    /\ CountBlock
    /\ strayed' = TRUE

(***************************************************************************)
(* endCycle: on a full batch, on 404 and after the loop.  Its error branch *)
(* only prints; the batch is cleared and the file saved either way.  The   *)
(* file is written without the mutex.                                      *)
(***************************************************************************)
SendBatch(received) ==
    /\ pc = "call"
    /\ blocks # <<>>
    /\ relayed' = relayed \cup received
    /\ blocks' = <<>>
    /\ pc' = "saveOpen"
    /\ UNCHANGED <<control, lastHeight, h, blocksInTx, i, post, tip, history>>

CallContract == SendBatch(Range(blocks))

\* Mutation: a failed call keeps its batch for another try.
KeepFailedBatch ==
    /\ "call" \in Faults
    /\ pc = "call"
    /\ blocks # <<>>
    /\ \E received \in {{}, Range(blocks)} : relayed' = relayed \cup received
    /\ pc' = "saveOpen"
    /\ UNCHANGED <<control, lastHeight, loop, post, tip, history>>

\* An error can follow a broadcast that was accepted.
CallContractFails ==
    /\ "call" \in Faults
    /\ \E received \in {{}, Range(blocks)} : SendBatch(received)

EndCycle ==
    \/ /\ LimitReached
       /\ Exit("done")
    \/ /\ ~LimitReached
       /\ pc' = "check"
       /\ blocksInTx' = 0
       /\ Tick
       /\ UNCHANGED <<control, h, blocks, post, overrun>>

NothingToSend ==
    /\ pc = "call"
    /\ blocks = <<>>
    /\ EndCycle
    /\ UNCHANGED <<lastHeight, tip, relayed, strayed>>

SaveOpen == Opens("saveOpen", "saveWrite")

\* Mutation: endCycle saves the next height instead of the last one.
SaveNextHeight ==
    /\ pc = "saveWrite"
    /\ WriteFile(h)
    /\ EndCycle
    /\ UNCHANGED <<tip, relayed, strayed>>

SaveWrite ==
    /\ pc = "saveWrite"
    /\ WriteFile(Dec32(h))
    /\ EndCycle
    /\ UNCHANGED <<tip, relayed, strayed>>

SaveFails ==
    /\ "disk" \in Faults
    /\ pc \in {"saveOpen", "saveWrite"}
    /\ EndCycle
    /\ strayed' = TRUE
    /\ UNCHANGED <<lastHeight, tip, relayed>>

(***************************************************************************)
(* gracefulShutdown.                                                       *)
(***************************************************************************)
ExitOpen == Opens("exitOpen", "exitWrite")

ExitWrite ==
    /\ pc = "exitWrite"
    /\ WriteFile(h)
    /\ Exit("failed")
    /\ UNCHANGED <<tip, relayed, strayed>>

ExitFails ==
    /\ "disk" \in Faults
    /\ pc \in {"exitOpen", "exitWrite"}
    /\ Exit("failed")
    /\ strayed' = TRUE
    /\ UNCHANGED <<lastHeight, tip, relayed>>

(***************************************************************************)
(* The operator's command line: -seed n, -seed -1 (the tip) and -init.     *)
(***************************************************************************)
BeginSeed(n) ==
    /\ pc \in Down
    /\ pc' = "seedOpen"
    /\ h' = n
    /\ UNCHANGED <<control, lastHeight, blocks, blocksInTx, i, post, tip, overrun>>

Seed ==
    /\ "seed" \in Commands
    /\ \E n \in OperatorHeights \cup {tip} :
          /\ n <= tip
          /\ BeginSeed(n)
          /\ relayed' = relayed \cup {n}
    /\ strayed' = (strayed \/ relayed # {})

\* The call fails but the seed was delivered (if not, nothing changes).
SeedFails ==
    /\ "seed" \in Commands
    /\ "call" \in Faults
    /\ pc \in Down
    /\ \E n \in OperatorHeights \cup {tip} :
          /\ n <= tip
          /\ relayed' = relayed \cup {n}
    /\ pc' = "off"
    /\ strayed' = TRUE
    /\ UNCHANGED <<control, lastHeight, loop, post, tip, overrun>>

InitConfig ==
    /\ "init" \in Commands
    /\ BeginSeed(0)
    /\ strayed' = (strayed \/ relayed # {})
    /\ UNCHANGED relayed

SeedOpen == Opens("seedOpen", "seedWrite")

SeedWrite ==
    /\ pc = "seedWrite"
    /\ WriteFile(h)
    /\ Exit("off")
    /\ UNCHANGED <<tip, relayed, strayed>>

(***************************************************************************)
(* The handlers of the control server.  /status changes nothing.           *)
(***************************************************************************)
HandleStop ==
    /\ "stop" \in Commands
    /\ pc \in Serving
    /\ Stop
    /\ overrun' = IF running THEN 0 ELSE overrun
    /\ UNCHANGED <<pc, loop, post, tip, relayed, strayed>>

HandleStart ==
    /\ "start" \in Commands
    /\ pc \in Serving
    /\ Start
    /\ overrun' = 0
    /\ UNCHANGED <<pc, loop, post, tip, relayed, strayed>>

HandleSetHeight ==
    /\ "set-height" \in Commands
    /\ pc \in Serving
    /\ \E n \in OperatorHeights :
          /\ SetHeightOpen("handler", n)
          /\ post' = n
    /\ strayed' = TRUE
    /\ UNCHANGED <<pc, loop, tip, relayed, overrun>>

HandleSetHeightWrite ==
    /\ pc \in Serving
    /\ SetHeightWrite("handler", post)
    /\ post' = NoHeight
    /\ UNCHANGED <<pc, loop, tip, relayed, history>>

HandleSetHeightFails ==
    /\ pc \in Serving
    /\ \/ /\ "set-height" \in Commands
          /\ \E n \in OperatorHeights : SetHeightOpenFails(n)
       \/ SetHeightWriteFails("handler")
    /\ post' = NoHeight
    /\ strayed' = TRUE
    /\ UNCHANGED <<pc, loop, tip, relayed, overrun>>

(***************************************************************************)
(* The Bitcoin network.                                                    *)
(***************************************************************************)
NewBlock ==
    /\ tip < MaxTip
    /\ tip' = tip + 1
    /\ UNCHANGED <<control, lastHeight, pc, loop, post, relayed, history>>

-----------------------------------------------------------------------------
Main ==
    \/ CheckLimit \/ IsRunning \/ ReceiveWake \/ GetHeight
    \/ GetBlockHash \/ GetBlockHeader \/ FetchFails
    \/ Advance \/ AdvanceWrite \/ AdvanceFails
    \/ CallContract \/ CallContractFails \/ NothingToSend
    \/ SaveOpen \/ SaveWrite \/ SaveFails
    \/ ExitOpen \/ ExitWrite \/ ExitFails
    \/ SeedOpen \/ SeedWrite

Handlers ==
    \/ HandleStop \/ HandleStart
    \/ HandleSetHeight \/ HandleSetHeightWrite \/ HandleSetHeightFails

Operator == Boot \/ Seed \/ SeedFails \/ InitConfig

Next == Main \/ Handlers \/ Operator \/ Crash \/ NewBlock

Spec == Init /\ [][Next]_vars

(***************************************************************************)
(* Fairness.  main keeps running: its only waits are for the mutex, which  *)
(* sync.Mutex grants to a waiter even against a stream of competitors      *)
(* (hence strong fairness), and for wake.  A handler inside SetHeight      *)
(* finishes it.  Nobody is obliged to start the process or to find blocks. *)
(***************************************************************************)
FairSpec == Spec /\ SF_vars(Main) /\ WF_vars(HandleSetHeightWrite)

(***************************************************************************)
(* Properties.                                                             *)
(***************************************************************************)
\* Whatever the order of POST /stop, POST /start and the two halves of the
\* paused loop (IsRunning, then the receive), main is never parked on the wake
\* channel of a running oracle without a token there to free it.
NoLostWakeup == pc = "blocked" /\ running => wake = 1

\* After an effective POST /stop the loop finishes the iteration it is in and
\* takes nothing more, whatever tokens earlier starts left in the channel: at
\* most one header is taken until the next POST /start.
StopTakesEffect == ~running => overrun <= 1

\* blocksInTx, reset on every path through endCycle, is the number of headers
\* in the batch each time round the loop, and no call carries more headers than
\* -blocks-per-tx (or one, if that is not positive).
BatchBounded ==
    /\ pc \in {"check", "blocked", "read"} => blocksInTx = Len(blocks)
    /\ Len(blocks) <= IF BlocksPerTx < 1 THEN 1 ELSE BlocksPerTx

\* Over crashes, failed calls, shutdowns, pauses and restarts, unless something
\* put the resume position astray, a batch is a run of consecutive heights
\* above every header the contract already has: no header is sent twice.
BatchIsNew ==
    ~strayed => \A k \in DOMAIN blocks :
        /\ \A x \in relayed : x < blocks[k]
        /\ k > 1 => blocks[k] = blocks[k - 1] + 1

\* The composition of loop, handlers, file, crashes and restarts implements the
\* relay the contract may count on: the oracle collects runs of heights above
\* what the contract has and hands each over as a whole or loses it, over any
\* number of processes, or it is astray.
Contract == INSTANCE HeaderRelay WITH pending <- blocks
RelaysInOrder == Contract!Spec

\* A process that ended by its block limit left the state file so that the next
\* one begins with the very height this one would have fetched next.
CleanStopResumes == pc = "done" /\ ~strayed => Resume = blockHeight

\* Without faults and without an operator moving it, no height between two
\* relayed or batched ones is left out, over any number of processes.
Taken == relayed \cup Range(blocks)
GapFree == ~strayed => \A x, y \in Taken : x .. y \subseteq Taken

\* The reply of POST /set-height says "height set to n": when the loop comes to
\* store the height after the one it fetched, it replaces that one only.
PostedHeightKept == pc = "advance" => blockHeight = Dec32(h)

\* gracefulShutdown saves the height so that the next process begins with the
\* height whose fetch failed.
ResumesWhereItLeft == pc = "failed" /\ ~strayed => Resume = blockHeight

\* A batch begun is sent, or lost with its process, unless the oracle is parked
\* by a stop: it never waits for ever for the next block.
BatchFlushed == (blocks # <<>>) ~> (blocks = <<>> \/ pc = "blocked")

\* Without faults, over block limits, restarts, seeds and stops that are followed
\* by a start: an oracle that is up and running from some time on, and was not
\* put astray, relays every block that the chain gets from its position on.
EveryBlockRelayed ==
    \A n \in Height :
        (<>[]running) =>
            (running /\ blockHeight <= n /\ n <= tip ~> n \in relayed \/ strayed)

=============================================================================
