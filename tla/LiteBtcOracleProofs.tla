------------------------- MODULE LiteBtcOracleProofs -------------------------
(***************************************************************************)
(* Theorems about LiteBtcOracle, for every value of its constants.         *)
(*                                                                         *)
(* The inductive invariant is built in layers, each proved from the ones   *)
(* before it: types, who holds the mutex, what a stop leaves running, the  *)
(* count of the batch, and where the loop, the batch and the state file    *)
(* stand relative to what the contract has received.                       *)
(***************************************************************************)
EXTENDS LiteBtcOracle, SequenceTheorems, TLAPS

(***************************************************************************)
(* Types.                                                                  *)
(***************************************************************************)
LEMMA IncDecType ==
    ASSUME NEW n \in Height
    PROVE  Inc32(n) \in Height /\ Dec32(n) \in Height
  BY ControlAssumption DEF Inc32, Dec32, Height

LEMMA ResumeType == lastHeight \in Height \cup {NoHeight} => Resume \in Height
  BY IncDecType, OracleAssumption DEF Resume

LEMMA WriteFileType ==
    ASSUME lastHeight \in Height \cup {NoHeight}, NEW n \in Height, WriteFile(n)
    PROVE  lastHeight' \in Height
  BY ControlAssumption DEF WriteFile

LEMMA RangeType ==
    ASSUME blocks \in Seq(Height)
    PROVE  Range(blocks) \subseteq Height
  BY DEF Range

LEMMA EmptySeqType == <<>> \in Seq(Height)
  OBVIOUS

\* A process that ends leaves only its resume position and its history behind.
LEMMA ExitType ==
    ASSUME TypeOK, NEW how \in Down, Exit(how),
           lastHeight' \in Height \cup {NoHeight}, tip' \in 0 .. MaxTip,
           relayed' \subseteq Height, strayed' \in BOOLEAN
    PROVE  TypeOK'
<1>1. i' \in Int \cup {NoLimit}
  BY DEF Exit
<1> QED
  BY <1>1, EmptySeqType DEF Exit, TypeOK, ControlTypeOK

\* The mutex is main's during its SetHeight only, and a handler's only while it
\* has a height to write.
MutexOK ==
    /\ mu = "main" <=> pc = "advanceWrite"
    /\ mu = "handler" => post # NoHeight

LEMMA TypeInit == Init => TypeOK
<1> SUFFICES ASSUME Init PROVE TypeOK
  OBVIOUS
<1>1. 0 \in Height /\ DefaultHeight \in 0 .. MaxTip
  BY ControlAssumption, OracleAssumption DEF Height
<1>2. ControlTypeOK
  BY <1>1 DEF Init, ControlTypeOK
<1>3. strayed \in BOOLEAN /\ relayed \subseteq Height
  BY DEF Init
<1> QED
  BY <1>1, <1>2, <1>3, EmptySeqType DEF Init, TypeOK, Down

LEMMA TypeNext == TypeOK /\ MutexOK /\ [Next]_vars => TypeOK'
<1> SUFFICES ASSUME TypeOK, MutexOK, [Next]_vars PROVE TypeOK'
  OBVIOUS
<1> USE DEF TypeOK, ControlTypeOK, Down, Seeding, Serving
<1>1. CASE Boot
  BY <1>1, ResumeType, OracleAssumption DEF Boot, NewOracleControl
<1>2. CASE Crash
  BY <1>2, ExitType DEF Crash
<1>3. CASE CheckLimit \/ IsRunning \/ ReceiveWake \/ GetHeight
  BY <1>3 DEF Goes, CheckLimit, IsRunning, ReceiveWake, GetHeight, control, loop, history
<1>4. CASE GetBlockHash \/ FetchFails
  BY <1>4 DEF Goes, GetBlockHash, FetchFails, control, loop, history
<1>5. CASE GetBlockHeader
  BY <1>5, IncDecType DEF GetBlockHeader, control, loop, history
<1>6. CASE Advance
  BY <1>6 DEF Advance, SetHeightOpen, OpenFile, loop, history
<1>7. CASE AdvanceWrite
  BY <1>7, WriteFileType DEF AdvanceWrite, SetHeightWrite, CountBlock, Tick
<1>8. CASE AdvanceFails
  BY <1>8 DEF AdvanceFails, SetHeightOpenFails, SetHeightWriteFails, CountBlock, Tick
<1>9. CASE CallContract \/ CallContractFails
  BY <1>9, RangeType, EmptySeqType DEF CallContract, CallContractFails, SendBatch, control, history
<1>10. CASE NothingToSend
  <2>1. CASE Exit("done")
    BY <1>10, <2>1, ExitType DEF NothingToSend
  <2>2. CASE ~Exit("done")
    <3>1. /\ pc' = "check" /\ blocksInTx' = 0 /\ Tick
          /\ UNCHANGED <<control, h, blocks, post, overrun>>
          /\ UNCHANGED <<lastHeight, tip, relayed, strayed>>
      BY <1>10, <2>2, Zenon DEF NothingToSend, EndCycle
    <3> QED
      BY <3>1 DEF Tick, control
  <2> QED
    BY <2>1, <2>2
<1>11. CASE SaveOpen \/ ExitOpen \/ SeedOpen
  BY <1>11 DEF Opens, SaveOpen, ExitOpen, SeedOpen, OpenFile, control, loop, history
<1>12. CASE SaveWrite
  BY <1>12, WriteFileType, IncDecType, ExitType DEF SaveWrite, EndCycle, Tick, control
<1>13. CASE SaveFails
  BY <1>13, ExitType DEF SaveFails, EndCycle, Tick, control
<1>14. CASE ExitWrite \/ SeedWrite
  BY <1>14, WriteFileType, ExitType DEF ExitWrite, SeedWrite
<1>15. CASE ExitFails
  BY <1>15, ExitType DEF ExitFails
<1>16. CASE Seed \/ SeedFails \/ InitConfig
  <2>1. 0 \in Height /\ OperatorHeights \cup {tip} \subseteq Height
    BY ControlAssumption, OracleAssumption DEF Height
  <2> QED
    BY <1>16, <2>1 DEF Seed, SeedFails, InitConfig, BeginSeed, control, loop
<1>17. CASE HandleStop \/ HandleStart
  <2>1. running' \in BOOLEAN
    BY <1>17 DEF HandleStop, HandleStart, Stop, Start
  <2> QED
    BY <1>17, <2>1 DEF HandleStop, HandleStart, Stop, Start, loop
<1>18. CASE HandleSetHeight
  BY <1>18, OracleAssumption DEF HandleSetHeight, SetHeightOpen, OpenFile, loop
<1>19. CASE HandleSetHeightWrite
  BY <1>19, WriteFileType DEF HandleSetHeightWrite, SetHeightWrite, MutexOK, loop, history
<1>20. CASE HandleSetHeightFails
  BY <1>20, OracleAssumption
  DEF HandleSetHeightFails, SetHeightOpenFails, SetHeightWriteFails, loop
<1>21. CASE NewBlock
  BY <1>21, OracleAssumption DEF NewBlock, Height, control, loop, history
<1>22. CASE UNCHANGED vars
  BY <1>22 DEF vars, control, loop, history
<1> QED
  BY <1>1, <1>2, <1>3, <1>4, <1>5, <1>6, <1>7, <1>8, <1>9, <1>10, <1>11, <1>12,
     <1>13, <1>14, <1>15, <1>16, <1>17, <1>18, <1>19, <1>20, <1>21, <1>22
  DEF Next, Main, Handlers, Operator

LEMMA MutexNext == MutexOK /\ [Next]_vars => MutexOK'
<1> SUFFICES ASSUME MutexOK, [Next]_vars PROVE MutexOK'
  OBVIOUS
<1> USE DEF MutexOK
<1>1. CASE Boot \/ Seed \/ SeedFails \/ InitConfig
  BY <1>1, ControlAssumption
  DEF Boot, NewOracleControl, Seed, SeedFails, InitConfig, BeginSeed, control, Down
<1>2. CASE Crash
  BY <1>2, ControlAssumption DEF Crash, Exit
<1>3. CASE CheckLimit \/ IsRunning \/ ReceiveWake \/ GetHeight
  BY <1>3 DEF Goes, CheckLimit, IsRunning, ReceiveWake, GetHeight, control
<1>4. CASE GetBlockHash \/ GetBlockHeader \/ FetchFails
  BY <1>4 DEF Goes, GetBlockHash, GetBlockHeader, FetchFails, control
<1>5. CASE Advance
  BY <1>5 DEF Advance, SetHeightOpen
<1>6. CASE AdvanceWrite \/ AdvanceFails
  BY <1>6, ControlAssumption
  DEF AdvanceWrite, AdvanceFails, SetHeightWrite, SetHeightOpenFails,
      SetHeightWriteFails, CountBlock
<1>7. CASE CallContract \/ CallContractFails
  BY <1>7 DEF CallContract, CallContractFails, SendBatch, control
<1>8. CASE NothingToSend \/ SaveWrite \/ SaveFails
  BY <1>8, ControlAssumption DEF NothingToSend, SaveWrite, SaveFails, EndCycle, Exit, control
<1>9. CASE SaveOpen \/ ExitOpen \/ SeedOpen
  BY <1>9 DEF Opens, SaveOpen, ExitOpen, SeedOpen, control
<1>10. CASE ExitWrite \/ SeedWrite \/ ExitFails
  BY <1>10, ControlAssumption DEF ExitWrite, SeedWrite, ExitFails, Exit
<1>11. CASE HandleStop \/ HandleStart
  BY <1>11 DEF HandleStop, HandleStart, Stop, Start
<1>12. CASE HandleSetHeight
  BY <1>12, ControlAssumption, OracleAssumption
  DEF HandleSetHeight, SetHeightOpen, Height
<1>13. CASE HandleSetHeightWrite \/ HandleSetHeightFails
  BY <1>13, ControlAssumption
  DEF HandleSetHeightWrite, HandleSetHeightFails, SetHeightWrite,
      SetHeightOpenFails, SetHeightWriteFails
<1>14. CASE NewBlock \/ UNCHANGED vars
  BY <1>14 DEF NewBlock, vars, control
<1> QED
  BY <1>1, <1>2, <1>3, <1>4, <1>5, <1>6, <1>7, <1>8, <1>9, <1>10, <1>11, <1>12,
     <1>13, <1>14
  DEF Next, Main, Handlers, Operator

LEMMA MutexInit == Init => MutexOK
  BY ControlAssumption DEF Init, MutexOK

LEMMA Types == Spec => [](TypeOK /\ MutexOK)
  BY TypeInit, MutexInit, TypeNext, MutexNext, PTL DEF Spec

\* Every variable of the composition keeps its type: heights stay uint32 values,
\* also where two writers of the state file overlap, and the wake channel never
\* holds more than its one token.
THEOREM TypeCorrect == Spec => []TypeOK
  BY Types, PTL

(***************************************************************************)
(* Stop and start.                                                         *)
(***************************************************************************)
LEMMA WakeNext == NoLostWakeup /\ [Next]_vars => NoLostWakeup'
<1> SUFFICES ASSUME NoLostWakeup, [Next]_vars PROVE NoLostWakeup'
  OBVIOUS
<1> USE DEF NoLostWakeup
<1>1. CASE pc' # "blocked"
  BY <1>1
<1>2. CASE IsRunning
  BY <1>2 DEF Goes, IsRunning, control
<1>3. CASE HandleStop \/ HandleStart
  BY <1>3 DEF HandleStop, HandleStart, Stop, Start
<1>4. CASE HandleSetHeight \/ HandleSetHeightWrite \/ HandleSetHeightFails
  BY <1>4 DEF HandleSetHeight, HandleSetHeightWrite, HandleSetHeightFails,
              SetHeightOpen, SetHeightWrite, SetHeightOpenFails, SetHeightWriteFails
<1>5. CASE NewBlock \/ UNCHANGED vars
  BY <1>5 DEF NewBlock, vars, control
<1>6. CASE Boot \/ Crash \/ Seed \/ SeedFails \/ InitConfig
  BY <1>6 DEF Boot, Crash, Seed, SeedFails, InitConfig, BeginSeed, Exit
<1>7. CASE Main /\ ~IsRunning
  BY <1>7
  DEF Goes, Opens, Main, CheckLimit, ReceiveWake, GetHeight, GetBlockHash, GetBlockHeader,
      FetchFails, Advance, AdvanceWrite, AdvanceFails, CountBlock, CallContract,
      CallContractFails, SendBatch, NothingToSend, SaveOpen, SaveWrite, SaveFails,
      EndCycle, ExitOpen, ExitWrite, ExitFails, SeedOpen, SeedWrite, Exit
<1> QED
  BY <1>1, <1>2, <1>3, <1>4, <1>5, <1>6, <1>7 DEF Next, Handlers, Operator

\* POST /start never leaves main parked on the wake channel: between the read of
\* running and the receive, any order of stops and starts keeps a token there.
THEOREM WakeupKept == Spec => []NoLostWakeup
<1>1. Init => NoLostWakeup
  BY DEF Init, NoLostWakeup
<1> QED
  BY <1>1, WakeNext, PTL DEF Spec

\* Why a stopped loop takes one header at most: past the read of the flag there
\* is only the iteration that was under way, and nothing comes back there.
StopInv ==
    ~running => /\ overrun <= 1
                /\ pc \in {"read", "hash", "header"} => overrun = 0

LEMMA StopNext == TypeOK /\ StopInv /\ [Next]_vars => StopInv'
<1> SUFFICES ASSUME TypeOK, StopInv, [Next]_vars, ~running' PROVE StopInv'
  BY DEF StopInv
<1> USE DEF StopInv
<1>1. CASE IsRunning \/ GetHeight \/ GetBlockHash
  BY <1>1 DEF Goes, IsRunning, GetHeight, GetBlockHash, control, history
<1>2. CASE GetBlockHeader
  BY <1>2 DEF GetBlockHeader, control, TypeOK
<1>3. CASE HandleStop \/ HandleStart
  BY <1>3 DEF HandleStop, HandleStart, Stop, Start
<1>4. CASE HandleSetHeight \/ HandleSetHeightWrite \/ HandleSetHeightFails
  BY <1>4 DEF HandleSetHeight, HandleSetHeightWrite, HandleSetHeightFails,
              SetHeightOpen, SetHeightWrite, SetHeightOpenFails,
              SetHeightWriteFails, history
<1>5. CASE NewBlock \/ UNCHANGED vars
  BY <1>5 DEF NewBlock, vars, control, history
<1>6. CASE Boot \/ Crash
  BY <1>6 DEF Boot, Crash, Exit, NewOracleControl
<1>7. CASE Seed \/ SeedFails \/ InitConfig
  BY <1>7 DEF Seed, SeedFails, InitConfig, BeginSeed, control
<1>8. CASE CheckLimit \/ ReceiveWake \/ FetchFails \/ SaveOpen \/ ExitOpen \/ SeedOpen
  BY <1>8 DEF Goes, Opens, CheckLimit, ReceiveWake, FetchFails, SaveOpen, ExitOpen, SeedOpen,
              control, history
<1>9. CASE Advance \/ AdvanceWrite \/ AdvanceFails
  BY <1>9 DEF Advance, AdvanceWrite, AdvanceFails, CountBlock, SetHeightOpen,
              SetHeightWrite, SetHeightOpenFails, SetHeightWriteFails, history
<1>10. CASE CallContract \/ CallContractFails
  BY <1>10 DEF CallContract, CallContractFails, SendBatch, control, history
<1>11. CASE NothingToSend \/ SaveWrite \/ SaveFails
  BY <1>11 DEF NothingToSend, SaveWrite, SaveFails, EndCycle, Exit, control
<1>12. CASE ExitWrite \/ ExitFails \/ SeedWrite
  BY <1>12 DEF ExitWrite, ExitFails, SeedWrite, Exit
<1> QED
  BY <1>1, <1>2, <1>3, <1>4, <1>5, <1>6, <1>7, <1>8, <1>9, <1>10, <1>11, <1>12
  DEF Next, Main, Handlers, Operator

\* After POST /stop the loop takes at most the one header it was fetching, even
\* with a token of an earlier POST /start still in the wake channel.
THEOREM StopHolds == Spec => []StopTakesEffect
<1>1. Init => StopInv
  BY DEF Init, StopInv
<1>2. StopInv => StopTakesEffect
  BY DEF StopInv, StopTakesEffect
<1> QED
  BY <1>1, <1>2, Types, StopNext, PTL DEF Spec

(***************************************************************************)
(* The batch and its count.                                                *)
(***************************************************************************)
Cap == IF BlocksPerTx < 1 THEN 1 ELSE BlocksPerTx

Collecting == {"check", "blocked", "read", "hash", "header"}

LedgerInv ==
    /\ pc \in Collecting => blocksInTx = Len(blocks) /\ Len(blocks) < Cap
    /\ pc \in {"advance", "advanceWrite"} =>
           Len(blocks) = blocksInTx + 1 /\ Len(blocks) <= Cap
    /\ pc \in {"call", "exitOpen", "exitWrite"} => Len(blocks) <= Cap
    /\ pc \in {"saveOpen", "saveWrite"} => blocks = <<>>
    /\ pc \in Down \cup Seeding => blocks = <<>> /\ blocksInTx = 0

LEMMA LedgerNext == TypeOK /\ LedgerInv /\ [Next]_vars => LedgerInv'
<1> SUFFICES ASSUME TypeOK, LedgerInv, [Next]_vars PROVE LedgerInv'
  OBVIOUS
<1> USE DEF LedgerInv, Collecting, Down, Seeding
<1>0. /\ Len(blocks) \in Nat /\ blocksInTx \in Nat /\ BlocksPerTx \in Int
      /\ (blocks = <<>>) <=> (Len(blocks) = 0)
      /\ Cap \in Nat /\ 0 < Cap /\ BlocksPerTx <= Cap
  BY OracleAssumption DEF TypeOK, Cap
<1>1. CASE Boot \/ Seed \/ SeedFails \/ InitConfig
  BY <1>0, <1>1 DEF Boot, Seed, SeedFails, InitConfig, BeginSeed, loop
<1>2. CASE Crash \/ ExitWrite \/ ExitFails \/ SeedWrite
  BY <1>2 DEF Crash, ExitWrite, ExitFails, SeedWrite, Exit
<1>3. CASE CheckLimit \/ IsRunning \/ ReceiveWake \/ GetHeight
  BY <1>0, <1>3 DEF Goes, CheckLimit, IsRunning, ReceiveWake, GetHeight, loop
<1>4. CASE GetBlockHash \/ FetchFails
  BY <1>0, <1>4 DEF Goes, GetBlockHash, FetchFails, loop
<1>5. CASE GetBlockHeader
  <2>1. Len(blocks') = Len(blocks) + 1
    BY <1>5, LenProperties, AppendProperties DEF GetBlockHeader, TypeOK
  <2> QED
    BY <1>0, <1>5, <2>1 DEF GetBlockHeader
<1>6. CASE Advance
  BY <1>0, <1>6 DEF Advance, loop
<1>7. CASE AdvanceWrite \/ AdvanceFails
  BY <1>0, <1>7 DEF AdvanceWrite, AdvanceFails, CountBlock, Cap
<1>8. CASE CallContract \/ CallContractFails
  BY <1>8 DEF CallContract, CallContractFails, SendBatch
<1>9. CASE NothingToSend \/ SaveWrite \/ SaveFails
  BY <1>0, <1>9 DEF NothingToSend, SaveWrite, SaveFails, EndCycle, Exit
<1>10. CASE SaveOpen \/ ExitOpen \/ SeedOpen
  BY <1>10 DEF Opens, SaveOpen, ExitOpen, SeedOpen, loop
<1>11. CASE Handlers
  BY <1>11 DEF Handlers, HandleStop, HandleStart, HandleSetHeight,
               HandleSetHeightWrite, HandleSetHeightFails, loop
<1>12. CASE NewBlock \/ UNCHANGED vars
  BY <1>12 DEF NewBlock, vars, loop
<1> QED
  BY <1>1, <1>2, <1>3, <1>4, <1>5, <1>6, <1>7, <1>8, <1>9, <1>10, <1>11, <1>12
  DEF Next, Main, Operator

\* No call carries more headers than -blocks-per-tx, on any path that leads to
\* endCycle, and the count main keeps is the length of the batch.
THEOREM BatchKeptBounded == Spec => []BatchBounded
<1>1. Init => LedgerInv
  BY OracleAssumption DEF Init, LedgerInv, Collecting, Cap, Down
<1>2. TypeOK /\ LedgerInv => BatchBounded
  <2>1. TypeOK => Len(blocks) \in Nat
    BY DEF TypeOK
  <2> QED
    BY <2>1, OracleAssumption
    DEF TypeOK, LedgerInv, BatchBounded, Collecting, Cap, Down, Seeding, Serving
<1> QED
  BY <1>1, <1>2, Types, LedgerNext, PTL DEF Spec

(***************************************************************************)
(* Where the loop, the batch, the file and the contract stand.             *)
(***************************************************************************)
\* While nothing has put the position astray, main's height is the shared one
\* (plus one between the append and SetHeight), and no handler holds it.
OwnPosition ==
    /\ post = NoHeight
    /\ pc \in Serving => blockHeight = IF pc = "advance" THEN h - 1 ELSE h

\* The batch is the run of heights that ends below main's height, and the
\* contract has nothing from where it starts.
RunBelow ==
    pc \in Serving =>
        /\ \A k \in 1 .. Len(blocks) : blocks[k] = h - Len(blocks) + k - 1
        /\ \A x \in relayed : x < h - Len(blocks)

\* What the state file says, when it can be read, is never below a header the
\* contract has, nor below the height before the loop's, at any point where a
\* crash can make it the start of another process.
FileAbove ==
    /\ pc \in {"advanceWrite", "saveWrite", "exitWrite", "seedWrite"} =>
           lastHeight = NoHeight
    /\ pc \in Seeding => \A x \in relayed : x <= h
    /\ lastHeight # NoHeight =>
           /\ pc # "seedOpen" => \A x \in relayed : x <= lastHeight
           /\ pc \in Serving \ {"advance"} => lastHeight >= h - 1

\* With nothing collected, the file resumes exactly where the loop is.
FileResumes ==
    /\ pc \in Collecting \cup {"call"} /\ blocks = <<>> => Resume = h
    /\ pc = "done" => Resume = blockHeight

PositionInv ==
    /\ pc = "header" => h <= tip
    /\ ~strayed => OwnPosition /\ RunBelow /\ FileAbove /\ FileResumes

\* What the actions keep of PositionInv while the oracle is not astray.
OnCourse == OwnPosition /\ RunBelow /\ FileAbove /\ FileResumes

LEMMA HeaderNext ==
    ASSUME TypeOK, pc = "header" => h <= tip, [Next]_vars
    PROVE  (pc = "header" => h <= tip)'
<1> SUFFICES ASSUME pc' = "header" PROVE h' <= tip'
  OBVIOUS
<1>1. CASE GetBlockHash
  BY <1>1 DEF Goes, GetBlockHash, loop
<1>2. CASE Handlers
  BY <1>2 DEF Handlers, HandleStop, HandleStart, HandleSetHeight,
              HandleSetHeightWrite, HandleSetHeightFails, loop
<1>3. CASE NewBlock
  BY <1>3, OracleAssumption, ControlAssumption DEF NewBlock, loop, TypeOK, Height
<1>4. CASE UNCHANGED vars
  BY <1>4 DEF vars, loop
<1> QED
  BY <1>1, <1>2, <1>3, <1>4
  DEF Goes, Opens, Next, Main, Operator, Boot, Crash, Seed, SeedFails, InitConfig, BeginSeed,
      CheckLimit, IsRunning, ReceiveWake, GetHeight, GetBlockHeader, FetchFails,
      Advance, AdvanceWrite, AdvanceFails, CountBlock, CallContract,
      CallContractFails, SendBatch, NothingToSend, SaveOpen, SaveWrite, SaveFails,
      EndCycle, ExitOpen, ExitWrite, ExitFails, SeedOpen, SeedWrite, Exit

\* Nothing brings an oracle that went astray back on course.
LEMMA StrayedStays ==
    ASSUME TypeOK, [Next]_vars, ~strayed'
    PROVE  ~strayed
  BY DEF Goes, Opens, TypeOK, Next, Main, Handlers, Operator, Boot, Crash, Seed, SeedFails,
     InitConfig, CheckLimit, IsRunning, ReceiveWake, GetHeight, GetBlockHash,
     GetBlockHeader, FetchFails, Advance, AdvanceWrite, AdvanceFails, CallContract,
     CallContractFails, SendBatch, NothingToSend, SaveOpen, SaveWrite, SaveFails,
     ExitOpen, ExitWrite, ExitFails, SeedOpen, SeedWrite, HandleStop, HandleStart,
     HandleSetHeight, HandleSetHeightWrite, HandleSetHeightFails, NewBlock,
     vars, history

LEMMA OnCourseNext ==
    ASSUME TypeOK, TypeOK', MutexOK, LedgerInv, PositionInv, [Next]_vars, ~strayed'
    PROVE  OnCourse'
<1>0. /\ OnCourse /\ ~strayed
      /\ h \in 0 .. MaxU32 /\ blockHeight \in 0 .. MaxU32 /\ MaxU32 \in Nat
      /\ lastHeight \in (0 .. MaxU32) \cup {NoHeight} /\ NoHeight \notin Int
      /\ tip \in 0 .. MaxTip /\ MaxTip \in 0 .. MaxU32 /\ MaxTip < MaxU32
      /\ relayed \subseteq 0 .. MaxU32 /\ Len(blocks) \in Nat
      /\ (blocks = <<>>) <=> (Len(blocks) = 0)
  BY StrayedStays, ControlAssumption, OracleAssumption
  DEF TypeOK, ControlTypeOK, Height, PositionInv, OnCourse
<1> USE <1>0 DEF OnCourse, OwnPosition, RunBelow, FileAbove, FileResumes
<1> USE DEF Down, Seeding, Serving, Collecting
<1>1. CASE Boot
  <2>1. blocks' = <<>> /\ relayed' = relayed /\ lastHeight' = lastHeight /\ Resume' = Resume
    BY <1>1 DEF Boot, LedgerInv, Resume
  <2>2. /\ pc' = "check" /\ h' = Resume /\ blockHeight' = Resume /\ post' = NoHeight
    BY <1>1, ControlAssumption DEF Boot, NewOracleControl
  <2>3. /\ lastHeight = NoHeight => relayed = {}
        /\ lastHeight # NoHeight => Resume = lastHeight + 1
    BY <1>1 DEF Boot, FileStrays, Resume, Inc32
  <2> QED
    BY <1>1, <2>1, <2>2, <2>3 DEF Boot
<1>2. CASE Crash
  BY <1>2 DEF Crash, Exit
<1>3. CASE CheckLimit \/ IsRunning \/ ReceiveWake \/ GetHeight \/ GetBlockHash
  BY <1>3
  DEF Goes, CheckLimit, IsRunning, ReceiveWake, GetHeight, GetBlockHash, control, loop, Resume
<1>4. CASE FetchFails
  BY <1>4 DEF Goes, FetchFails, control, loop
<1>5. CASE GetBlockHeader
  <2>1. /\ Len(blocks') = Len(blocks) + 1
        /\ \A k \in 1 .. Len(blocks) : blocks'[k] = blocks[k]
        /\ blocks'[Len(blocks) + 1] = h
    BY <1>5, LenProperties, AppendProperties DEF GetBlockHeader, TypeOK
  <2>2. h' = h + 1
    BY <1>5 DEF GetBlockHeader, PositionInv, Inc32
  <2> QED
    BY <1>5, <2>1, <2>2 DEF GetBlockHeader, control
<1>6. CASE Advance
  BY <1>6 DEF Advance, SetHeightOpen, OpenFile, loop
<1>7. CASE AdvanceWrite
  <2>1. lastHeight' = h
    BY <1>7 DEF AdvanceWrite, SetHeightWrite, WriteFile
  <2>2. blocks # <<>>
    BY <1>7 DEF AdvanceWrite, LedgerInv, TypeOK
  <2> QED
    BY <1>7, <2>1, <2>2 DEF AdvanceWrite, SetHeightWrite, CountBlock
<1>8. CASE CallContract \/ CallContractFails
  <2>1. PICK received \in {{}, Range(blocks)} : SendBatch(received)
    BY <1>8 DEF CallContract, CallContractFails
  <2>2. \A x \in received : x <= h - 1
    BY <2>1 DEF SendBatch, Range, TypeOK
  <2>3. Len(blocks') = 0
    BY <2>1 DEF SendBatch
  <2> QED
    BY <2>1, <2>2, <2>3 DEF SendBatch, control
<1>9. CASE NothingToSend
  BY <1>9 DEF NothingToSend, EndCycle, Exit, control, Resume
<1>10. CASE SaveOpen \/ ExitOpen \/ SeedOpen
  BY <1>10 DEF Opens, SaveOpen, ExitOpen, SeedOpen, OpenFile, control, loop
<1>11. CASE SaveWrite
  <2>1. blocks = <<>> /\ blocks' = <<>> /\ relayed' = relayed /\ h' = h
    BY <1>11 DEF SaveWrite, EndCycle, Exit, LedgerInv
  <2>2. lastHeight' = Dec32(h)
    BY <1>11 DEF SaveWrite, WriteFile
  <2>3. Resume' = h
    BY <2>2 DEF Resume, Inc32, Dec32
  <2> QED
    BY <1>11, <2>1, <2>2, <2>3 DEF SaveWrite, EndCycle, Exit, Dec32, control
<1>12. CASE ExitWrite \/ SeedWrite
  <2>1. lastHeight' = h
    BY <1>12 DEF ExitWrite, SeedWrite, WriteFile
  <2>2. \A x \in relayed : x <= h
    BY <1>12 DEF ExitWrite, SeedWrite
  <2>3. pc' \in {"failed", "off"} /\ post' = NoHeight /\ relayed' = relayed
    BY <1>12 DEF ExitWrite, SeedWrite, Exit
  <2> QED
    BY <2>1, <2>2, <2>3
<1>13. CASE Seed \/ InitConfig
  <2>1. relayed = {}
    BY <1>13 DEF Seed, InitConfig
  <2>2. relayed' \subseteq {h'}
    BY <1>13, <2>1 DEF Seed, InitConfig, BeginSeed
  <2>3. pc' = "seedOpen" /\ post' = NoHeight /\ h' \in Int
    BY <1>13 DEF Seed, InitConfig, BeginSeed, TypeOK, Height
  <2> QED
    BY <2>2, <2>3
<1>14. CASE HandleStop \/ HandleStart
  BY <1>14 DEF HandleStop, HandleStart, Stop, Start, loop, Resume
<1>15. CASE HandleSetHeightWrite
  BY <1>15 DEF HandleSetHeightWrite, SetHeightWrite, MutexOK
<1>16. CASE NewBlock \/ UNCHANGED vars
  BY <1>16 DEF NewBlock, vars, control, loop, Resume
<1>17. ~(AdvanceFails \/ SaveFails \/ ExitFails \/ SeedFails \/ HandleSetHeight
           \/ HandleSetHeightFails)
  BY DEF AdvanceFails, SaveFails, ExitFails, SeedFails, HandleSetHeight, HandleSetHeightFails
<1> QED
  BY <1>1, <1>2, <1>3, <1>4, <1>5, <1>6, <1>7, <1>8, <1>9, <1>10, <1>11, <1>12,
     <1>13, <1>14, <1>15, <1>16, <1>17
  DEF Next, Main, Handlers, Operator

LEMMA PositionNext ==
    TypeOK /\ TypeOK' /\ MutexOK /\ LedgerInv /\ PositionInv /\ [Next]_vars => PositionInv'
  BY HeaderNext, OnCourseNext DEF PositionInv, OnCourse

LEMMA PositionInit == Init => PositionInv
  BY DEF Init, PositionInv, OwnPosition, RunBelow, FileAbove, FileResumes, Collecting,
     Serving, Seeding

LEMMA LedgerInit == Init => LedgerInv
  BY OracleAssumption DEF Init, LedgerInv, Collecting, Cap, Down

LEMMA Positions == Spec => [](TypeOK /\ LedgerInv /\ PositionInv)
  BY Types, LedgerInit, LedgerNext, PositionInit, PositionNext, PTL DEF Spec

\* No header is sent twice: over crashes, failed calls, shutdowns and restarts,
\* an oracle nobody put astray only collects heights above what the contract has.
THEOREM BatchesNew == Spec => []BatchIsNew
<1>1. TypeOK /\ LedgerInv /\ PositionInv => BatchIsNew
  <2> SUFFICES ASSUME TypeOK, LedgerInv, PositionInv, ~strayed, NEW k \in DOMAIN blocks
               PROVE  /\ \A x \in relayed : x < blocks[k]
                      /\ k > 1 => blocks[k] = blocks[k - 1] + 1
    BY DEF BatchIsNew
  <2>1. k \in 1 .. Len(blocks) /\ Len(blocks) \in Nat /\ h \in Int /\ relayed \subseteq Int
    BY DEF TypeOK, Height
  <2>2. pc \in Serving
    BY <2>1 DEF TypeOK, LedgerInv
  <2> QED
    BY <2>1, <2>2 DEF PositionInv, RunBelow
<1> QED
  BY <1>1, Positions, PTL

\* The block limit leaves no height out and repeats none at the next start.
THEOREM CleanStop == Spec => []CleanStopResumes
<1>1. PositionInv => CleanStopResumes
  BY DEF PositionInv, FileResumes, CleanStopResumes
<1> QED
  BY <1>1, Positions, PTL

(***************************************************************************)
(* The oracle implements HeaderRelay.                                      *)
(***************************************************************************)
LEMMA CollectStep ==
    ASSUME TypeOK, PositionInv, ~strayed, GetBlockHeader
    PROVE  Contract!Collect
<1>1. /\ pc \in Serving /\ h \in Height /\ h \in Int /\ relayed \subseteq Int
      /\ Len(blocks) \in Nat /\ (blocks = <<>>) <=> (Len(blocks) = 0)
      /\ blocks' = Append(blocks, h) /\ UNCHANGED <<relayed, strayed>>
  BY DEF GetBlockHeader, TypeOK, Serving, Height
<1>2. \A x \in relayed : x < h
  BY <1>1 DEF PositionInv, RunBelow
<1>3. blocks # <<>> => h = blocks[Len(blocks)] + 1
  <2>1. ASSUME blocks # <<>> PROVE Len(blocks) \in 1 .. Len(blocks)
    BY <1>1, <2>1
  <2> QED
    BY <1>1, <2>1 DEF PositionInv, RunBelow
<1> QED
  BY <1>1, <1>2, <1>3 DEF Contract!Collect

LEMMA SeedStep ==
    ASSUME TypeOK, LedgerInv, ~strayed, ~strayed', Seed
    PROVE  Contract!Seed
<1>1. PICK n \in OperatorHeights \cup {tip} : relayed' = relayed \cup {n}
  BY DEF Seed
<1>2. relayed = {} /\ strayed' = strayed /\ blocks = <<>> /\ blocks' = blocks
  BY DEF Seed, BeginSeed, TypeOK, LedgerInv
<1>3. n \in Height /\ relayed' = {n}
  BY <1>1, <1>2, OracleAssumption, ControlAssumption DEF TypeOK, Height
<1> QED
  BY <1>2, <1>3 DEF Contract!Seed

\* What a step can do to the batch and to the contract.
BatchStep ==
    \/ UNCHANGED <<blocks, relayed>>
    \/ blocks' = <<>> /\ UNCHANGED relayed
    \/ blocks' = <<>> /\ relayed' = relayed \cup Range(blocks)

LEMMA BatchSteps ==
    ASSUME [Next]_vars
    PROVE  BatchStep \/ GetBlockHeader \/ Seed \/ SeedFails
<1>1. CASE Boot \/ InitConfig
  BY <1>1 DEF Boot, InitConfig, BeginSeed, BatchStep
<1>2. CASE Crash \/ ExitWrite \/ ExitFails \/ SeedWrite
  BY <1>2 DEF Crash, ExitWrite, ExitFails, SeedWrite, Exit, BatchStep
<1>3. CASE CallContract \/ CallContractFails
  BY <1>3 DEF CallContract, CallContractFails, SendBatch, BatchStep
<1>4. CASE NothingToSend \/ SaveWrite \/ SaveFails
  BY <1>4 DEF NothingToSend, SaveWrite, SaveFails, EndCycle, Exit, BatchStep
<1>5. CASE Advance \/ AdvanceWrite \/ AdvanceFails
  BY <1>5 DEF Advance, AdvanceWrite, AdvanceFails, CountBlock, loop, BatchStep
<1>6. CASE Handlers
  BY <1>6 DEF Handlers, HandleStop, HandleStart, HandleSetHeight,
              HandleSetHeightWrite, HandleSetHeightFails, loop, BatchStep
<1>7. CASE \/ CheckLimit \/ IsRunning \/ ReceiveWake \/ GetHeight \/ GetBlockHash
           \/ FetchFails \/ SaveOpen \/ ExitOpen \/ SeedOpen
  BY <1>7 DEF Goes, Opens, CheckLimit, IsRunning, ReceiveWake, GetHeight,
     GetBlockHash, FetchFails, SaveOpen, ExitOpen, SeedOpen, loop, BatchStep
<1>8. CASE NewBlock \/ UNCHANGED vars
  BY <1>8 DEF NewBlock, vars, loop, BatchStep
<1> QED
  BY <1>1, <1>2, <1>3, <1>4, <1>5, <1>6, <1>7, <1>8 DEF Next, Main, Operator

LEMMA RelayStep ==
    TypeOK /\ TypeOK' /\ LedgerInv /\ PositionInv /\ [Next]_vars
        => [Contract!Next]_(Contract!vars)
<1> SUFFICES ASSUME TypeOK, TypeOK', LedgerInv, PositionInv, [Next]_vars
             PROVE  Contract!Next \/ UNCHANGED <<blocks, relayed, strayed>>
  BY DEF Contract!vars
<1>1. CASE strayed'
  <2>1. relayed \subseteq relayed'
    BY BatchSteps DEF BatchStep, GetBlockHeader, Seed, SeedFails
  <2> QED
    BY <1>1, <2>1 DEF Contract!Next, Contract!Stray, TypeOK
<1>2. CASE ~strayed'
  <2>1. ~strayed /\ strayed' = strayed
    BY <1>2, StrayedStays DEF TypeOK
  <2>2. CASE GetBlockHeader
    BY <2>1, <2>2, CollectStep DEF Contract!Next
  <2>3. CASE Seed
    BY <1>2, <2>1, <2>3, SeedStep DEF Contract!Next
  <2>4. CASE BatchStep
    BY <2>1, <2>4 DEF BatchStep, Contract!Next, Contract!Submit, Contract!Lose, Range, Contract!Range
  <2>5. ~SeedFails
    BY <1>2 DEF SeedFails
  <2> QED
    BY <2>2, <2>3, <2>4, <2>5, BatchSteps
<1> QED
  BY <1>1, <1>2

\* The oracle, its operator, its file and its crashes together implement the
\* relay that HeaderRelay specifies, for every chain, batch size and block limit.
THEOREM ImplementsHeaderRelay == Spec => RelaysInOrder
<1>1. Init => Contract!Init
  BY DEF Init, Contract!Init
<1> QED
  BY <1>1, Positions, RelayStep, PTL DEF Spec, RelaysInOrder, Contract!Spec

(***************************************************************************)
(* No gaps while nothing fails.  The position is the height after the last *)
(* one taken, and a process that ended saved that one.                     *)
(***************************************************************************)
GapInv ==
    ~strayed =>
        /\ \A x, y \in Taken : x .. y \subseteq Taken
        /\ pc \in Serving /\ Taken # {} => h - 1 \in Taken
        /\ pc \in Collecting \cup {"call"} /\ relayed # {} /\ blocks = <<>>
               => lastHeight # NoHeight
        /\ pc \in Down /\ relayed # {} => lastHeight \in relayed
        /\ pc \in Seeding /\ relayed # {} => h \in relayed
        /\ pc \notin {"exitOpen", "exitWrite"}

LEMMA GapNext ==
    ASSUME Faults = {}, TypeOK, TypeOK', MutexOK, LedgerInv, PositionInv, GapInv, [Next]_vars
    PROVE  GapInv'
<1> SUFFICES ASSUME ~strayed' PROVE GapInv'
  BY DEF GapInv
<1>0. /\ ~strayed /\ OnCourse
      /\ h \in Int /\ lastHeight \in Int \cup {NoHeight} /\ NoHeight \notin Int
      /\ relayed \subseteq Int /\ blocks \in Seq(Height) /\ Height \subseteq Int
      /\ DOMAIN blocks = 1 .. Len(blocks) /\ Len(blocks) \in Nat
      /\ (blocks = <<>>) <=> (Range(blocks) = {})
      /\ MaxU32 \in Nat
  <2>1. (blocks = <<>>) <=> (Range(blocks) = {})
    <3>1. /\ DOMAIN blocks = 1 .. Len(blocks) /\ Len(blocks) \in Nat
          /\ (blocks = <<>>) <=> (Len(blocks) = 0)
      BY DEF TypeOK
    <3>2. CASE Len(blocks) = 0
      BY <3>1, <3>2 DEF Range
    <3>3. CASE Len(blocks) # 0
      <4>1. 1 \in DOMAIN blocks
        BY <3>1, <3>3
      <4> QED
        BY <3>1, <3>3, <4>1 DEF Range
    <3> QED
      BY <3>2, <3>3
  <2> QED
    BY <2>1, StrayedStays, ControlAssumption
    DEF TypeOK, ControlTypeOK, Height, PositionInv, OnCourse
<1> USE <1>0 DEF GapInv, Taken, Down, Seeding, Serving, Collecting
<1>1. CASE Boot
  <2>1. /\ blocks' = <<>> /\ blocks = <<>> /\ relayed' = relayed
        /\ lastHeight' = lastHeight /\ pc' = "check" /\ h' = Resume
    BY <1>1 DEF Boot, LedgerInv
  <2>2. relayed # {} => lastHeight # NoHeight /\ Resume = lastHeight + 1
    BY <1>1 DEF Boot, FileStrays, Resume, Inc32
  <2>3. Range(blocks') = {}
    BY <2>1
  <2> QED
    BY <1>1, <2>1, <2>2, <2>3 DEF Boot
<1>2. CASE CheckLimit \/ IsRunning \/ ReceiveWake \/ GetBlockHash
  BY <1>2 DEF Goes, CheckLimit, IsRunning, ReceiveWake, GetBlockHash, loop
<1>3. CASE GetHeight
  BY <1>3 DEF GetHeight, OnCourse, OwnPosition
<1>4. CASE GetBlockHeader
  <2>1. h' = h + 1
    BY <1>4, OracleAssumption DEF GetBlockHeader, PositionInv, Inc32, TypeOK, Height
  <2>2. Range(blocks') = Range(blocks) \cup {h}
    <3>1. /\ DOMAIN blocks' = 1 .. Len(blocks) + 1
          /\ \A k \in 1 .. Len(blocks) : blocks'[k] = blocks[k]
          /\ blocks'[Len(blocks) + 1] = h
      BY <1>4, LenProperties, AppendProperties DEF GetBlockHeader, TypeOK
    <3> QED
      BY <3>1 DEF Range
  <2>3. \A x \in Taken : x < h
    BY <1>4 DEF GetBlockHeader, OnCourse, RunBelow, Range
  <2>4. Taken' = Taken \cup {h}
    BY <1>4, <2>2 DEF GetBlockHeader
  <2>5. Taken # {} => h - 1 \in Taken
    BY <1>4 DEF GetBlockHeader
  <2>6. \A x, y \in Taken' : x .. y \subseteq Taken'
    <3> SUFFICES ASSUME NEW x \in Taken', NEW y \in Taken', NEW z \in x .. y
                 PROVE  z \in Taken'
      OBVIOUS
    <3>a. \A u, v \in Taken : u .. v \subseteq Taken
      OBVIOUS
    <3>b. Taken \subseteq Int
      BY RangeType
    <3> HIDE DEF Taken, GapInv
    <3>c. x \in Taken \cup {h} /\ y \in Taken \cup {h}
      BY <2>4
    <3>0. /\ x \in Taken \cup {h} /\ y \in Taken \cup {h} /\ Taken \subseteq Int
          /\ x \in Int /\ y \in Int /\ z \in Int /\ x <= z /\ z <= y
          /\ \A u, v \in Taken : u .. v \subseteq Taken
      BY <3>a, <3>b, <3>c
    <3>1. CASE y \in Taken
      BY <2>3, <2>4, <3>0, <3>1
    <3>2. CASE y = h /\ z = h
      BY <2>4, <3>2
    <3>3. CASE y = h /\ z # h
      <4>1. x \in Taken /\ h - 1 \in Taken
        BY <2>5, <3>0, <3>3
      <4>2. z \in x .. h - 1
        BY <3>0, <3>3
      <4> QED
        BY <2>4, <3>0, <4>1, <4>2
    <3> QED
      BY <3>0, <3>1, <3>2, <3>3
  <2> QED
    BY <1>4, <2>1, <2>2, <2>4, <2>6 DEF GetBlockHeader
<1>5. CASE Advance \/ AdvanceWrite
  <2>1. blocks # <<>>
    <3>1. Len(blocks) = blocksInTx + 1 /\ blocksInTx \in Nat
      BY <1>5 DEF Advance, AdvanceWrite, LedgerInv, TypeOK
    <3> QED
      BY <3>1
  <2>2. Taken' = Taken /\ UNCHANGED <<h, blocks, relayed>>
    BY <1>5 DEF Advance, AdvanceWrite, CountBlock, loop
  <2>3. pc \in Serving /\ pc' \in Serving \ {"exitOpen", "exitWrite"}
    BY <1>5 DEF Advance, AdvanceWrite, CountBlock
  <2> QED
    BY <2>1, <2>2, <2>3
<1>6. CASE CallContract
  <2>1. Taken' = Taken
    BY <1>6 DEF CallContract, SendBatch, Range
  <2> QED
    BY <1>6, <2>1 DEF CallContract, SendBatch
<1>7. CASE NothingToSend
  <2>1. blocks = <<>> /\ blocks' = <<>> /\ Taken' = Taken /\ h' = h /\ Taken = relayed
    BY <1>7 DEF NothingToSend, EndCycle, Exit
  <2>2. relayed # {} => lastHeight = h - 1
    BY <1>7 DEF NothingToSend, OnCourse, FileResumes, RunBelow, Resume, Inc32, TypeOK, Height
  <2> QED
    BY <1>7, <2>1, <2>2 DEF NothingToSend, EndCycle, Exit
<1>8. CASE SaveOpen \/ SeedOpen \/ ExitOpen
  <2>1. Taken' = Taken /\ UNCHANGED <<h, blocks, relayed>>
    BY <1>8 DEF Opens, SaveOpen, SeedOpen, ExitOpen, loop
  <2> QED
    BY <1>8, <2>1 DEF Opens, SaveOpen, SeedOpen, ExitOpen
<1>9. CASE SaveWrite
  <2>1. blocks = <<>> /\ blocks' = <<>> /\ Taken' = Taken /\ h' = h /\ Taken = relayed
    BY <1>9 DEF SaveWrite, EndCycle, Exit, LedgerInv
  <2>2. relayed # {} => lastHeight' = h - 1
    BY <1>9 DEF SaveWrite, WriteFile, OnCourse, FileAbove, RunBelow, Dec32, TypeOK, Height
  <2> QED
    BY <1>9, <2>1, <2>2 DEF SaveWrite, EndCycle, Exit
<1>10. CASE SeedWrite
  <2>1. lastHeight' = h
    BY <1>10 DEF SeedWrite, WriteFile, OnCourse, FileAbove
  <2> QED
    BY <1>10, <2>1 DEF SeedWrite, Exit, LedgerInv
<1>11. CASE Seed \/ InitConfig
  <2>1. relayed = {} /\ blocks = <<>> /\ blocks' = <<>> /\ pc' = "seedOpen"
    BY <1>11 DEF Seed, InitConfig, BeginSeed, LedgerInv
  <2>2. Taken' = {} \/ Taken' = {h'}
    BY <1>11, <2>1 DEF Seed, InitConfig, BeginSeed
  <2>3. h' \in Int /\ relayed' = Taken'
    BY <1>11, <2>1 DEF TypeOK
  <2> QED
    BY <2>1, <2>2, <2>3
<1>12. CASE HandleStop \/ HandleStart
  BY <1>12 DEF HandleStop, HandleStart, Stop, Start, loop
<1>13. CASE HandleSetHeightWrite
  BY <1>13 DEF HandleSetHeightWrite, SetHeightWrite, MutexOK, OnCourse, OwnPosition
<1>14. CASE NewBlock \/ UNCHANGED vars
  <2>1. Taken' = Taken /\ UNCHANGED <<pc, h, blocks, relayed, lastHeight>>
    BY <1>14 DEF NewBlock, vars, loop
  <2> QED
    BY <2>1
<1>15. ~(Crash \/ FetchFails \/ CallContractFails)
  BY DEF Goes, Crash, FetchFails, CallContractFails
<1>16. ~(AdvanceFails \/ SaveFails \/ ExitFails \/ SeedFails \/ HandleSetHeight
           \/ HandleSetHeightFails)
  BY DEF AdvanceFails, SaveFails, ExitFails, SeedFails, HandleSetHeight, HandleSetHeightFails
<1>17. CASE ExitWrite
  BY <1>17 DEF ExitWrite
<1> QED
  BY <1>1, <1>2, <1>3, <1>4, <1>5, <1>6, <1>7, <1>8, <1>9, <1>10, <1>11, <1>12,
     <1>13, <1>14, <1>15, <1>16, <1>17
  DEF Next, Main, Handlers, Operator

LEMMA GapInit == Init => GapInv
  BY DEF Init, GapInv, Taken, Range, Down, Seeding, Serving, Collecting

\* While the network, the contract calls, the file and the process do not fail,
\* no height is left out, over any number of stops, block limits and restarts.
THEOREM NoGaps ==
    ASSUME Faults = {}
    PROVE  Spec => []GapFree
<1>1. GapInv => GapFree
  BY DEF GapInv, GapFree
<1>2. TypeOK /\ TypeOK' /\ MutexOK /\ LedgerInv /\ PositionInv /\ GapInv /\ [Next]_vars
         => GapInv'
  BY GapNext
<1> QED
  BY <1>1, <1>2, Types, Positions, GapInit, PTL DEF Spec

=============================================================================
