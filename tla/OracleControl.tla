--------------------------- MODULE OracleControl ---------------------------
(***************************************************************************)
(* The state that the two kinds of goroutine of lite-btc-oracle share: the *)
(* OracleControl object (a mutex, the running flag, the next block height  *)
(* and the wake channel) and the state file last-height/last_height, which *)
(* outlives the process.  LiteBtcOracle composes these operations with the *)
(* main loop and the HTTP handlers of the control server.                  *)
(*                                                                         *)
(* A critical section with no I/O in it is one step.  SetHeight does I/O   *)
(* under the mutex, so it is two: os.WriteFile first opens the file with   *)
(* O_TRUNC, which empties it, and then writes the numeral.                 *)
(***************************************************************************)
EXTENDS Integers

CONSTANTS
    MaxU32,     \* largest uint32; a small number in the instances
    Overwrite,  \* Overwrite[old, new]: what the file says once the numeral of
                \* new is written over the first bytes of the numeral of old
    NoHeight,   \* getLastHeight fails: file missing, empty or not a number
    Free,       \* the mutex is not held
    Faults      \* the failures an instance allows

Height == 0 .. MaxU32
FaultKinds == {"fetch", "call", "crash", "disk"}

ASSUME ControlAssumption ==
    /\ MaxU32 \in Nat
    /\ NoHeight \notin Int
    /\ Overwrite \in [Height \X Height -> Height]
    /\ Free \notin {"main", "handler"}
    /\ Faults \subseteq FaultKinds

VARIABLES
    mu,           \* the goroutine inside SetHeight, or Free
    running,      \* OracleControl.running
    blockHeight,  \* OracleControl.blockHeight, the next height to fetch
    wake,         \* tokens in the wake channel, whose capacity is 1
    lastHeight    \* what getLastHeight would read from the state file

control == <<mu, running, blockHeight, wake>>

\* uint32 arithmetic of blockHeight++, height + 1 and blockHeight - 1
Inc32(n) == IF n = MaxU32 THEN 0 ELSE n + 1
Dec32(n) == IF n = 0 THEN MaxU32 ELSE n - 1

ControlTypeOK ==
    /\ mu \in {Free, "main", "handler"}
    /\ running \in BOOLEAN
    /\ blockHeight \in Height
    /\ wake \in {0, 1}
    /\ lastHeight \in Height \cup {NoHeight}

(***************************************************************************)
(* The state file.                                                         *)
(***************************************************************************)
OpenFile == lastHeight' = NoHeight

\* Another writer may have filled the file since this one truncated it: the
\* write starts at offset 0 and leaves the tail of a longer numeral in place.
WriteFile(n) ==
    lastHeight' = IF lastHeight = NoHeight THEN n ELSE Overwrite[lastHeight, n]

(***************************************************************************)
(* The methods of OracleControl.                                           *)
(***************************************************************************)
NewOracleControl(start) ==
    /\ running' = TRUE
    /\ blockHeight' = start
    /\ wake' = 0
    /\ mu' = Free

Stop ==
    /\ mu = Free
    /\ running' = FALSE
    /\ UNCHANGED <<mu, blockHeight, wake, lastHeight>>

\* Two wrong versions of Start, for mutation: without the send, and with a
\* channel that keeps every token.
StartWithoutSend ==
    /\ mu = Free
    /\ running' = TRUE
    /\ UNCHANGED <<mu, blockHeight, wake, lastHeight>>

StartQueueing ==
    /\ mu = Free
    /\ running' = TRUE
    /\ wake' = wake + 1
    /\ UNCHANGED <<mu, blockHeight, lastHeight>>

\* The send has a default branch: a token already in the channel stays alone.
Start ==
    /\ mu = Free
    /\ running' = TRUE
    /\ wake' = 1
    /\ UNCHANGED <<mu, blockHeight, lastHeight>>

SetHeightOpen(self, n) ==
    /\ mu = Free
    /\ mu' = self
    /\ blockHeight' = n
    /\ OpenFile
    /\ UNCHANGED <<running, wake>>

SetHeightWrite(self, n) ==
    /\ mu = self
    /\ mu' = Free
    /\ WriteFile(n)
    /\ UNCHANGED <<running, blockHeight, wake>>

\* setLastHeight's error is dropped by SetHeight.  Either the open failed and
\* the file is as it was, or the write failed and the file stays empty.
SetHeightOpenFails(n) ==
    /\ "disk" \in Faults
    /\ mu = Free
    /\ blockHeight' = n
    /\ UNCHANGED <<mu, running, wake, lastHeight>>

SetHeightWriteFails(self) ==
    /\ "disk" \in Faults
    /\ mu = self
    /\ mu' = Free
    /\ UNCHANGED <<running, blockHeight, wake, lastHeight>>

=============================================================================
