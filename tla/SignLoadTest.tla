---------------------------- MODULE SignLoadTest ----------------------------
(***************************************************************************)
(* sign-load-test: n contract calls, one after the other, that ask for the *)
(* signature of a counter, of the one after it, and so on.  Several run in *)
(* one directory, with the same scriptInputs.json, beside other programs,  *)
(* of which `lite-btc-oracle -init` is the one that writes the file even   *)
(* when it is there.                                                       *)
(*                                                                         *)
(* A step ends at every file operation and at every call.  The payload is  *)
(* its counter, whatever -format; an unknown -format, which ends the       *)
(* program at once, and the three seconds between two calls are left out.  *)
(***************************************************************************)
EXTENDS InputConfig, Sequences

CONSTANTS
    LoadTests, Inits,  \* processes of sign-load-test, of lite-btc-oracle -init
    Key,               \* the settings a call is signed with
    InitFields,        \* the settings that lite-btc-oracle knows
    MaxCounter,        \* 2^256 - 1, the largest counter of 32 bytes
    MaxCalls,          \* bound: -n of each process
    Outcomes,          \* what can become of a broadcast
    Contract, NoContract

Procs == LoadTests \cup Inits

ASSUME SignLoadTestAssumption ==
    /\ LoadTests \cap Inits = {}
    /\ Key \in Fields /\ InitFields \subseteq Fields
    /\ MaxCounter \in Nat /\ MaxCalls \in [Procs -> Nat]
    /\ Contract # NoContract
    /\ Outcomes \subseteq {"accepted", "rejected", "unknown"}

VARIABLES
    pc,        \* the next statement of each process, or how it ended
    init,      \* -init
    n, first,  \* -n, and the counter that initCounter gives
    config,    \* the settings that LoadConfig filled in
    i,         \* the loop counter: calls that returned without an error
    signed     \* the counters of each process that the contract was given

locals == <<init, n, first, config, i>>
vars == <<file, pc, locals, signed>>

Over == {"off", "done", "failed"}
Loading == {"stat", "open", "write", "saveOpen", "saveWrite"}

TypeOK ==
    /\ FileTypeOK
    /\ pc \in [Procs -> Over \cup Loading \cup {"read", "call"}]
    /\ init \in [Procs -> BOOLEAN]
    /\ n \in [Procs -> Nat]
    /\ first \in [Procs -> 0 .. MaxCounter]
    /\ config \in [Procs -> SUBSET Fields]
    /\ i \in [Procs -> Nat]
    /\ \A p \in Procs : i[p] <= n[p] /\ n[p] <= MaxCalls[p]
    /\ signed \in [Procs -> Seq(0 .. MaxCounter)]

Init ==
    /\ file \in {Absent, [fields |-> Fields, valid |-> TRUE]}
    /\ pc = [p \in Procs |-> "off"]
    /\ init = [p \in Procs |-> p \in Inits]
    /\ n = [p \in Procs |-> 0] /\ first = n /\ i = n
    /\ config = [p \in Procs |-> {}]
    /\ signed = [p \in Procs |-> <<>>]

Transition(p, from, to) ==
    /\ pc[p] = from
    /\ pc' = [pc EXCEPT ![p] = to]

Goes(p, from, to) == Transition(p, from, to) /\ UNCHANGED <<file, locals, signed>>

(***************************************************************************)
(* The start of main.  -n may be left out with -init.                      *)
(***************************************************************************)
Launch(p) ==
    /\ pc[p] \in Over
    /\ pc' = [pc EXCEPT ![p] = "stat"]
    /\ \E withInit \in BOOLEAN, calls \in 0 .. MaxCalls[p], counter \in 0 .. MaxCounter :
          /\ p \in Inits => withInit
          /\ calls = 0 => counter = 0
          /\ ~withInit => calls > 0
          /\ init' = [init EXCEPT ![p] = withInit]
          /\ n' = [n EXCEPT ![p] = calls]
          /\ first' = [first EXCEPT ![p] = counter]
    /\ config' = [config EXCEPT ![p] = {}]
    /\ i' = [i EXCEPT ![p] = 0]
    /\ signed' = [signed EXCEPT ![p] = <<>>]
    /\ UNCHANGED file

(***************************************************************************)
(* LoadConfig.                                                             *)
(***************************************************************************)
\* Mutation: whatever cannot be used is scaffolded again.
StatUsable(p) == Goes(p, "stat", IF Usable THEN "read" ELSE "open")

Stat(p) == Goes(p, "stat", IF Exists THEN "read" ELSE "open")

\* lite-btc-oracle ignores any error of LoadConfig and goes on to SaveConfig;
\* sign-load-test ends, and with -init it says that the file was created.
LoadFails(p) ==
    IF p \in Inits THEN "saveOpen" ELSE IF init[p] THEN "off" ELSE "failed"

Open(p) ==
    /\ \/ Transition(p, "open", "write")
       \/ Transition(p, "saveOpen", "saveWrite")
    /\ OpenFile
    /\ UNCHANGED <<locals, signed>>

Write(p) ==
    /\ \/ /\ Transition(p, "write", IF p \in Inits THEN "saveOpen" ELSE "off")
          /\ WriteFile({})
       \/ /\ Transition(p, "saveWrite", "off")
          /\ WriteFile(config[p])
    /\ UNCHANGED <<locals, signed>>

WriteFails(p) ==
    \/ Goes(p, "open", LoadFails(p))
    \/ Goes(p, "write", LoadFails(p))
    \/ Goes(p, "saveOpen", "off")
    \/ Goes(p, "saveWrite", "off")

Read(p) ==
    /\ Readable
    /\ Transition(p, "read", IF p \in Inits THEN "saveOpen" ELSE "call")
    /\ config' = [config EXCEPT ![p] = file.fields \cap
                    IF p \in Inits THEN InitFields ELSE {Key}]
    /\ UNCHANGED <<file, init, n, first, i, signed>>

ReadFails(p) ==
    /\ ~Readable
    /\ Goes(p, "read", LoadFails(p))

\* A -contractID of the wrong form, a negative -start other than -1, or no random
\* bytes for it: found out only now, after the file was read or scaffolded.
ArgumentsFail(p) ==
    /\ p \in LoadTests
    /\ Readable
    /\ Goes(p, "read", "failed")

(***************************************************************************)
(* The loop of sign-load-test.                                             *)
(***************************************************************************)
Execute(state, op) ==
    {[state EXCEPT ![op.payload.by] = Append(@, op.payload.counter)]}

Vsc == INSTANCE CallContract WITH Apply <- Execute, HiveContract <- Contract

Counter(p) == first[p] + i[p]

Send(p) == Vsc!CallContract(signed, "signKey", [by |-> p, counter |-> Counter(p)], <<5000>>)

\* Mutation: an error is printed and the loop goes on.
CallAndGoOn(p) ==
    /\ i[p] < n[p] /\ Counter(p) <= MaxCounter /\ Key \in config[p]
    /\ Transition(p, "call", "call")
    /\ \E reply \in Send(p) : signed' = reply.state
    /\ i' = [i EXCEPT ![p] = @ + 1]
    /\ UNCHANGED <<file, init, n, first, config>>

\* Mutation: a counter that needs more than 32 bytes gets them.
CallAnyLength(p) ==
    /\ i[p] < n[p] /\ Key \in config[p]
    /\ \E reply \in Send(p) :
          /\ signed' = reply.state
          /\ Transition(p, "call", IF reply.err THEN "failed" ELSE "call")
          /\ i' = [i EXCEPT ![p] = IF reply.err THEN @ ELSE @ + 1]
    /\ UNCHANGED <<file, init, n, first, config>>

Call(p) ==
    /\ i[p] < n[p] /\ Counter(p) <= MaxCounter /\ Key \in config[p]
    /\ \E reply \in Send(p) :
          /\ signed' = reply.state
          /\ Transition(p, "call", IF reply.err THEN "failed" ELSE "call")
          /\ i' = [i EXCEPT ![p] = IF reply.err THEN @ ELSE @ + 1]
    /\ UNCHANGED <<file, init, n, first, config>>

\* FillBytes panics on a counter that does not fit; without a key, signing fails.
CallFails(p) ==
    /\ i[p] < n[p]
    /\ Counter(p) > MaxCounter \/ Key \notin config[p]
    /\ Goes(p, "call", "failed")

\* Mutation: main starts over after its last call.
Repeat(p) ==
    /\ i[p] = n[p]
    /\ Goes(p, "call", "stat")

Finish(p) ==
    /\ i[p] = n[p]
    /\ Goes(p, "call", "done")

(***************************************************************************)
(* The user, who fills in the file when no program is about to write it,   *)
(* and may get the JSON wrong; and the death of a process.                 *)
(***************************************************************************)
FillIn ==
    /\ \A p \in Procs : pc[p] \notin Loading
    /\ \E valid \in BOOLEAN : file' = [fields |-> Fields, valid |-> valid]
    /\ UNCHANGED <<pc, locals, signed>>

Crash(p) ==
    /\ pc[p] \notin Over
    /\ pc' = [pc EXCEPT ![p] = "off"]
    /\ \/ UNCHANGED signed
       \/ /\ pc[p] = "call" /\ i[p] < n[p] /\ Counter(p) <= MaxCounter /\ Key \in config[p]
          /\ \E reply \in Send(p) : signed' = reply.state
    /\ UNCHANGED <<file, locals>>

-----------------------------------------------------------------------------
Step(p) ==
    \/ Stat(p) \/ Open(p) \/ Write(p) \/ WriteFails(p) \/ Read(p) \/ ReadFails(p)
    \/ ArgumentsFail(p) \/ Call(p) \/ CallFails(p) \/ Finish(p)

Next == FillIn \/ \E p \in Procs : Launch(p) \/ Step(p) \/ Crash(p)

Spec == Init /\ [][Next]_vars

\* A process is one goroutine, whose requests and file operations return.
FairSpec == Spec /\ \A p \in Procs : WF_vars(Step(p))

-----------------------------------------------------------------------------
\* Over lost answers, rejected calls, crashes and overflowing counters, what a
\* run had signed is its first counters in order, none left out and none twice:
\* as many as returned without an error, and perhaps the one whose call failed or
\* died.  A run that says it succeeded had all of them signed.
CountersInOrder ==
    \A p \in LoadTests :
        /\ \A k \in DOMAIN signed[p] : signed[p][k] = first[p] + k - 1
        /\ Len(signed[p]) \in
              IF pc[p] \in {"failed", "off"} THEN {i[p], i[p] + 1} ELSE {i[p]}
        /\ pc[p] = "done" => i[p] = n[p]

\* Two programs that both found no file, a crash or a failed write never cost the
\* user a setting he has filled in: only lite-btc-oracle -init, which writes the
\* file anew whatever it holds, takes settings out of it.
SettingsKept ==
    [][Settings(file) \subseteq Settings(file') \/
        \E p \in Inits : pc[p] \in {"saveOpen", "saveWrite"}]_vars

\* A program that was started ends, whatever the others do with the file.
Ends == \A p \in Procs : pc[p] = "stat" ~> pc[p] \in Over

=============================================================================
