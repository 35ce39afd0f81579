---------------------------- MODULE CallContract ----------------------------
(***************************************************************************)
(* packages/callcontract: contract calls wrapped as vsc.call operations,   *)
(* signed and broadcast as one Hive transaction.  CallContract sends one   *)
(* call, CallContractMulti several that are applied together.              *)
(*                                                                         *)
(* The operators return every result a broadcast can have: the state of    *)
(* the contracts afterwards and whether the caller is told of an error.    *)
(* Keys, the net ID, the caller and JSON are left out.                     *)
(***************************************************************************)
EXTENDS Integers, SequencesExt

CONSTANTS
    Apply(_, _),   \* Apply(state, op): the states op can lead to, {} if refused
    NoContract,    \* the empty contract ID
    HiveContract,  \* HiveConfig.ContractID
    Outcomes       \* what can become of a broadcast

DefaultRC == 1000

(***************************************************************************)
(* Hive takes a transaction or not, whatever its calls come to: the        *)
(* contracts run later, in the order of the calls, all or none.  Under     *)
(* "unknown" the transaction was taken and the answer was lost.            *)
(***************************************************************************)
Applied(state, ops) ==
    LET after[k \in 0 .. Len(ops)] ==
            IF k = 0 THEN {state} ELSE UNION {Apply(s, ops[k]) : s \in after[k - 1]}
    IN  IF after[Len(ops)] = {} THEN {state} ELSE after[Len(ops)]

Broadcast(state, ops) ==
    UNION {{[state |-> s, err |-> o # "accepted"] :
                s \in IF o = "rejected" THEN {state} ELSE Applied(state, ops)} : o \in Outcomes}

\* A call is a record with a contract, an action, a payload, intents and rc.
Wrapper(call, contract, rc) ==
    [contract |-> contract, action |-> call.action, payload |-> call.payload,
     intents |-> call.intents, rc |-> rc]

\* The limit is optional: a sequence of none or one.  A limit of 0 is sent as 0.
CallContractWithIntents(state, action, payload, intents, limit) ==
    Broadcast(state, << [contract |-> HiveContract, action |-> action,
                         payload |-> payload, intents |-> intents,
                         rc |-> IF limit = <<>> THEN DefaultRC ELSE limit[1]] >>)

CallContract(state, action, payload, limit) ==
    CallContractWithIntents(state, action, payload, {}, limit)

\* A call without a contract goes to HiveConfig's, one without a limit gets 1000.
WithDefaults(call) ==
    Wrapper(call,
            IF call.contract = NoContract THEN HiveContract ELSE call.contract,
            IF call.rc = 0 THEN DefaultRC ELSE call.rc)

Ops(calls) == [k \in DOMAIN calls |-> WithDefaults(calls[k])]

\* Mutation: a transaction for each call, up to the first error.
OneTransactionPerCall(state, calls) ==
    LET Send(results, op) ==
            UNION {IF r.err THEN {r} ELSE Broadcast(r.state, <<op>>) : r \in results}
    IN  FoldLeft(Send, {[state |-> state, err |-> FALSE]}, Ops(calls))

CallContractMulti(state, calls) ==
    IF calls = <<>> THEN {[state |-> state, err |-> TRUE]}
    ELSE Broadcast(state, Ops(calls))

=============================================================================
