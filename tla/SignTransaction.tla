-------------------------- MODULE SignTransaction --------------------------
(***************************************************************************)
(* sign-customjson: one run of the tool, from its arguments to its exit.   *)
(* In operations mode the Hive endpoints are asked, one after the other,   *)
(* for the wire bytes of the transaction; what they answered is signed on  *)
(* the device, perhaps written to a file, and the signed transaction is    *)
(* offered to the endpoints, one after the other, until one takes it.  In  *)
(* custom_json mode hivego serializes and broadcasts.                      *)
(*                                                                         *)
(* Bytes are values; Right is the serialization of the transaction that is *)
(* sent, which a node computes itself when it is offered the transaction:  *)
(* it accepts while the transaction has not expired and only if the        *)
(* signature is over Right.                                                *)
(***************************************************************************)
EXTENDS Integers, FiniteSets

CONSTANTS
    MaxEndpoints,  \* bound: endpoints of -api
    Bytes,         \* hex strings an endpoint may answer
    Right,         \* the transaction's own serialization
    Marked,        \* bytes that do not end with an empty signature count, or
                   \* are no bytes at all
    NoBytes,       \* the empty string
    NoAnswer,      \* the request failed
    None           \* not yet

ASSUME SignAssumption ==
    /\ MaxEndpoints \in Nat \ {0}
    /\ Right \in Bytes /\ Marked \subseteq Bytes /\ NoBytes \in Bytes
    /\ Right \notin Marked /\ Right # NoBytes
    /\ NoAnswer \notin Bytes /\ None \notin Bytes /\ None # NoAnswer

VARIABLES
    args,      \* the mode, the number of endpoints, the flags, the forms of -ops
    pc,        \* the call of main or runOperations that comes next
    endpoint,  \* loop index over the endpoints
    answer,    \* what each endpoint answered to get_transaction_hex
    agreed,    \* serializeTxViaNode's agreed
    signed,    \* the bytes whose digest the device signed
    saved,     \* the file of -out holds the signed transaction
    expired,   \* the chain's time has passed the expiration
    applied    \* an endpoint has accepted the transaction for the chain

vars == <<args, pc, endpoint, answer, agreed, signed, saved, expired, applied>>

Forms == {"typed", "legacy", "other"}

Args ==
    [ops : BOOLEAN, endpoints : 1 .. MaxEndpoints, noBroadcast : BOOLEAN,
     out : BOOLEAN, forms : SUBSET Forms]

Endpoints == 1 .. args.endpoints

TypeOK ==
    /\ args \in Args
    /\ pc \in {"read", "tapos", "serialize", "sign", "emit", "broadcast", "ok", "failed"}
    /\ endpoint \in 1 .. args.endpoints + 1
    /\ answer \in [Endpoints -> Bytes \cup {NoAnswer, None}]
    /\ agreed \in Bytes
    /\ signed \in Bytes \cup {None}
    /\ {saved, expired, applied} \subseteq BOOLEAN

Init ==
    /\ args \in Args
    /\ pc = "read"
    /\ endpoint = 1
    /\ answer = [e \in Endpoints |-> None]
    /\ agreed = NoBytes
    /\ signed = None
    /\ saved = FALSE /\ expired = FALSE /\ applied = FALSE

Goto(from, to) ==
    /\ pc = from
    /\ pc' = to

\* readOperations and apiForOperations: at least one operation, all of them in
\* the same one of the two encodings.  Reading a payload may fail in both modes.
Read ==
    /\ args.ops => args.forms = {"typed"} \/ args.forms = {"legacy"}
    /\ Goto("read", "tapos")
    /\ UNCHANGED <<args, endpoint, answer, agreed, signed, saved, expired, applied>>

Fail(from) ==
    /\ Goto(from, "failed")
    /\ UNCHANGED <<args, endpoint, answer, agreed, signed, saved, expired, applied>>

ReadFails == Fail("read")

FetchTapos ==
    /\ Goto("tapos", "serialize")
    /\ UNCHANGED <<args, endpoint, answer, agreed, signed, saved, expired, applied>>

FetchTaposFails == Fail("tapos")

(***************************************************************************)
(* Serialization.                                                          *)
(***************************************************************************)
\* hivego serializes what it will broadcast.
SerializeTx ==
    /\ ~args.ops
    /\ Goto("serialize", "sign")
    /\ agreed' = Right
    /\ UNCHANGED <<args, endpoint, answer, signed, saved, expired, applied>>

SerializeTxFails == ~args.ops /\ Fail("serialize")

\* Mutation: an answer that differs replaces the one before it.
LastAnswerWins(bytes) ==
    /\ agreed' = bytes
    /\ endpoint' = endpoint + 1
    /\ UNCHANGED pc

\* The body of the loop for an endpoint that answered.
Compare(bytes) ==
    \/ /\ agreed \in {NoBytes, bytes}
       /\ agreed' = bytes
       /\ endpoint' = endpoint + 1
       /\ UNCHANGED pc
    \/ /\ agreed \notin {NoBytes, bytes}
       /\ pc' = "failed"
       /\ UNCHANGED <<agreed, endpoint>>

GetTransactionHex ==
    /\ pc = "serialize"
    /\ args.ops /\ endpoint \in Endpoints
    /\ \E bytes \in Bytes :
          /\ answer' = [answer EXCEPT ![endpoint] = bytes]
          /\ Compare(bytes)
    /\ UNCHANGED <<args, signed, saved, expired, applied>>

\* Mutation: after an endpoint that fails all are asked again.
StartOver ==
    /\ pc = "serialize"
    /\ args.ops /\ endpoint \in Endpoints
    /\ answer' = [answer EXCEPT ![endpoint] = NoAnswer]
    /\ endpoint' = 1
    /\ UNCHANGED <<args, pc, agreed, signed, saved, expired, applied>>

\* Mutation: the loop's index starts at zero again.
SerializedFromZero ==
    /\ pc = "serialize"
    /\ args.ops /\ endpoint \notin Endpoints
    /\ pc' = IF agreed = NoBytes \/ agreed \in Marked THEN "failed" ELSE "sign"
    /\ endpoint' = 0
    /\ UNCHANGED <<args, answer, agreed, signed, saved, expired, applied>>

\* An endpoint that fails is only noted, for a warning.
GetTransactionHexFails ==
    /\ pc = "serialize"
    /\ args.ops /\ endpoint \in Endpoints
    /\ answer' = [answer EXCEPT ![endpoint] = NoAnswer]
    /\ endpoint' = endpoint + 1
    /\ UNCHANGED <<args, pc, agreed, signed, saved, expired, applied>>

Serialized ==
    /\ pc = "serialize"
    /\ args.ops /\ endpoint \notin Endpoints
    /\ pc' = IF agreed = NoBytes \/ agreed \in Marked THEN "failed" ELSE "sign"
    /\ endpoint' = 1
    /\ UNCHANGED <<args, answer, agreed, signed, saved, expired, applied>>

(***************************************************************************)
(* Signing and what becomes of the signed transaction.                     *)
(***************************************************************************)
\* The signer may take any time: it waits for its user.
RunExternalSigner ==
    /\ Goto("sign", "emit")
    /\ signed' = agreed
    /\ UNCHANGED <<args, endpoint, answer, agreed, saved, expired, applied>>

RunExternalSignerFails == Fail("sign")

\* Mutation: a file that cannot be written does not stop the broadcast.
EmitAnyway ==
    /\ pc = "emit"
    /\ pc' = IF args.noBroadcast THEN "ok" ELSE "broadcast"
    /\ saved' \in {args.out, FALSE}
    /\ UNCHANGED <<args, endpoint, answer, agreed, signed, expired, applied>>

EmitSigned ==
    /\ pc = "emit"
    /\ pc' = IF args.noBroadcast THEN "ok" ELSE "broadcast"
    /\ saved' = args.out
    /\ UNCHANGED <<args, endpoint, answer, agreed, signed, expired, applied>>

EmitSignedFails == args.out /\ Fail("emit")

Valid == ~expired /\ signed = Right

Offering == pc = "broadcast" /\ args.ops /\ endpoint \in Endpoints

BroadcastTx ==
    /\ Offering
    /\ Valid
    /\ applied' = TRUE
    /\ pc' = "ok"
    /\ UNCHANGED <<args, endpoint, answer, agreed, signed, saved, expired>>

\* The endpoint refuses, knows the transaction already, or does not answer,
\* perhaps after it took the transaction.
BroadcastTxFails ==
    /\ Offering
    /\ applied' \in {applied, applied \/ Valid}
    /\ endpoint' = endpoint + 1
    /\ UNCHANGED <<args, pc, answer, agreed, signed, saved, expired>>

\* Mutation: the loop over the endpoints ends without an error.
NobodyTookItIsFine ==
    /\ args.ops /\ endpoint \notin Endpoints
    /\ Goto("broadcast", "ok")
    /\ UNCHANGED <<args, endpoint, answer, agreed, signed, saved, expired, applied>>

NobodyTookIt ==
    /\ args.ops /\ endpoint \notin Endpoints
    /\ Fail("broadcast")

\* hivego's own broadcast in custom_json mode.
BroadcastRaw ==
    /\ pc = "broadcast" /\ ~args.ops
    /\ \/ Valid /\ applied' = TRUE /\ pc' = "ok"
       \/ applied' \in {FALSE, Valid} /\ pc' = "failed"
    /\ UNCHANGED <<args, endpoint, answer, agreed, signed, saved, expired>>

\* The chain's time passes the expiration fetchTapos set.
Expire ==
    /\ pc \notin {"read", "tapos"}
    /\ ~expired
    /\ expired' = TRUE
    /\ UNCHANGED <<args, pc, endpoint, answer, agreed, signed, saved, applied>>

-----------------------------------------------------------------------------
Signer == RunExternalSigner \/ RunExternalSignerFails

Tool ==
    \/ Read \/ ReadFails \/ FetchTapos \/ FetchTaposFails
    \/ SerializeTx \/ SerializeTxFails
    \/ GetTransactionHex \/ GetTransactionHexFails \/ Serialized
    \/ EmitSigned \/ EmitSignedFails
    \/ BroadcastTx \/ BroadcastTxFails \/ NobodyTookIt \/ BroadcastRaw

Next == Tool \/ Signer \/ Expire

Spec == Init /\ [][Next]_vars

\* Every request of the tool has a timeout; the signer may wait for ever.
FairSpec == Spec /\ WF_vars(Tool)

-----------------------------------------------------------------------------
\* What is signed is one serialization: every endpoint that answered with bytes
\* gave those, and one did, whatever the order of answers and failures.
SignedAgreed ==
    signed # None /\ args.ops =>
        /\ \A e \in Endpoints : answer[e] \in {signed, NoBytes, NoAnswer}
        /\ \E e \in Endpoints : answer[e] = signed

\* With -out, no transaction is accepted that the file does not hold, and with
\* -no-broadcast none at all.
SentIsSaved == applied => ~args.noBroadcast /\ (args.out => saved)

\* A run that exits with 0 has had its transaction accepted, unless it was told
\* not to send it, although endpoints fail, answers are lost and the transaction
\* may expire before the device has signed or between two endpoints.
SuccessMeansApplied == pc = "ok" => args.noBroadcast \/ applied

\* Failing endpoints never keep the tool: it comes to its signer and from there
\* to its end.
Ends == (pc \notin {"sign", "ok", "failed"}) ~> (pc \in {"sign", "ok", "failed"})

\* "Every configured endpoint is therefore asked and all of them must agree."
AllEndpointsAgree ==
    signed # None /\ args.ops => \A e \in Endpoints : answer[e] = signed

=============================================================================
