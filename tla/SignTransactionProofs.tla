------------------------ MODULE SignTransactionProofs ------------------------
(***************************************************************************)
(* Theorems about SignTransaction, for every number of endpoints and all   *)
(* the bytes they may answer.                                              *)
(***************************************************************************)
EXTENDS SignTransaction, TLAPS

LEMMA TypeInit == Init => TypeOK
<1> SUFFICES ASSUME Init PROVE TypeOK
  OBVIOUS
<1>1. args \in Args
  BY DEF Init
<1>2. args.endpoints \in Nat /\ args.endpoints >= 1
  BY <1>1 DEF Args
<1>3. endpoint \in 1 .. args.endpoints + 1
  BY <1>2 DEF Init
<1>4. answer \in [Endpoints -> Bytes \cup {NoAnswer, None}]
  BY DEF Init
<1>5. agreed \in Bytes /\ signed \in Bytes \cup {None}
  BY SignAssumption DEF Init
<1>6. {saved, expired, applied} \subseteq BOOLEAN
  BY DEF Init
<1>7. pc \in {"read", "tapos", "serialize", "sign", "emit", "broadcast", "ok", "failed"}
  BY DEF Init
<1> QED
  BY <1>1, <1>3, <1>4, <1>5, <1>6, <1>7 DEF TypeOK

LEMMA TypeNext == TypeOK /\ [Next]_vars => TypeOK'
<1> SUFFICES ASSUME TypeOK, [Next]_vars PROVE TypeOK'
  OBVIOUS
<1>0. args' = args
  BY DEF Next, Tool, Signer, Read, ReadFails, Fail, Goto, FetchTapos, FetchTaposFails,
     SerializeTx, SerializeTxFails, GetTransactionHex, GetTransactionHexFails, Serialized, EmitSigned,
     EmitSignedFails, BroadcastTx, BroadcastTxFails, NobodyTookIt, BroadcastRaw,
     RunExternalSigner, RunExternalSignerFails, Expire, vars
<1>n. args.endpoints \in Nat /\ args.endpoints >= 1 /\ args.out \in BOOLEAN
  BY DEF TypeOK, Args
<1> USE <1>0, <1>n DEF TypeOK, Endpoints
<1>1. CASE Read \/ FetchTapos
  BY <1>1 DEF Read, FetchTapos, Goto
<1>2. CASE \E step \in {"read", "tapos", "serialize", "sign", "emit", "broadcast"} : Fail(step)
  BY <1>2 DEF Fail, Goto
<1>3. CASE SerializeTx
  BY <1>3, SignAssumption DEF SerializeTx, Goto
<1>4. CASE GetTransactionHex
  <2>1. PICK bytes \in Bytes : /\ answer' = [answer EXCEPT ![endpoint] = bytes]
                               /\ Compare(bytes)
    BY <1>4 DEF GetTransactionHex
  <2>2. endpoint \in Endpoints /\ UNCHANGED <<signed, saved, expired, applied>>
    BY <1>4 DEF GetTransactionHex
  <2>3. answer' \in [Endpoints -> Bytes \cup {NoAnswer, None}]
    BY <2>1, <2>2
  <2>4. agreed' \in Bytes /\ endpoint' \in 1 .. args.endpoints + 1
    BY <2>1, <2>2 DEF Compare
  <2>5. pc' \in {pc, "failed"}
    BY <2>1 DEF Compare
  <2> QED
    BY <2>2, <2>3, <2>4, <2>5
<1>5. CASE GetTransactionHexFails
  <2>1. endpoint \in Endpoints /\ answer' \in [Endpoints -> Bytes \cup {NoAnswer, None}]
    BY <1>5 DEF GetTransactionHexFails
  <2> QED
    BY <1>5, <2>1 DEF GetTransactionHexFails
<1>6. CASE Serialized
  BY <1>6 DEF Serialized
<1>7. CASE RunExternalSigner
  BY <1>7 DEF RunExternalSigner, Goto
<1>8. CASE EmitSigned
  BY <1>8 DEF EmitSigned
<1>9. CASE BroadcastTx
  BY <1>9 DEF BroadcastTx
<1>10. CASE BroadcastTxFails
  <2>1. applied' \in BOOLEAN
    BY <1>10, Zenon DEF BroadcastTxFails, Valid
  <2>2. endpoint' \in 1 .. args.endpoints + 1
    BY <1>10 DEF BroadcastTxFails, Offering
  <2> QED
    BY <1>10, <2>1, <2>2 DEF BroadcastTxFails, Offering
<1>11. CASE BroadcastRaw
  <2>1. applied' \in BOOLEAN
    BY <1>11, Zenon DEF BroadcastRaw, Valid
  <2> QED
    BY <1>11, <2>1 DEF BroadcastRaw
<1>12. CASE Expire
  BY <1>12 DEF Expire
<1>13. CASE UNCHANGED vars
  BY <1>13 DEF vars
<1> QED
  BY <1>1, <1>2, <1>3, <1>4, <1>5, <1>6, <1>7, <1>8, <1>9, <1>10, <1>11, <1>12, <1>13
  DEF Next, Tool, Signer, ReadFails, FetchTaposFails, SerializeTxFails, EmitSignedFails,
      RunExternalSignerFails, NobodyTookIt

\* Types, for any number of endpoints.
THEOREM TypeCorrect == Spec => []TypeOK
  BY TypeInit, TypeNext, PTL DEF Spec

-----------------------------------------------------------------------------
(***************************************************************************)
(* What is signed.                                                         *)
(***************************************************************************)
\* Of the first n endpoints, none gave bytes other than agreed, and agreed, once
\* it is something, is what one of them gave.
Agree(n) ==
    /\ \A e \in 1 .. n : answer[e] \in {agreed, NoBytes, NoAnswer}
    /\ agreed # NoBytes => \E e \in 1 .. n : answer[e] = agreed

Early == {"read", "tapos", "serialize"}

\* The loop keeps the agreement of the endpoints behind it; once it has ended the
\* agreement is that of all of them, and nothing changes it any more.
SignInv ==
    /\ pc \in Early => signed = None
    /\ signed \in {None, agreed}
    /\ args.ops /\ pc \in Early => Agree(endpoint - 1)
    /\ args.ops /\ (pc = "sign" \/ signed # None) =>
          agreed # NoBytes /\ Agree(args.endpoints)

LEMMA SignInit == Init => SignInv
  BY SignAssumption DEF Init, SignInv, Early, Agree

LEMMA SignNext == TypeOK /\ SignInv /\ [Next]_vars => SignInv'
<1> SUFFICES ASSUME TypeOK, SignInv, [Next]_vars PROVE SignInv'
  OBVIOUS
<1>n. args.endpoints \in Nat /\ endpoint \in 1 .. args.endpoints + 1
  BY DEF TypeOK, Args
<1> USE <1>n DEF SignInv, Early, Agree
<1>1. CASE Read \/ FetchTapos
  BY <1>1 DEF Read, FetchTapos, Goto
<1>2. CASE \E step \in {"read", "tapos", "serialize", "sign", "emit", "broadcast"} : Fail(step)
  BY <1>2 DEF Fail, Goto
<1>3. CASE SerializeTx
  BY <1>3 DEF SerializeTx, Goto
<1>4. CASE GetTransactionHex
  <2>1. PICK bytes \in Bytes : /\ answer' = [answer EXCEPT ![endpoint] = bytes]
                               /\ Compare(bytes)
    BY <1>4 DEF GetTransactionHex
  <2>2. /\ pc = "serialize" /\ args.ops /\ endpoint \in Endpoints
        /\ signed = None /\ signed' = None /\ args' = args
    BY <1>4 DEF GetTransactionHex
  <2>3. Agree(endpoint - 1)
    BY <2>2
  <2>4. answer'[endpoint] = bytes /\ \A e \in 1 .. endpoint - 1 : answer'[e] = answer[e]
    BY <2>1, <2>2 DEF TypeOK, Endpoints
  <2>5. CASE agreed \in {NoBytes, bytes}
    <3>1. agreed' = bytes /\ endpoint' = endpoint + 1 /\ pc' = pc
      BY <2>1, <2>5 DEF Compare
    <3>2. 1 .. endpoint' - 1 = (1 .. endpoint - 1) \cup {endpoint}
      BY <3>1
    <3>3. \A e \in 1 .. endpoint - 1 : answer[e] \in {bytes, NoBytes, NoAnswer}
      BY <2>3, <2>5
    <3>4. Agree(endpoint - 1)'
      BY <3>1, <3>2, <3>3, <2>4
    <3> QED
      BY <3>1, <3>4, <2>2
  <2>6. CASE agreed \notin {NoBytes, bytes}
    BY <2>1, <2>2, <2>6 DEF Compare
  <2> QED
    BY <2>5, <2>6
<1>5. CASE GetTransactionHexFails
  <2>1. /\ pc = "serialize" /\ args.ops /\ endpoint \in Endpoints
        /\ UNCHANGED <<args, pc, agreed, signed>> /\ signed = None
        /\ endpoint' = endpoint + 1
        /\ answer' = [answer EXCEPT ![endpoint] = NoAnswer]
    BY <1>5 DEF GetTransactionHexFails
  <2>2. /\ answer'[endpoint] = NoAnswer
        /\ \A e \in 1 .. endpoint - 1 : answer'[e] = answer[e]
    BY <2>1 DEF TypeOK, Endpoints
  <2>3. 1 .. endpoint' - 1 = (1 .. endpoint - 1) \cup {endpoint}
    BY <2>1
  <2>4. Agree(endpoint - 1)'
    BY <2>1, <2>2, <2>3
  <2> QED
    BY <2>1, <2>4
<1>6. CASE Serialized
  <2>1. /\ pc = "serialize" /\ args.ops /\ endpoint \notin Endpoints
        /\ UNCHANGED <<args, answer, agreed, signed>> /\ signed = None
        /\ pc' \in {"failed", "sign"}
        /\ pc' = "sign" => agreed # NoBytes
    BY <1>6 DEF Serialized
  <2>2. endpoint - 1 = args.endpoints
    BY <2>1 DEF Endpoints
  <2>3. Agree(args.endpoints)
    BY <2>1, <2>2
  <2> QED
    BY <2>1, <2>3
<1>7. CASE RunExternalSigner
  BY <1>7 DEF RunExternalSigner, Goto
<1>8. CASE EmitSigned
  BY <1>8 DEF EmitSigned
<1>9. CASE BroadcastTx \/ BroadcastTxFails \/ BroadcastRaw
  BY <1>9 DEF BroadcastTx, BroadcastTxFails, BroadcastRaw, Offering
<1>10. CASE Expire
  BY <1>10 DEF Expire
<1>11. CASE UNCHANGED vars
  BY <1>11 DEF vars
<1> QED
  BY <1>1, <1>2, <1>3, <1>4, <1>5, <1>6, <1>7, <1>8, <1>9, <1>10, <1>11
  DEF Next, Tool, Signer, ReadFails, FetchTaposFails, SerializeTxFails, EmitSignedFails,
      RunExternalSignerFails, NobodyTookIt

LEMMA SignImplies == TypeOK /\ SignInv => SignedAgreed
<1> SUFFICES ASSUME TypeOK, SignInv, signed # None, args.ops
             PROVE  /\ \A e \in Endpoints : answer[e] \in {signed, NoBytes, NoAnswer}
                    /\ \E e \in Endpoints : answer[e] = signed
  BY DEF SignedAgreed
<1>1. signed = agreed /\ agreed # NoBytes /\ Agree(args.endpoints)
  BY DEF SignInv
<1> QED
  BY <1>1 DEF Agree, Endpoints

\* What the device signs in operations mode is the one serialization that all
\* endpoints that gave bytes gave, for any number of endpoints, any bytes and any
\* order of answers and failures (serializeTxViaNode).
THEOREM OneSerialization == Spec => []SignedAgreed
  BY TypeInit, TypeNext, SignInit, SignNext, SignImplies, PTL DEF Spec

-----------------------------------------------------------------------------
(***************************************************************************)
(* What is sent.                                                           *)
(***************************************************************************)
\* Nothing is offered before emitSigned has returned without an error.
SentInv ==
    /\ pc \in Early \cup {"sign", "emit"} => ~applied
    /\ pc = "broadcast" => ~args.noBroadcast /\ (args.out => saved)
    /\ SentIsSaved
    /\ SuccessMeansApplied

LEMMA SentInit == Init => SentInv
  BY DEF Init, SentInv, Early, SentIsSaved, SuccessMeansApplied

LEMMA SentNext == TypeOK /\ SentInv /\ [Next]_vars => SentInv'
<1> SUFFICES ASSUME TypeOK, SentInv, [Next]_vars PROVE SentInv'
  OBVIOUS
<1> USE DEF SentInv, Early, SentIsSaved, SuccessMeansApplied
<1>1. CASE Read \/ FetchTapos \/ SerializeTx
  BY <1>1 DEF Read, FetchTapos, SerializeTx, Goto
<1>2. CASE \E step \in {"read", "tapos", "serialize", "sign", "emit", "broadcast"} : Fail(step)
  BY <1>2 DEF Fail, Goto
<1>3. CASE GetTransactionHex
  BY <1>3 DEF GetTransactionHex, Compare
<1>4. CASE GetTransactionHexFails
  BY <1>4 DEF GetTransactionHexFails
<1>5. CASE Serialized
  BY <1>5 DEF Serialized
<1>6. CASE RunExternalSigner
  BY <1>6 DEF RunExternalSigner, Goto
<1>7. CASE EmitSigned
  BY <1>7 DEF EmitSigned, TypeOK, Args
<1>8. CASE BroadcastTx
  BY <1>8 DEF BroadcastTx, Offering
<1>9. CASE BroadcastTxFails
  BY <1>9 DEF BroadcastTxFails, Offering
<1>10. CASE BroadcastRaw
  BY <1>10 DEF BroadcastRaw
<1>11. CASE Expire
  BY <1>11 DEF Expire
<1>12. CASE UNCHANGED vars
  BY <1>12 DEF vars
<1> QED
  BY <1>1, <1>2, <1>3, <1>4, <1>5, <1>6, <1>7, <1>8, <1>9, <1>10, <1>11, <1>12
  DEF Next, Tool, Signer, ReadFails, FetchTaposFails, SerializeTxFails, EmitSignedFails,
      RunExternalSignerFails, NobodyTookIt

\* No transaction is accepted that the file of -out does not hold, nor any with
\* -no-broadcast (emitSigned comes before the broadcast in both modes).
THEOREM SavedFirst == Spec => []SentIsSaved
<1>1. SentInv => SentIsSaved
  BY DEF SentInv
<1> QED
  BY <1>1, TypeInit, TypeNext, SentInit, SentNext, PTL DEF Spec

\* Exit code 0 means that an endpoint accepted the transaction or that none was to
\* be asked (broadcastTxViaNode, BroadcastRaw).
THEOREM SuccessIsTrue == Spec => []SuccessMeansApplied
<1>1. SentInv => SuccessMeansApplied
  BY DEF SentInv
<1> QED
  BY <1>1, TypeInit, TypeNext, SentInit, SentNext, PTL DEF Spec

-----------------------------------------------------------------------------
(***************************************************************************)
(* How long a run can be.                                                  *)
(***************************************************************************)
\* A bound on the calls that main and runOperations still make: both loops over the
\* endpoints lie ahead until they have been begun.
Remaining ==
    LET n == args.endpoints
    IN  CASE pc = "read" -> 2 * n + 6
          [] pc = "tapos" -> 2 * n + 5
          [] pc = "serialize" -> 2 * n + 5 - endpoint
          [] pc = "sign" -> n + 3
          [] pc = "emit" -> n + 2
          [] pc = "broadcast" -> n + 2 - endpoint
          [] pc \in {"ok", "failed"} -> 0

Shortens ==
    /\ Remaining \in Nat
    /\ IF Tool \/ Signer THEN Remaining' < Remaining ELSE Remaining' = Remaining

LEMMA RemainingIsNat == TypeOK => Remaining \in Nat
<1> SUFFICES ASSUME TypeOK PROVE Remaining \in Nat
  OBVIOUS
<1>1. args.endpoints \in Nat /\ endpoint \in Nat /\ endpoint <= args.endpoints + 1
  BY DEF TypeOK, Args
<1>2. pc \in {"read", "tapos", "serialize", "sign", "emit", "broadcast", "ok", "failed"}
  BY DEF TypeOK
<1> QED BY <1>1, <1>2 DEF Remaining

LEMMA StepShortens == TypeOK /\ [Next]_vars => Shortens
<1> SUFFICES ASSUME TypeOK, [Next]_vars PROVE Shortens
  OBVIOUS
<1>1. Remaining \in Nat
  BY RemainingIsNat
<1>2. /\ args.endpoints \in Nat /\ 1 <= args.endpoints
      /\ endpoint \in Nat /\ 1 <= endpoint /\ endpoint <= args.endpoints + 1
  BY DEF TypeOK, Args
<1>3. ASSUME Tool \/ Signer PROVE Remaining' < Remaining
  <2> USE <1>2 DEF Remaining
  <2>1. CASE \E step \in {"read", "tapos", "serialize", "sign", "emit", "broadcast"} : Fail(step)
    BY <2>1 DEF Fail, Goto
  <2>2. CASE Read \/ FetchTapos
    BY <2>2 DEF Read, FetchTapos, Goto
  <2>3. CASE SerializeTx \/ RunExternalSigner
    BY <2>3 DEF SerializeTx, RunExternalSigner, Goto
  <2>4. CASE GetTransactionHex
    BY <2>4 DEF GetTransactionHex, Compare, Endpoints
  <2>5. CASE GetTransactionHexFails
    BY <2>5 DEF GetTransactionHexFails, Endpoints
  <2>6. CASE Serialized
    BY <2>6 DEF Serialized, Endpoints
  <2>7. CASE EmitSigned
    BY <2>7 DEF EmitSigned
  <2>8. CASE BroadcastTx \/ BroadcastTxFails
    BY <2>8 DEF BroadcastTx, BroadcastTxFails, Offering, Endpoints
  <2>9. CASE BroadcastRaw
    <3>1. pc = "broadcast" /\ (pc' = "ok" \/ pc' = "failed") /\ UNCHANGED <<args, endpoint>>
      BY <2>9, Zenon DEF BroadcastRaw
    <3> QED BY <3>1
  <2> QED
    BY <1>3, <2>1, <2>2, <2>3, <2>4, <2>5, <2>6, <2>7, <2>8, <2>9
    DEF Tool, Signer, ReadFails, FetchTaposFails, SerializeTxFails, EmitSignedFails,
        NobodyTookIt, RunExternalSignerFails
<1>4. ASSUME ~(Tool \/ Signer) PROVE Remaining' = Remaining
  <2>1. UNCHANGED <<args, pc, endpoint>>
    BY <1>4 DEF Next, Expire, vars
  <2> QED BY <2>1 DEF Remaining
<1> QED BY <1>1, <1>3, <1>4 DEF Shortens

\* Every step of the tool and of its signer brings the end of the run nearer, and
\* nothing else moves it: whatever the endpoints answer, each is asked at most twice.
THEOREM RunsAreBounded == Spec => [][Shortens]_vars
<1>1. TypeOK /\ [Next]_vars => [Shortens]_vars
  BY StepShortens
<1> QED BY <1>1, TypeInit, TypeNext, PTL DEF Spec

=============================================================================
