---------------------------- MODULE BackupSpend ----------------------------
(***************************************************************************)
(* spend and packages/transactions: an output that pays to an address with *)
(* a backup path, and the tool that spends it by that path.  Next to the   *)
(* tool the output has its primary owner, and the backup key can be used   *)
(* by other software with transactions this code would not build.          *)
(*                                                                         *)
(* Left out: the network choice and the decoding of keys and addresses,    *)
(* whose errors end a run as a failed GetTx does.                          *)
(***************************************************************************)
EXTENDS WitnessScript

CONSTANTS
    Instructions, CsvBlocks,  \* what an address is made from
    Amount,                   \* the value of the output
    SendAmounts, FeeAmounts,  \* what the configuration asks for
    Dust,                     \* 546
    MaxAge,                   \* bound: confirmations of the output
    None                      \* not yet

ASSUME SpendAssumption ==
    /\ Amount \in Nat /\ Dust \in Nat /\ MaxAge \in Nat
    /\ CsvBlocks \subseteq Int
    /\ SendAmounts \subseteq Int /\ FeeAmounts \subseteq Nat

VARIABLES
    terms,    \* the instruction and delay the output's address was made from
    age,      \* confirmations of the output
    spender,  \* the transaction that spent it
    spentAt,  \* the output's age then
    pc,       \* "idle", "gettx", "build", "post": main of spend
    cfg,      \* spendConfig of this run
    tx        \* the transaction printed last

vars == <<terms, age, spender, spentAt, pc, cfg, tx>>

Terms == [instruction : Instructions, csv : CsvBlocks]

Configs == [terms : Terms, send : SendAmounts, fee : FeeAmounts, deduct : BOOLEAN]

ScriptFor(t) == CreateP2WSHAddressWithBackup("primary", "backup", t.instruction, t.csv)

Init ==
    /\ terms \in Terms
    /\ age = 0
    /\ spender = None /\ spentAt = None
    /\ pc = "idle" /\ cfg = None /\ tx = None

(***************************************************************************)
(* packages/transactions.                                                  *)
(***************************************************************************)
\* Mutations: the fee goes to the change; the sequence is left at its default;
\* the sequence is not cut to its width.
FeeKeptAsChange(amount, send, fee) ==
    IF amount - send > Dust THEN amount - send ELSE 0

Change(amount, send, fee) ==
    LET rest == amount - send - fee IN IF rest > Dust THEN rest ELSE 0

FinalSequence(amount, send, fee, csv) ==
    [version |-> 2, sequence |-> U32 - 1, amount |-> amount,
     dest |-> send, change |-> Change(amount, send, fee)]

UncutSequence(amount, send, fee, csv) ==
    [version |-> 2, sequence |-> csv, amount |-> amount,
     dest |-> send, change |-> Change(amount, send, fee)]

CreateBackupSpendTransaction(amount, send, fee, csv) ==
    [version |-> 2, sequence |-> csv % U32, amount |-> amount,
     dest |-> send, change |-> Change(amount, send, fee)]

CreateSpendTransaction(amount, send, fee) ==
    [version |-> 1, sequence |-> U32 - 1, amount |-> amount,
     dest |-> send, change |-> Change(amount, send, fee)]

\* Witnesses, bottom of the stack first.  The empty item picks ELSE.
AttachSignature(body, script, sig) ==
    [body |-> body, witness |-> <<sig, script>>]

AttachBackupSignature(body, script, sig) ==
    [body |-> body, witness |-> <<sig, Empty, script>>]

(***************************************************************************)
(* main of spend.                                                          *)
(***************************************************************************)
DestAmount(c) == IF c.deduct THEN c.send - c.fee ELSE c.send
ChangeFee(c) == IF c.deduct THEN 0 ELSE c.fee

LoadConfig ==
    /\ pc = "idle"
    /\ cfg' \in Configs
    /\ pc' = "gettx"
    /\ UNCHANGED <<terms, age, spender, spentAt, tx>>

\* The run ends.
Exit == pc' = "idle" /\ cfg' = None /\ tx' = None

\* mempool answers, with the amount of the output.
GetTx ==
    /\ pc = "gettx"
    /\ pc' = "build"
    /\ UNCHANGED <<terms, age, spender, spentAt, cfg, tx>>

\* An error, or a transaction that has no such output.
GetTxFails ==
    /\ pc = "gettx"
    /\ Exit
    /\ UNCHANGED <<terms, age, spender, spentAt>>

NothingLeft == cfg.deduct /\ DestAmount(cfg) <= 0

Build ==
    /\ pc = "build"
    /\ ~NothingLeft
    /\ LET body == CreateBackupSpendTransaction(Amount, DestAmount(cfg),
                                                ChangeFee(cfg), cfg.terms.csv)
       IN  tx' = AttachBackupSignature(body, ScriptFor(cfg.terms), Sig("backup", body))
    /\ pc' = "post"
    /\ UNCHANGED <<terms, age, spender, spentAt, cfg>>

RefuseToBuild ==
    /\ pc = "build"
    /\ NothingLeft
    /\ Exit
    /\ UNCHANGED <<terms, age, spender, spentAt>>

Accept(t) ==
    /\ spender = None
    /\ Spends(t, ScriptFor(terms), Amount, age)
    /\ spender' = t /\ spentAt' = age

\* The network accepts the transaction, whatever answer comes back; or it does
\* not get it, or refuses it.  With -nobroadcast the raw transaction is printed,
\* for someone to post at any later time or never: the same, only later.
PostTx ==
    /\ pc = "post"
    /\ Exit
    /\ Accept(tx) \/ UNCHANGED <<spender, spentAt>>
    /\ UNCHANGED <<terms, age>>

(***************************************************************************)
(* The chain and the others who hold keys.                                 *)
(***************************************************************************)
NewBlock ==
    /\ age < MaxAge
    /\ age' = age + 1
    /\ UNCHANGED <<terms, spender, spentAt, pc, cfg, tx>>

Whole(version, sequence) ==
    [version |-> version, sequence |-> sequence, amount |-> Amount,
     dest |-> Amount, change |-> 0]

PrimaryTx(t) ==
    LET body == Whole(2, U32 - 1)
    IN  [body |-> body, witness |-> <<Sig("primary", body), Num(1), ScriptFor(t)>>]

PrimarySpends ==
    /\ Accept(PrimaryTx(terms))
    /\ UNCHANGED <<terms, age, pc, cfg, tx>>

BackupElsewhere ==
    /\ \E version \in {1, 2}, sequence \in 0 .. U32 - 1 :
          LET body == Whole(version, sequence)
          IN  Accept(AttachBackupSignature(body, ScriptFor(terms), Sig("backup", body)))
    /\ UNCHANGED <<terms, age, pc, cfg, tx>>

Next ==
    \/ LoadConfig \/ GetTx \/ GetTxFails \/ Build \/ RefuseToBuild \/ PostTx
    \/ NewBlock \/ PrimarySpends \/ BackupElsewhere

Spec == Init /\ [][Next]_vars

-----------------------------------------------------------------------------
TypeOK ==
    /\ terms \in Terms
    /\ age \in 0 .. MaxAge /\ spentAt \in 0 .. MaxAge \cup {None}
    /\ pc \in {"idle", "gettx", "build", "post"}
    /\ IF pc = "idle" THEN cfg = None ELSE cfg \in Configs
    /\ tx # None => /\ pc = "post"
                    /\ tx.body.sequence \in 0 .. U32 - 1
                    /\ {tx.body.dest, tx.body.change} \subseteq Int

InRange(t) == t.csv \in 0 .. LockSize - 1

\* The delay protects the primary owner against every use of the backup key,
\* by this tool or another: an output spent by the backup path was csv_blocks
\* deep, for every delay a relative lock can express.
BackupWaits ==
    spender # None /\ spender.witness[2] = Empty /\ InRange(terms) => spentAt >= terms.csv

\* The primary owner of an address made with an instruction can spend the
\* output at any age until someone has.
PrimaryFree ==
    terms.instruction # NoInstruction => Spends(PrimaryTx(terms), ScriptFor(terms), Amount, age)

\* What spend built from the configuration of the output is a transaction that
\* the network takes once the delay is over: version, sequence, signature,
\* witness and the script of createaddress fit together.
BackupGoesThrough ==
    pc = "post" /\ cfg.terms = terms /\ InRange(terms) /\ age >= terms.csv
        /\ DestAmount(cfg) >= 0 /\ DestAmount(cfg) + ChangeFee(cfg) <= Amount
        => Spends(tx, ScriptFor(terms), Amount, age)

\* With the fee on top, the receiver gets all of send_amount and the miner the
\* fee, and at most a change too small to keep; nothing else leaves the output.
FeeOnTopPaid ==
    pc = "post" /\ ~cfg.deduct /\ cfg.send + cfg.fee <= Amount =>
        LET paid == Amount - tx.body.dest - tx.body.change
        IN  /\ tx.body.dest = cfg.send
            /\ cfg.fee <= paid /\ paid <= cfg.fee + Dust

\* An output paid to an address of create-address, with an instruction or
\* without, can be spent by the transaction CreateSpendTransaction builds once
\* its hash is signed and AttachSignature has put the signature in.
DepositSpendable ==
    \A instruction \in Instructions, send \in SendAmounts, fee \in FeeAmounts :
        send + fee \in 0 .. Amount /\ send >= 0 =>
            LET script == CreateP2WSHAddress("primary", instruction)
                body == CreateSpendTransaction(Amount, send, fee)
            IN  Spends(AttachSignature(body, script, Sig("primary", body)),
                       script, Amount, age)

\* "In deduct mode: change = utxo - sendAmount".
DeductedFeeLeaves ==
    pc = "post" /\ cfg.deduct => tx.body.change = Change(Amount, cfg.send, 0)

\* The address is made "from a script with primary and backup spending paths".
PrimaryPathExists == Spends(PrimaryTx(terms), ScriptFor(terms), Amount, age)

=============================================================================
