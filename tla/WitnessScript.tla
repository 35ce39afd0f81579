--------------------------- MODULE WitnessScript ---------------------------
(***************************************************************************)
(* The scripts that packages/createaddress builds and, so that something   *)
(* can be said of them, the part of Bitcoin's rules that decides whether a *)
(* transaction may spend an output that pays to one (external).            *)
(*                                                                         *)
(* A script is a sequence of opcodes; stack items are pairs <<kind, what>>.*)
(* A hash stands for what it hashes, so an output pays to its script, and  *)
(* a signature holds the transaction body it signs.  A body has the fields *)
(* version, sequence (of its one input), amount (of the spent output),     *)
(* dest and change (values of its outputs; change 0 means no such output). *)
(* csvBlocks is taken below 2^22, where BIP 68 would count in seconds.     *)
(***************************************************************************)
EXTENDS Integers, SequencesExt

CONSTANTS
    LockSize,      \* a relative lock counts modulo this: 2^16
    U32,           \* 2^32
    NoInstruction  \* the instruction is the empty string

ASSUME ScriptAssumption ==
    /\ LockSize \in Nat \ {0}
    /\ U32 \in Nat /\ U32 >= 2 * LockSize /\ U32 % 2 = 0

Num(n) == <<"num", n>>
Key(k) == <<"key", k>>
Hash(instruction) == <<"hash", instruction>>
Sig(k, body) == <<"sig", k, body>>
Empty == Num(0)

Op(name) == [op |-> name]
Push(x) == [op |-> "PUSH", item |-> x]

\* The tag of an address: AddData(nil) pushes the empty item.
Tag(instruction) ==
    IF instruction = NoInstruction THEN Empty ELSE Hash(instruction)

\* Mutation: CHECKSIG for CHECKSIGVERIFY on the tagged path.
TaggedCheckSig(key, instruction) ==
    IF instruction = NoInstruction
    THEN <<Push(Key(key)), Op("CHECKSIG")>>
    ELSE <<Push(Key(key)), Op("CHECKSIG"), Push(Tag(instruction))>>

CreateP2WSHAddress(key, instruction) ==
    IF instruction = NoInstruction
    THEN <<Push(Key(key)), Op("CHECKSIG")>>
    ELSE <<Push(Key(key)), Op("CHECKSIGVERIFY"), Push(Tag(instruction))>>

\* Mutation: the backup path without its lock.
UnlockedBackup(primary, backup, instruction, csvBlocks) ==
    <<Op("IF"), Push(Key(primary)), Op("CHECKSIGVERIFY"), Push(Tag(instruction)),
      Op("ELSE"), Push(Num(csvBlocks)), Op("DROP"),
      Push(Key(backup)), Op("CHECKSIG"), Op("ENDIF")>>

\* Mutation: the lock before the IF, and so on both paths.
LockOnBothPaths(primary, backup, instruction, csvBlocks) ==
    <<Push(Num(csvBlocks)), Op("CHECKSEQUENCEVERIFY"), Op("DROP"),
      Op("IF"), Push(Key(primary)), Op("CHECKSIGVERIFY"), Push(Tag(instruction)),
      Op("ELSE"), Push(Key(backup)), Op("CHECKSIG"), Op("ENDIF")>>

CreateP2WSHAddressWithBackup(primary, backup, instruction, csvBlocks) ==
    <<Op("IF"), Push(Key(primary)), Op("CHECKSIGVERIFY"), Push(Tag(instruction)),
      Op("ELSE"), Push(Num(csvBlocks)), Op("CHECKSEQUENCEVERIFY"), Op("DROP"),
      Push(Key(backup)), Op("CHECKSIG"), Op("ENDIF")>>

-----------------------------------------------------------------------------
(***************************************************************************)
(* Bitcoin's rules.                                                        *)
(***************************************************************************)
Disabled(n) == (n \div (U32 \div 2)) % 2 = 1

\* OP_CHECKSEQUENCEVERIFY (BIP 112): the input's own lock is at least n.
SequenceHolds(body, n) ==
    /\ n >= 0
    /\ \/ Disabled(n)
       \/ /\ body.version >= 2
          /\ ~Disabled(body.sequence)
          /\ n % LockSize <= body.sequence % LockSize

\* BIP 68: the input's own lock is over, age confirmations after the output.
Mature(body, age) ==
    \/ body.version < 2
    \/ Disabled(body.sequence)
    \/ body.sequence % LockSize <= age

\* What an opcode of a part that is executed does; too short a stack fails the script.
Operands(op) ==
    CASE op = "PUSH" -> 0 [] op \in {"CHECKSIG", "CHECKSIGVERIFY"} -> 2 [] OTHER -> 1

Perform(body, s, i) ==
    LET top == Head(s.stack)
        rest == Tail(s.stack)
        signed == rest[1] = <<"sig", top[2], body>>
    IN  CASE i.op = "PUSH" -> [s EXCEPT !.stack = <<i.item>> \o @]
          [] i.op = "IF" -> [s EXCEPT !.taken = <<top # Empty>> \o @, !.stack = rest]
          [] i.op = "DROP" -> [s EXCEPT !.stack = rest]
          [] i.op = "CHECKSEQUENCEVERIFY" ->
                 [s EXCEPT !.ok = @ /\ SequenceHolds(body, top[2])]
          [] i.op = "CHECKSIG" ->
                 [s EXCEPT !.stack = <<IF signed THEN Num(1) ELSE Empty>> \o Tail(rest)]
          [] i.op = "CHECKSIGVERIFY" ->
                 [s EXCEPT !.ok = @ /\ signed, !.stack = Tail(rest)]

\* One opcode.  taken holds, for each open IF, whether this part is executed.
Execute(body, s, i) ==
    CASE i.op = "ELSE" -> [s EXCEPT !.taken = <<~Head(@)>> \o Tail(@)]
      [] i.op = "ENDIF" -> [s EXCEPT !.taken = Tail(@)]
      [] OTHER -> IF FALSE \in Range(s.taken) THEN s
                  ELSE IF Len(s.stack) < Operands(i.op) THEN [s EXCEPT !.ok = FALSE]
                  ELSE Perform(body, s, i)

\* The script leaves exactly one item, a true one.
Satisfies(tx, script) ==
    LET start == [ok |-> TRUE, taken |-> <<>>, stack |-> Reverse(Front(tx.witness))]
        end == FoldLeft(LAMBDA s, i : Execute(tx.body, s, i), start, script)
    IN  end.ok /\ Len(end.stack) = 1 /\ end.stack[1] # Empty

\* A transaction may spend an output of this script and amount, at this age.
Spends(tx, script, amount, age) ==
    /\ Last(tx.witness) = script
    /\ tx.body.amount = amount
    /\ tx.body.dest >= 0
    /\ tx.body.dest + tx.body.change <= amount
    /\ Mature(tx.body, age)
    /\ Satisfies(tx, script)

=============================================================================
