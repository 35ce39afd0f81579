-------------------------- MODULE BackupSpendProofs --------------------------
(***************************************************************************)
(* Theorems about BackupSpend, for every amount, fee, delay and dust limit *)
(* and every width of a word: what the two scripts of createaddress ask of *)
(* a witness, whatever that witness is, and from it what can become of an  *)
(* output.                                                                 *)
(*                                                                         *)
(* A script is run opcode by opcode, so that Satisfies, which folds,       *)
(* becomes a sequence of states; At says which state one of them is.  The  *)
(* invariant of the tool says that the transaction about to be posted is   *)
(* the one that the configuration still in hand asks for, with the witness *)
(* of the backup path.                                                     *)
(***************************************************************************)
EXTENDS BackupSpend, FoldLemmas, SequenceTheorems, TLAPS

(***************************************************************************)
(* A fold over a script is a sequence of states, one opcode apart.         *)
(***************************************************************************)
\* What the fold takes out of the indices of a script next.
LEMMA GreatestTaken ==
    ASSUME NEW L \in Nat, NEW s \in SUBSET (1 .. L), s # {}
    PROVE  Max(s) \in s /\ \A x \in s : x <= Max(s)
<1> DEFINE HasMax(n) == \A t \in SUBSET (1 .. n) :
              t # {} => \E x \in t : \A y \in t : x >= y
           N == {n \in Nat : HasMax(n)}
<1>1. 0 \in N
  <2>1. 1 .. 0 = {}
    OBVIOUS
  <2> QED BY <2>1
<1>2. ASSUME NEW n \in N PROVE n + 1 \in N
  <2> SUFFICES ASSUME NEW t \in SUBSET (1 .. n + 1), t # {}
               PROVE  \E x \in t : \A y \in t : x >= y
    BY <1>2
  <2>1. CASE n + 1 \in t
    <3>1. \A y \in t : n + 1 >= y
      BY <1>2
    <3> QED BY <2>1, <3>1
  <2>2. CASE n + 1 \notin t
    <3>1. t \in SUBSET (1 .. n)
      BY <1>2, <2>2
    <3> QED BY <1>2, <3>1
  <2> QED BY <2>1, <2>2
<1> HIDE DEF N
<1>3. N = Nat
  <2>1. N \in SUBSET Nat
    BY DEF N
  <2> QED BY <1>1, <1>2, <2>1, Induction
<1>4. \E x \in s : \A y \in s : x >= y
  BY <1>3 DEF N
<1>5. PICK x \in s : \A y \in s : x >= y
  BY <1>4
<1>6. Max(s) \in s /\ \A y \in s : Max(s) >= y
  BY <1>5 DEF Max
<1> QED BY <1>6

\* The function that the fold of Satisfies is defined by, over the sets of indices.
Run(body, start, script, D, g) ==
    g = [s \in SUBSET D |->
          IF s = {} THEN start ELSE Execute(body, g[s \ {Max(s)}], script[Max(s)])]

\* It exists for every script, by induction over the size of the sets.
LEMMA RunExists ==
    ASSUME NEW body, NEW start, NEW script, NEW L \in Nat
    PROVE  \E g : Run(body, start, script, 1 .. L, g)
<1> DEFINE D == 1 .. L
           Small(n) == {s \in SUBSET D : Cardinality(s) <= n}
           Step(s, g) == Execute(body, g[s \ {Max(s)}], script[Max(s)])
           Upto(n, g) == g = [s \in Small(n) |-> IF s = {} THEN start ELSE Step(s, g)]
           N == {n \in Nat : \E g : Upto(n, g)}
<1>1. IsFiniteSet(D)
  BY FS_Interval
<1>2. \A s \in SUBSET D : IsFiniteSet(s) /\ Cardinality(s) \in Nat
  BY <1>1, FS_Subset, FS_CardinalityType
<1>3. 0 \in N
  <2>1. \A s \in Small(0) : s = {}
    BY <1>2, FS_EmptySet
  <2>2. Upto(0, [s \in Small(0) |-> start])
    <3> HIDE DEF Small, Step
    <3> QED BY <2>1
  <2> QED BY <2>2
<1>4. ASSUME NEW n \in N PROVE n + 1 \in N
  <2>1. PICK g : Upto(n, g)
    BY <1>4
  <2> DEFINE h == [s \in Small(n + 1) |-> IF s = {} THEN start ELSE Step(s, g)]
  <2>2. n \in Nat /\ Small(n) \subseteq Small(n + 1)
    BY <1>2
  <2>3. \A s \in Small(n + 1) : s # {} => s \ {Max(s)} \in Small(n)
    <3> SUFFICES ASSUME NEW s \in SUBSET D, Cardinality(s) <= n + 1, s # {}
                 PROVE  Cardinality(s \ {Max(s)}) <= n
      OBVIOUS
    <3>1. Max(s) \in s
      BY GreatestTaken
    <3>2. Cardinality(s \ {Max(s)}) = Cardinality(s) - 1
      BY <1>2, <3>1, FS_RemoveElement
    <3> QED BY <1>2, <2>2, <3>2
  <2> HIDE DEF Small
  <2>4. \A s \in Small(n) : h[s] = g[s]
    BY <2>1, <2>2
  <2>5. \A s \in Small(n + 1) : s # {} => Step(s, g) = Step(s, h)
    BY <2>3, <2>4
  <2>6. h = [s \in Small(n + 1) |-> IF s = {} THEN start ELSE Step(s, h)]
    <3> HIDE DEF Step
    <3> QED BY <2>5
  <2> HIDE DEF h, Step
  <2>7. Upto(n + 1, h)
    BY <2>6
  <2> HIDE DEF Upto
  <2> QED BY <2>2, <2>7
<1> HIDE DEF N
<1>5. N = Nat
  <2>1. N \in SUBSET Nat
    BY DEF N
  <2> QED BY <1>3, <1>4, <2>1, Induction
<1>6. Cardinality(D) \in N
  BY <1>1, <1>5, FS_CardinalityType
<1>7. PICK g : Upto(Cardinality(D), g)
  BY <1>6 DEF N
<1>8. Small(Cardinality(D)) = SUBSET D
  BY <1>1, FS_Subset
<1> QED BY <1>7, <1>8 DEF Run

\* The state after a script.
Executed(body, start, script) == FoldLeft(LAMBDA s, i : Execute(body, s, i), start, script)

\* r[n] is the state after the first n opcodes.
IsTrace(body, start, script, L, r) ==
    /\ r[0] = start
    /\ \A n \in 1 .. L : r[n] = Execute(body, r[n - 1], script[n])
    /\ Executed(body, start, script) = r[L]

Trace(body, start, script, L) == CHOOSE r : IsTrace(body, start, script, L, r)

\* Every script of L opcodes has its states.
LEMMA Stepwise ==
    ASSUME NEW body, NEW start, NEW script, NEW L \in Nat, DOMAIN script = 1 .. L
    PROVE  IsTrace(body, start, script, L, Trace(body, start, script, L))
<1> DEFINE D == 1 .. L
           g == CHOOSE g : Run(body, start, script, D, g)
           r == [n \in 0 .. L |-> g[1 .. n]]
<1>1. Run(body, start, script, D, g)
  <2> HIDE DEF D
  <2> QED BY RunExists DEF D
<1>2. Executed(body, start, script) = g[D]
  BY DEF Executed, FoldLeft, MapThenFoldSet, Run
<1> HIDE DEF g
<1>3. r[0] = start
  <2>1. 1 .. 0 = {}
    OBVIOUS
  <2> QED BY <1>1, <2>1 DEF Run
<1>4. ASSUME NEW n \in 1 .. L PROVE r[n] = Execute(body, r[n - 1], script[n])
  <2>1. n \in Nat /\ n \in 1 .. n /\ 1 .. n \subseteq D
    OBVIOUS
  <2>2. Max(1 .. n) = n
    <3>1. Max(1 .. n) \in 1 .. n /\ \A x \in 1 .. n : x <= Max(1 .. n)
      BY <2>1, GreatestTaken
    <3> QED BY <2>1, <3>1
  <2>3. (1 .. n) \ {n} = 1 .. n - 1 /\ n - 1 \in 0 .. L
    OBVIOUS
  <2>4. g[1 .. n] = Execute(body, g[(1 .. n) \ {n}], script[n])
    BY <1>1, <2>1, <2>2 DEF Run
  <2>5. r[n] = g[1 .. n] /\ r[n - 1] = g[1 .. n - 1]
    BY <2>3
  <2> HIDE DEF r
  <2> QED BY <2>3, <2>4, <2>5
<1> HIDE DEF r
<1>5. Executed(body, start, script) = r[L]
  BY <1>2 DEF r
<1>6. IsTrace(body, start, script, L, r)
  BY <1>3, <1>4, <1>5 DEF IsTrace
<1> HIDE DEF r
<1> QED BY <1>6 DEF Trace
(***************************************************************************)
(* What one opcode does to a state.                                        *)
(***************************************************************************)
At(s, ok, taken, stack) == s = [ok |-> ok, taken |-> taken, stack |-> stack]

\* The script has failed.
Failed(s) == \E taken, stack : At(s, FALSE, taken, stack)

\* The opcode is of a part that is executed and finds its operands.
Performing(body, s, i) == Execute(body, s, i) = Perform(body, s, i)

\* The item under the key on top of the stack is that key's signature.
Signed(body, stack) == Tail(stack)[1] = <<"sig", Head(stack)[2], body>>

\* One IF is open, and b says whether its part is executed.
LEMMA OneTaken ==
    ASSUME NEW b
    PROVE  Range(<<b>>) = {b} /\ Head(<<b>>) = b /\ Tail(<<b>>) = <<>>
<1>1. DOMAIN <<b>> = {1} /\ <<b>>[1] = b
  OBVIOUS
<1> QED BY <1>1 DEF Range

\* FALSE is among the open IFs when one of them is skipped.
LEMMA Taken ==
    /\ FALSE \notin Range(<<>>)
    /\ FALSE \notin Range(<<TRUE>>)
    /\ FALSE \in Range(<<FALSE>>)
<1>1. FALSE \notin Range(<<>>)
  BY DEF Range
<1>2. Range(<<TRUE>>) = {TRUE} /\ Range(<<FALSE>>) = {FALSE}
  BY OneTaken, Zenon
<1> QED BY <1>1, <1>2, Zenon

\* A push is undone by Tail.
LEMMA Pushed ==
    ASSUME NEW S, NEW st \in Seq(S), NEW x
    PROVE  /\ <<x>> \o st \in Seq(S \cup {x})
           /\ Len(<<x>> \o st) = Len(st) + 1
           /\ (<<x>> \o st)[1] = x
           /\ Head(<<x>> \o st) = x
           /\ Tail(<<x>> \o st) = st
<1> DEFINE R == S \cup {x}
           t == <<x>> \o st
<1>1. st \in Seq(R) /\ <<x>> \in Seq(R) /\ Len(<<x>>) = 1 /\ <<x>>[1] = x
  OBVIOUS
<1> HIDE DEF R
<1>2. /\ t \in Seq(R) /\ Len(t) = 1 + Len(st)
      /\ \A i \in 1 .. 1 + Len(st) : t[i] = IF i <= 1 THEN <<x>>[i] ELSE st[i - 1]
  BY <1>1, ConcatProperties
<1>3. Len(st) \in Nat
  OBVIOUS
<1> HIDE DEF t
<1>4. t[1] = x /\ Head(t) = x
  BY <1>1, <1>2, <1>3
<1>5. Tail(t) = st
  <2>1. /\ Tail(t) \in Seq(R) /\ Len(Tail(t)) = Len(t) - 1
        /\ \A i \in 1 .. Len(Tail(t)) : Tail(t)[i] = t[i + 1]
    BY <1>2, <1>3, HeadTailProperties
  <2>2. \A i \in 1 .. Len(st) : Tail(t)[i] = st[i]
    BY <1>1, <1>2, <1>3, <2>1
  <2> QED BY <1>1, <1>2, <1>3, <2>1, <2>2, SeqEqual
<1> QED BY <1>2, <1>3, <1>4, <1>5 DEF R, t

\* ELSE turns the innermost part over.
LEMMA ElseStep ==
    ASSUME NEW body, NEW ok, NEW taken, NEW stack, NEW s, NEW i,
           At(s, ok, taken, stack), i.op = "ELSE"
    PROVE  At(Execute(body, s, i), ok, <<~Head(taken)>> \o Tail(taken), stack)
  BY DEF At, Execute

\* ENDIF closes it.
LEMMA EndIfStep ==
    ASSUME NEW body, NEW ok, NEW taken, NEW stack, NEW s, NEW i,
           At(s, ok, taken, stack), i.op = "ENDIF"
    PROVE  At(Execute(body, s, i), ok, Tail(taken), stack)
  BY DEF At, Execute

\* Any other opcode of a part that is skipped does nothing.
LEMMA SkipStep ==
    ASSUME NEW body, NEW ok, NEW taken, NEW stack, NEW s, NEW i,
           At(s, ok, taken, stack), i.op \notin {"ELSE", "ENDIF"}, FALSE \in Range(taken)
    PROVE  At(Execute(body, s, i), ok, taken, stack)
  BY DEF At, Execute

\* One that finds too few items fails the script.
LEMMA ShortStep ==
    ASSUME NEW body, NEW ok, NEW taken, NEW stack, NEW s, NEW i,
           At(s, ok, taken, stack), i.op \notin {"ELSE", "ENDIF"}, FALSE \notin Range(taken),
           Len(stack) < Operands(i.op)
    PROVE  Failed(Execute(body, s, i))
<1>1. At(Execute(body, s, i), FALSE, taken, stack)
  BY DEF At, Execute
<1> QED BY <1>1 DEF Failed

\* One that finds enough does what Perform says.
LEMMA Performs ==
    ASSUME NEW body, NEW s, NEW i,
           i.op \notin {"ELSE", "ENDIF"}, FALSE \notin Range(s.taken),
           ~(Len(s.stack) < Operands(i.op))
    PROVE  Performing(body, s, i)
  BY DEF Execute, Performing

\* The same, in the fields of the state.
LEMMA Performed ==
    ASSUME NEW body, NEW ok, NEW taken, NEW stack, NEW s, NEW i,
           At(s, ok, taken, stack), i.op \notin {"ELSE", "ENDIF"}, FALSE \notin Range(taken),
           ~(Len(stack) < Operands(i.op))
    PROVE  Performing(body, s, i)
<1>1. s.taken = taken /\ s.stack = stack
  BY DEF At
<1>2. FALSE \notin Range(s.taken) /\ ~(Len(s.stack) < Operands(i.op))
  BY <1>1
<1> QED BY <1>2, Performs

\* A push puts its item on top.
LEMMA PushStep ==
    ASSUME NEW body, NEW ok, NEW taken, NEW stack, NEW s, NEW i,
           At(s, ok, taken, stack), i.op = "PUSH", FALSE \notin Range(taken), Len(stack) \in Nat
    PROVE  At(Execute(body, s, i), ok, taken, <<i.item>> \o stack)
<1>1. Operands(i.op) = 0
  BY DEF Operands
<1>2. i.op \notin {"ELSE", "ENDIF"} /\ ~(Len(stack) < Operands(i.op))
  BY <1>1
<1>3. Performing(body, s, i)
  BY <1>2, Performed
<1>4. At(Perform(body, s, i), ok, taken, <<i.item>> \o stack)
  BY DEF At, Perform
<1> QED BY <1>3, <1>4 DEF Performing

\* DROP takes the top.
LEMMA DropStep ==
    ASSUME NEW body, NEW ok, NEW taken, NEW stack, NEW s, NEW i,
           At(s, ok, taken, stack), i.op = "DROP", FALSE \notin Range(taken),
           ~(Len(stack) < 1)
    PROVE  At(Execute(body, s, i), ok, taken, Tail(stack))
<1>1. Operands(i.op) = 1
  BY DEF Operands
<1>2. i.op \notin {"ELSE", "ENDIF"} /\ ~(Len(stack) < Operands(i.op))
  BY <1>1
<1>3. Performing(body, s, i)
  BY <1>2, Performed
<1>4. At(Perform(body, s, i), ok, taken, Tail(stack))
  BY DEF At, Perform
<1> QED BY <1>3, <1>4 DEF Performing

\* CHECKSEQUENCEVERIFY asks for the lock and leaves the stack.
LEMMA LockStep ==
    ASSUME NEW body, NEW ok, NEW taken, NEW stack, NEW s, NEW i,
           At(s, ok, taken, stack), i.op = "CHECKSEQUENCEVERIFY", FALSE \notin Range(taken),
           ~(Len(stack) < 1)
    PROVE  At(Execute(body, s, i), ok /\ SequenceHolds(body, Head(stack)[2]), taken, stack)
<1>1. Operands(i.op) = 1
  BY DEF Operands
<1>2. i.op \notin {"ELSE", "ENDIF"} /\ ~(Len(stack) < Operands(i.op))
  BY <1>1
<1>3. Performing(body, s, i)
  BY <1>2, Performed
<1>4. At(Perform(body, s, i), ok /\ SequenceHolds(body, Head(stack)[2]), taken, stack)
  BY DEF At, Perform
<1> QED BY <1>3, <1>4 DEF Performing

\* CHECKSIG leaves what it found, in place of the key and the signature.
LEMMA CheckSigStep ==
    ASSUME NEW body, NEW ok, NEW taken, NEW stack, NEW s, NEW i,
           At(s, ok, taken, stack), i.op = "CHECKSIG", FALSE \notin Range(taken),
           ~(Len(stack) < 2)
    PROVE  At(Execute(body, s, i), ok, taken,
              <<IF Signed(body, stack) THEN Num(1) ELSE Empty>> \o Tail(Tail(stack)))
<1>1. Operands(i.op) = 2
  BY DEF Operands
<1>2. i.op \notin {"ELSE", "ENDIF"} /\ ~(Len(stack) < Operands(i.op))
  BY <1>1
<1>3. Performing(body, s, i)
  BY <1>2, Performed
<1>4. At(Perform(body, s, i), ok, taken,
              <<IF Signed(body, stack) THEN Num(1) ELSE Empty>> \o Tail(Tail(stack)))
  BY DEF At, Perform, Signed
<1> QED BY <1>3, <1>4 DEF Performing

\* CHECKSIGVERIFY asks for the signature and leaves nothing.
LEMMA CheckSigVerifyStep ==
    ASSUME NEW body, NEW ok, NEW taken, NEW stack, NEW s, NEW i,
           At(s, ok, taken, stack), i.op = "CHECKSIGVERIFY", FALSE \notin Range(taken),
           ~(Len(stack) < 2)
    PROVE  At(Execute(body, s, i), ok /\ Signed(body, stack), taken, Tail(Tail(stack)))
<1>1. Operands(i.op) = 2
  BY DEF Operands
<1>2. i.op \notin {"ELSE", "ENDIF"} /\ ~(Len(stack) < Operands(i.op))
  BY <1>1
<1>3. Performing(body, s, i)
  BY <1>2, Performed
<1>4. At(Perform(body, s, i), ok /\ Signed(body, stack), taken, Tail(Tail(stack)))
  BY DEF At, Perform, Signed
<1> QED BY <1>3, <1>4 DEF Performing

\* The opcodes of the two scripts.
Opcodes == {"PUSH", "IF", "ELSE", "ENDIF", "DROP", "CHECKSEQUENCEVERIFY",
            "CHECKSIG", "CHECKSIGVERIFY"}

\* Every opcode of a script is one of them.
Readable(script, L) == \A n \in 1 .. L : script[n].op \in Opcodes

\* What has failed is not mended by an opcode that is executed.
LEMMA FailedPerform ==
    ASSUME NEW body, NEW taken, NEW stack, NEW s, NEW i,
           At(s, FALSE, taken, stack), i.op \in Opcodes \ {"ELSE", "ENDIF"}
    PROVE  Failed(Perform(body, s, i))
<1>1. CASE i.op = "PUSH"
  <2>1. At(Perform(body, s, i), FALSE, taken, <<i.item>> \o stack)
    BY <1>1 DEF At, Perform
  <2> QED BY <2>1 DEF Failed
<1>2. CASE i.op = "IF"
  <2>1. At(Perform(body, s, i), FALSE, <<Head(stack) # Empty>> \o taken, Tail(stack))
    BY <1>2 DEF At, Perform
  <2> QED BY <2>1 DEF Failed
<1>3. CASE i.op = "DROP"
  <2>1. At(Perform(body, s, i), FALSE, taken, Tail(stack))
    BY <1>3 DEF At, Perform
  <2> QED BY <2>1 DEF Failed
<1>4. CASE i.op = "CHECKSEQUENCEVERIFY"
  <2>1. At(Perform(body, s, i), FALSE, taken, stack)
    BY <1>4 DEF At, Perform
  <2> QED BY <2>1 DEF Failed
<1>5. CASE i.op = "CHECKSIG"
  <2>1. At(Perform(body, s, i), FALSE, taken,
           <<IF Signed(body, stack) THEN Num(1) ELSE Empty>> \o Tail(Tail(stack)))
    BY <1>5 DEF At, Perform, Signed
  <2> QED BY <2>1 DEF Failed
<1>6. CASE i.op = "CHECKSIGVERIFY"
  <2>1. At(Perform(body, s, i), FALSE, taken, Tail(Tail(stack)))
    BY <1>6 DEF At, Perform, Signed
  <2> QED BY <2>1 DEF Failed
<1> QED BY <1>1, <1>2, <1>3, <1>4, <1>5, <1>6 DEF Opcodes

\* A script that failed stays failed.
LEMMA FailedStep ==
    ASSUME NEW body, NEW s, Failed(s), NEW i, i.op \in Opcodes
    PROVE  Failed(Execute(body, s, i))
<1>1. PICK taken, stack : At(s, FALSE, taken, stack)
  BY DEF Failed
<1>2. CASE i.op = "ELSE"
  BY <1>1, <1>2, ElseStep DEF Failed
<1>3. CASE i.op = "ENDIF"
  BY <1>1, <1>3, EndIfStep DEF Failed
<1>4. CASE i.op \notin {"ELSE", "ENDIF"}
  <2>1. CASE FALSE \in Range(taken)
    BY <1>1, <1>4, <2>1, SkipStep DEF Failed
  <2>2. CASE FALSE \notin Range(taken) /\ Len(stack) < Operands(i.op)
    BY <1>1, <1>4, <2>2, ShortStep
  <2>3. CASE FALSE \notin Range(taken) /\ ~(Len(stack) < Operands(i.op))
    <3>1. Performing(body, s, i)
      BY <1>1, <1>4, <2>3, Performed
    <3>2. i.op \in Opcodes \ {"ELSE", "ENDIF"}
      BY <1>4
    <3> QED BY <1>1, <3>1, <3>2, FailedPerform DEF Performing
  <2> QED BY <2>1, <2>2, <2>3
<1> QED BY <1>2, <1>3, <1>4

\* And so to the end of the script.
LEMMA StaysFailed ==
    ASSUME NEW body, NEW start, NEW script, NEW L \in Nat, NEW r,
           Readable(script, L), IsTrace(body, start, script, L, r),
           NEW k \in 0 .. L, Failed(r[k])
    PROVE  Failed(r[L])
<1> USE DEF Readable, IsTrace
<1> DEFINE N == {n \in Nat : k + n <= L => Failed(r[k + n])}
<1>1. 0 \in N
  OBVIOUS
<1>2. ASSUME NEW n \in N PROVE n + 1 \in N
  <2> SUFFICES ASSUME k + (n + 1) <= L PROVE Failed(r[k + (n + 1)])
    BY <1>2
  <2> DEFINE m == k + (n + 1)
  <2>1. m \in 1 .. L /\ m - 1 = k + n /\ k + n <= L
    BY <1>2
  <2>2. Failed(r[m - 1])
    BY <1>2, <2>1
  <2> HIDE DEF m
  <2>3. r[m] = Execute(body, r[m - 1], script[m]) /\ script[m].op \in Opcodes
    BY <2>1
  <2>4. Failed(r[m])
    BY <2>2, <2>3, FailedStep
  <2> QED BY <2>4 DEF m
<1> HIDE DEF N
<1>3. N = Nat
  <2>1. N \in SUBSET Nat
    BY DEF N
  <2> QED BY <1>1, <1>2, <2>1, Induction
<1>4. PICK d \in Nat : k + d = L
  <2>1. L - k \in Nat /\ k + (L - k) = L
    OBVIOUS
  <2> QED BY <2>1
<1>5. Failed(r[k + d])
  <2>1. d \in N /\ k + d <= L
    BY <1>3, <1>4
  <2> QED BY <2>1 DEF N
<1> QED BY <1>4, <1>5

(***************************************************************************)
(* The script with a backup path, from any stack.                          *)
(***************************************************************************)
BackupOpcodes(script, p, b, instruction, csv) ==
    /\ script[1].op = "IF"
    /\ script[2].op = "PUSH" /\ script[2].item = Key(p)
    /\ script[3].op = "CHECKSIGVERIFY"
    /\ script[4].op = "PUSH" /\ script[4].item = Tag(instruction)
    /\ script[5].op = "ELSE"
    /\ script[6].op = "PUSH" /\ script[6].item = Num(csv)
    /\ script[7].op = "CHECKSEQUENCEVERIFY"
    /\ script[8].op = "DROP"
    /\ script[9].op = "PUSH" /\ script[9].item = Key(b)
    /\ script[10].op = "CHECKSIG"
    /\ script[11].op = "ENDIF"

\* It is the script that CreateP2WSHAddressWithBackup builds.
LEMMA ScriptOpcodes ==
    ASSUME NEW p, NEW b, NEW instruction, NEW csv
    PROVE  LET script == CreateP2WSHAddressWithBackup(p, b, instruction, csv)
           IN  /\ DOMAIN script = 1 .. 11
               /\ BackupOpcodes(script, p, b, instruction, csv)
               /\ Readable(script, 11)
<1> DEFINE script == CreateP2WSHAddressWithBackup(p, b, instruction, csv)
<1>1. DOMAIN script = 1 .. 11 /\ BackupOpcodes(script, p, b, instruction, csv)
  BY DEF CreateP2WSHAddressWithBackup, Op, Push, BackupOpcodes
<1> HIDE DEF script
<1>2. \A n \in 1 .. 11 : n \in {1, 2, 3, 4, 5, 6, 7, 8, 9, 10, 11}
  OBVIOUS
<1>3. Readable(script, 11)
  BY <1>1, <1>2 DEF Opcodes, BackupOpcodes, Readable
<1> QED BY <1>1, <1>3 DEF script

\* The parts that ELSE and IF leave.
LEMMA Toggled ==
    /\ <<~Head(<<TRUE>>)>> \o Tail(<<TRUE>>) = <<FALSE>>
    /\ <<~Head(<<FALSE>>)>> \o Tail(<<FALSE>>) = <<TRUE>>
    /\ <<TRUE>> \o <<>> = <<TRUE>> /\ <<FALSE>> \o <<>> = <<FALSE>>
<1>1. \A x : <<x>> \o <<>> = <<x>>
  OBVIOUS
<1>2. <<TRUE>> \o <<>> = <<TRUE>> /\ <<FALSE>> \o <<>> = <<FALSE>>
  BY <1>1, Zenon
<1>3. Head(<<TRUE>>) = TRUE /\ Tail(<<TRUE>>) = <<>>
  BY OneTaken, Zenon
<1>4. Head(<<FALSE>>) = FALSE /\ Tail(<<FALSE>>) = <<>>
  BY OneTaken, Zenon
<1>5. ~TRUE = FALSE /\ ~FALSE = TRUE
  OBVIOUS
<1> QED BY <1>2, <1>3, <1>4, <1>5, Zenon

\* Under key k pushed on it, the top of a stack is k's signature.
LEMMA SignedBy ==
    ASSUME NEW body, NEW S, NEW st \in Seq(S), NEW k
    PROVE  Signed(body, <<Key(k)>> \o st) <=> st[1] = Sig(k, body)
<1>1. Head(<<Key(k)>> \o st) = Key(k) /\ Tail(<<Key(k)>> \o st) = st
  BY Pushed
<1>2. Key(k)[2] = k
  BY DEF Key
<1> QED BY <1>1, <1>2 DEF Signed, Sig

\* The eleven steps, one by one.
Steps(r, body, script) ==
    /\ r[1] = Execute(body, r[0], script[1])
    /\ r[2] = Execute(body, r[1], script[2])
    /\ r[3] = Execute(body, r[2], script[3])
    /\ r[4] = Execute(body, r[3], script[4])
    /\ r[5] = Execute(body, r[4], script[5])
    /\ r[6] = Execute(body, r[5], script[6])
    /\ r[7] = Execute(body, r[6], script[7])
    /\ r[8] = Execute(body, r[7], script[8])
    /\ r[9] = Execute(body, r[8], script[9])
    /\ r[10] = Execute(body, r[9], script[10])
    /\ r[11] = Execute(body, r[10], script[11])

\* A script of eleven opcodes takes them.
LEMMA ElevenSteps ==
    ASSUME NEW body, NEW start, NEW script, NEW r, IsTrace(body, start, script, 11, r)
    PROVE  Steps(r, body, script)
<1>1. \A n \in 1 .. 11 : r[n] = Execute(body, r[n - 1], script[n])
  BY DEF IsTrace
<1>2. /\ r[1] = Execute(body, r[1 - 1], script[1])
      /\ r[2] = Execute(body, r[2 - 1], script[2])
      /\ r[3] = Execute(body, r[3 - 1], script[3])
      /\ r[4] = Execute(body, r[4 - 1], script[4])
      /\ r[5] = Execute(body, r[5 - 1], script[5])
      /\ r[6] = Execute(body, r[6 - 1], script[6])
  BY <1>1
<1>3. /\ r[7] = Execute(body, r[7 - 1], script[7])
      /\ r[8] = Execute(body, r[8 - 1], script[8])
      /\ r[9] = Execute(body, r[9 - 1], script[9])
      /\ r[10] = Execute(body, r[10 - 1], script[10])
      /\ r[11] = Execute(body, r[11 - 1], script[11])
  BY <1>1
<1>4. /\ 1 - 1 = 0 /\ 2 - 1 = 1 /\ 3 - 1 = 2 /\ 4 - 1 = 3 /\ 5 - 1 = 4 /\ 6 - 1 = 5
      /\ 7 - 1 = 6 /\ 8 - 1 = 7 /\ 9 - 1 = 8 /\ 10 - 1 = 9 /\ 11 - 1 = 10
  OBVIOUS
<1> QED BY <1>2, <1>3, <1>4 DEF Steps

\* The one open IF takes this part, or skips it.
Taking == <<TRUE>>
Skipping == <<FALSE>>

\* What the steps need of the two.
LEMMA Parts ==
    /\ FALSE \notin Range(<<>>) /\ FALSE \notin Range(Taking) /\ FALSE \in Range(Skipping)
    /\ <<~Head(Taking)>> \o Tail(Taking) = Skipping /\ Tail(Taking) = <<>>
    /\ <<~Head(Skipping)>> \o Tail(Skipping) = Taking /\ Tail(Skipping) = <<>>
<1>1. Tail(<<TRUE>>) = <<>> /\ Tail(<<FALSE>>) = <<>>
  BY OneTaken, Zenon
<1> QED BY <1>1, Taken, Toggled, Zenon DEF Taking, Skipping

\* IF opens the part its operand picks.
LEMMA Entered ==
    ASSUME NEW st
    PROVE  <<Head(st) # Empty>> \o <<>> = IF Head(st) # Empty THEN Taking ELSE Skipping
<1>1. CASE Head(st) # Empty
  <2>1. (Head(st) # Empty) = TRUE
    BY <1>1
  <2> QED BY <1>1, <2>1, Toggled, Zenon DEF Taking
<1>2. CASE Head(st) = Empty
  <2>1. (Head(st) # Empty) = FALSE
    BY <1>2
  <2> QED BY <1>2, <2>1, Toggled, Zenon DEF Skipping
<1> QED BY <1>1, <1>2

\* IF takes the top to choose the part.
LEMMA IfStep ==
    ASSUME NEW body, NEW ok, NEW stack, NEW s, NEW i,
           At(s, ok, <<>>, stack), i.op = "IF", ~(Len(stack) < 1)
    PROVE  At(Execute(body, s, i), ok,
              IF Head(stack) # Empty THEN Taking ELSE Skipping, Tail(stack))
<1>1. Operands(i.op) = 1
  BY DEF Operands
<1>2. i.op \notin {"ELSE", "ENDIF"} /\ ~(Len(stack) < Operands(i.op)) /\ FALSE \notin Range(<<>>)
  BY <1>1, Taken
<1>3. Performing(body, s, i)
  BY <1>2, Performed
<1>4. At(Perform(body, s, i), ok, <<Head(stack) # Empty>> \o <<>>, Tail(stack))
  BY DEF At, Perform
<1> QED BY <1>3, <1>4, Entered DEF Performing

\* Up to the check of the primary key.
LEMMA PrimaryStart ==
    ASSUME NEW S, NEW st \in Seq(S), Len(st) >= 1, Head(st) # Empty,
           NEW script, NEW p, NEW b, NEW instruction, NEW csv,
           BackupOpcodes(script, p, b, instruction, csv),
           NEW body, NEW r, Steps(r, body, script),
           NEW ok, At(r[0], ok, <<>>, st)
    PROVE  At(r[2], ok, Taking, <<Key(p)>> \o Tail(st))
<1> DEFINE rest == Tail(st)
<1> USE DEF BackupOpcodes, Steps
<1>1. FALSE \notin Range(Taking)
  BY Parts
<1>2. rest \in Seq(S) /\ Len(rest) \in Nat
  BY HeadTailProperties
<1> HIDE DEF rest
<1>3. At(r[1], ok, Taking, rest)
  <2>1. At(r[1], ok, IF Head(st) # Empty THEN Taking ELSE Skipping, rest)
    BY IfStep DEF rest
  <2> QED BY <2>1
<1>4. At(r[2], ok, Taking, <<Key(p)>> \o rest)
  BY <1>1, <1>2, <1>3, PushStep
<1> QED BY <1>4 DEF rest

\* The primary path: IF finds something other than the empty item.
LEMMA PrimaryPath ==
    ASSUME NEW S, NEW st \in Seq(S), Len(st) >= 2, Head(st) # Empty,
           NEW script, NEW p, NEW b, NEW instruction, NEW csv,
           BackupOpcodes(script, p, b, instruction, csv),
           NEW body, NEW r, Steps(r, body, script),
           NEW ok, At(r[0], ok, <<>>, st)
    PROVE  At(r[11], ok /\ Tail(st)[1] = Sig(p, body), <<>>,
              <<Tag(instruction)>> \o Tail(Tail(st)))
<1> DEFINE rest == Tail(st)
           end == Tail(rest)
           verified == ok /\ rest[1] = Sig(p, body)
           stack == <<Tag(instruction)>> \o end
<1>1. At(r[2], ok, Taking, <<Key(p)>> \o rest)
  <2>1. Len(st) >= 1
    OBVIOUS
  <2> QED BY <2>1, PrimaryStart
<1> USE DEF BackupOpcodes, Steps
<1>2. FALSE \notin Range(Taking) /\ FALSE \in Range(Skipping)
  BY Parts
<1>3. rest \in Seq(S) /\ Len(rest) >= 1 /\ Len(rest) \in Nat
  BY HeadTailProperties
<1>4. end \in Seq(S) /\ Len(end) \in Nat
  <2> HIDE DEF rest
  <2> QED BY <1>3, HeadTailProperties
<1> HIDE DEF rest, end, verified, stack
<1>5. At(r[3], verified, Taking, end)
  <2>1. ~(Len(<<Key(p)>> \o rest) < 2) /\ Tail(<<Key(p)>> \o rest) = rest
    BY <1>3, Pushed
  <2>2. At(r[3], ok /\ Signed(body, <<Key(p)>> \o rest), Taking,
           Tail(Tail(<<Key(p)>> \o rest)))
    BY <1>2, <1>1, <2>1, CheckSigVerifyStep
  <2>3. Signed(body, <<Key(p)>> \o rest) <=> rest[1] = Sig(p, body)
    BY <1>3, SignedBy
  <2> QED BY <2>1, <2>2, <2>3 DEF verified, end
<1>6. At(r[4], verified, Taking, stack)
  BY <1>2, <1>4, <1>5, PushStep DEF stack
<1>7. At(r[5], verified, Skipping, stack)
  <2>1. At(r[5], verified, <<~Head(Taking)>> \o Tail(Taking), stack)
    BY <1>6, ElseStep
  <2> QED BY <2>1, Parts
<1>8. At(r[6], verified, Skipping, stack)
  BY <1>2, <1>7, SkipStep
<1>9. At(r[7], verified, Skipping, stack)
  BY <1>2, <1>8, SkipStep
<1>10. At(r[8], verified, Skipping, stack)
  BY <1>2, <1>9, SkipStep
<1>11. At(r[9], verified, Skipping, stack)
  BY <1>2, <1>10, SkipStep
<1>12. At(r[10], verified, Skipping, stack)
  BY <1>2, <1>11, SkipStep
<1>13. At(r[11], verified, <<>>, stack)
  <2>1. At(r[11], verified, Tail(Skipping), stack)
    BY <1>12, EndIfStep
  <2> QED BY <2>1, Parts
<1> QED BY <1>13 DEF rest, end, verified, stack

\* Up to the check of the backup key.
LEMMA BackupStart ==
    ASSUME NEW S, NEW st \in Seq(S), Len(st) >= 1, Head(st) = Empty,
           NEW script, NEW p, NEW b, NEW instruction, NEW csv,
           BackupOpcodes(script, p, b, instruction, csv),
           NEW body, NEW r, Steps(r, body, script),
           NEW ok, At(r[0], ok, <<>>, st)
    PROVE  At(r[9], ok /\ SequenceHolds(body, csv), Taking, <<Key(b)>> \o Tail(st))
<1> DEFINE rest == Tail(st)
           over == ok /\ SequenceHolds(body, csv)
           locked == <<Num(csv)>> \o rest
           signed == <<Key(b)>> \o rest
<1> USE DEF BackupOpcodes, Steps
<1>1. FALSE \notin Range(Taking) /\ FALSE \in Range(Skipping)
  BY Parts
<1>2. rest \in Seq(S) /\ Len(rest) \in Nat
  BY HeadTailProperties
<1> HIDE DEF rest
<1>3. Len(locked) = Len(rest) + 1 /\ Tail(locked) = rest /\ Head(locked) = Num(csv)
  BY <1>2, Pushed
<1>4. Num(csv)[2] = csv
  BY DEF Num
<1>5. ~(Len(locked) < 1)
  <2> HIDE DEF locked
  <2> QED BY <1>2, <1>3
<1> HIDE DEF over, locked, signed
<1>6. At(r[1], ok, Skipping, rest)
  <2>1. At(r[1], ok, IF Head(st) # Empty THEN Taking ELSE Skipping, rest)
    BY IfStep DEF rest
  <2> QED BY <2>1
<1>7. At(r[2], ok, Skipping, rest)
  BY <1>1, <1>6, SkipStep
<1>8. At(r[3], ok, Skipping, rest)
  BY <1>1, <1>7, SkipStep
<1>9. At(r[4], ok, Skipping, rest)
  BY <1>1, <1>8, SkipStep
<1>10. At(r[5], ok, Taking, rest)
  <2>1. At(r[5], ok, <<~Head(Skipping)>> \o Tail(Skipping), rest)
    BY <1>9, ElseStep
  <2> QED BY <2>1, Parts
<1>11. At(r[6], ok, Taking, locked)
  BY <1>1, <1>2, <1>10, PushStep DEF locked
<1>12. At(r[7], over, Taking, locked)
  <2>1. At(r[7], ok /\ SequenceHolds(body, Head(locked)[2]), Taking, locked)
    BY <1>1, <1>5, <1>11, LockStep
  <2> QED BY <1>3, <1>4, <2>1 DEF over
<1>13. At(r[8], over, Taking, rest)
  <2>1. At(r[8], over, Taking, Tail(locked))
    BY <1>1, <1>5, <1>12, DropStep
  <2> QED BY <1>3, <2>1
<1>14. At(r[9], over, Taking, signed)
  BY <1>1, <1>2, <1>13, PushStep DEF signed
<1> QED BY <1>14 DEF rest, over, signed

\* The backup path: IF finds the empty item.
LEMMA BackupPath ==
    ASSUME NEW S, NEW st \in Seq(S), Len(st) >= 2, Head(st) = Empty,
           NEW script, NEW p, NEW b, NEW instruction, NEW csv,
           BackupOpcodes(script, p, b, instruction, csv),
           NEW body, NEW r, Steps(r, body, script),
           NEW ok, At(r[0], ok, <<>>, st)
    PROVE  At(r[11], ok /\ SequenceHolds(body, csv), <<>>,
              <<IF Tail(st)[1] = Sig(b, body) THEN Num(1) ELSE Empty>> \o Tail(Tail(st)))
<1> DEFINE rest == Tail(st)
           end == Tail(rest)
           over == ok /\ SequenceHolds(body, csv)
           signed == <<Key(b)>> \o rest
           result == IF rest[1] = Sig(b, body) THEN Num(1) ELSE Empty
<1>1. At(r[9], over, Taking, signed)
  BY BackupStart
<1> USE DEF BackupOpcodes, Steps
<1>2. FALSE \notin Range(Taking)
  BY Parts
<1>3. rest \in Seq(S) /\ Len(rest) >= 1 /\ Len(rest) \in Nat
  BY HeadTailProperties
<1> HIDE DEF rest
<1>4. ~(Len(signed) < 2) /\ Tail(signed) = rest
  <2>1. Len(signed) = Len(rest) + 1 /\ Tail(signed) = rest
    BY <1>3, Pushed
  <2> HIDE DEF signed
  <2> QED BY <1>3, <2>1
<1>5. Signed(body, signed) <=> rest[1] = Sig(b, body)
  BY <1>3, SignedBy
<1> HIDE DEF end, over, signed, result
<1>6. At(r[10], over, Taking, <<result>> \o end)
  <2>1. At(r[10], over, Taking,
           <<IF Signed(body, signed) THEN Num(1) ELSE Empty>> \o Tail(Tail(signed)))
    BY <1>2, <1>4, <1>1, CheckSigStep
  <2>2. (IF Signed(body, signed) THEN Num(1) ELSE Empty) = result
    BY <1>5 DEF result
  <2> QED BY <1>4, <2>1, <2>2 DEF end
<1>7. At(r[11], over, <<>>, <<result>> \o end)
  <2>1. At(r[11], over, Tail(Taking), <<result>> \o end)
    BY <1>6, EndIfStep
  <2> QED BY <2>1, Parts
<1> QED BY <1>7 DEF rest, end, over, result

\* With fewer than two items one of the opcodes finds too few.
LEMMA TooShort ==
    ASSUME NEW S, NEW st \in Seq(S), Len(st) < 2,
           NEW script, NEW p, NEW b, NEW instruction, NEW csv,
           BackupOpcodes(script, p, b, instruction, csv),
           NEW body, NEW r, Steps(r, body, script),
           NEW ok, At(r[0], ok, <<>>, st)
    PROVE  Failed(r[1]) \/ Failed(r[3]) \/ Failed(r[10])
<1>1. FALSE \notin Range(Taking) /\ FALSE \notin Range(<<>>)
  BY Parts
<1>2. Len(st) \in Nat
  OBVIOUS
<1>3. CASE Len(st) = 0
  <2>1. Len(st) < Operands(script[1].op) /\ script[1].op = "IF"
    BY <1>3 DEF Operands, BackupOpcodes
  <2>2. Failed(Execute(body, r[0], script[1]))
    BY <1>1, <2>1, ShortStep
  <2>3. r[1] = Execute(body, r[0], script[1])
    BY DEF Steps
  <2> QED BY <2>2, <2>3
<1>4. CASE Len(st) = 1
  <2>1. Tail(st) \in Seq(S) /\ Len(Tail(st)) = 0
    <3>1. st # <<>> /\ Len(st) >= 1
      BY <1>4
    <3> QED BY <1>4, <3>1, HeadTailProperties
  <2>2. Len(st) >= 1
    BY <1>4
  <2>3. CASE Head(st) # Empty
    <3>1. At(r[2], ok, Taking, <<Key(p)>> \o Tail(st))
      BY <2>3, <2>2, PrimaryStart
    <3>2. Len(<<Key(p)>> \o Tail(st)) = 1
      BY <2>1, Pushed
    <3>3. Len(<<Key(p)>> \o Tail(st)) < Operands(script[3].op) /\ script[3].op = "CHECKSIGVERIFY"
      BY <3>2 DEF Operands, BackupOpcodes
    <3>4. Failed(Execute(body, r[2], script[3]))
      BY <1>1, <3>1, <3>3, ShortStep
    <3>5. r[3] = Execute(body, r[2], script[3])
      BY DEF Steps
    <3> QED BY <3>4, <3>5
  <2>4. CASE Head(st) = Empty
    <3>1. At(r[9], ok /\ SequenceHolds(body, csv), Taking, <<Key(b)>> \o Tail(st))
      BY <2>4, <2>2, BackupStart
    <3>2. Len(<<Key(b)>> \o Tail(st)) = 1
      BY <2>1, Pushed
    <3>3. Len(<<Key(b)>> \o Tail(st)) < Operands(script[10].op) /\ script[10].op = "CHECKSIG"
      BY <3>2 DEF Operands, BackupOpcodes
    <3>4. Failed(Execute(body, r[9], script[10]))
      BY <1>1, <3>1, <3>3, ShortStep
    <3>5. r[10] = Execute(body, r[9], script[10])
      BY DEF Steps
    <3> QED BY <3>4, <3>5
  <2> QED BY <2>3, <2>4
<1>5. Len(st) = 0 \/ Len(st) = 1
  <2> DEFINE n == Len(st)
  <2>1. n \in Nat /\ n < 2
    BY <1>2
  <2> HIDE DEF n
  <2>2. n = 0 \/ n = 1
    BY <2>1
  <2> QED BY <2>2 DEF n
<1> QED BY <1>3, <1>4, <1>5
(***************************************************************************)
(* What the scripts ask of a witness.                                      *)
(***************************************************************************)
Start(st) == [ok |-> TRUE, taken |-> <<>>, stack |-> st]

\* Satisfies in terms of the state after the script.
LEMMA SatisfiesMeans ==
    ASSUME NEW t, NEW script
    PROVE  LET end == Executed(t.body, Start(Reverse(Front(t.witness))), script)
           IN  Satisfies(t, script) <=> end.ok /\ Len(end.stack) = 1 /\ end.stack[1] # Empty
  BY DEF Satisfies, Executed, Start

\* The fields of a state.
LEMMA Ends ==
    ASSUME NEW s, NEW ok, NEW stack, At(s, ok, <<>>, stack)
    PROVE  s.ok = ok /\ s.stack = stack
BY DEF At

\* The stack a script starts from: the witness without the script, last item on top.
LEMMA Witnessed ==
    ASSUME NEW S, NEW w \in Seq(S), w # <<>>
    PROVE  LET st == Reverse(Front(w))
           IN  /\ st \in Seq(S) /\ Len(st) = Len(w) - 1
               /\ Len(st) >= 1 => Head(st) = w[Len(w) - 1]
               /\ Len(st) >= 2 => Tail(st)[1] = w[Len(w) - 2]
<1> DEFINE f == Front(w)
           st == Reverse(f)
<1>1. Len(w) \in Nat /\ Len(w) >= 1 /\ \A i \in 1 .. Len(w) : w[i] \in S
  BY EmptySeq, ElementOfSeq
<1>2. f \in Seq(S) /\ Len(f) = Len(w) - 1 /\ \A i \in 1 .. Len(w) - 1 : f[i] = w[i]
  <2> DEFINE n == Len(w) - 1
  <2>1. n \in Nat /\ 1 \in Int /\ n \in Int /\ \A i \in 1 .. n : w[i] \in S
    BY <1>1
  <2> HIDE DEF n
  <2>2. /\ SubSeq(w, 1, n) \in Seq(S)
        /\ Len(SubSeq(w, 1, n)) = IF 1 <= n THEN n - 1 + 1 ELSE 0
        /\ \A i \in 1 .. n - 1 + 1 : SubSeq(w, 1, n)[i] = w[1 + i - 1]
    BY <2>1, SubSeqProperties
  <2>3. Len(SubSeq(w, 1, n)) = n /\ \A i \in 1 .. n : SubSeq(w, 1, n)[i] = w[i]
    BY <2>1, <2>2
  <2> QED BY <2>2, <2>3 DEF n, Front
<1> HIDE DEF f
<1>3. Len(f) \in Nat /\ \A i \in 1 .. Len(f) : f[i] \in S
  BY <1>2, ElementOfSeq
<1>4. /\ st \in Seq(S) /\ Len(st) = Len(f)
      /\ \A i \in 1 .. Len(f) : st[i] = f[(Len(f) - i) + 1]
  <2>1. st = [i \in 1 .. Len(f) |-> f[(Len(f) - i) + 1]]
    BY DEF Reverse
  <2>2. \A i \in 1 .. Len(f) : f[(Len(f) - i) + 1] \in S
    BY <1>3
  <2> QED BY <1>3, <2>1, <2>2
<1> HIDE DEF st
<1>5. Len(st) >= 1 => Head(st) = w[Len(w) - 1]
  <2> SUFFICES ASSUME Len(st) >= 1 PROVE Head(st) = w[Len(w) - 1]
    OBVIOUS
  <2>1. Head(st) = st[1] /\ st[1] = f[(Len(f) - 1) + 1]
    BY <1>3, <1>4
  <2> QED BY <1>1, <1>2, <1>3, <1>4, <2>1
<1>6. Len(st) >= 2 => Tail(st)[1] = w[Len(w) - 2]
  <2> SUFFICES ASSUME Len(st) >= 2 PROVE Tail(st)[1] = w[Len(w) - 2]
    OBVIOUS
  <2>1. Tail(st)[1] = st[2] /\ st[2] = f[(Len(f) - 2) + 1]
    <3>1. st # <<>> /\ Len(st) - 1 >= 1 /\ 1 \in 1 .. Len(st) - 1
      BY <1>3, <1>4
    <3>2. Tail(st)[1] = st[1 + 1]
      BY <1>4, <3>1, HeadTailProperties
    <3> QED BY <1>3, <1>4, <3>2
  <2> QED BY <1>1, <1>2, <1>3, <1>4, <2>1
<1> QED BY <1>2, <1>4, <1>5, <1>6 DEF st, f

\* What the script with a backup path asks of a witness, whoever made it.
THEOREM BackupScriptMeans ==
    ASSUME NEW t, NEW S, t.witness \in Seq(S), t.witness # <<>>,
           NEW p, NEW b, NEW instruction, NEW csv
    PROVE  Satisfies(t, CreateP2WSHAddressWithBackup(p, b, instruction, csv)) <=>
               /\ Len(t.witness) = 3
               /\ IF t.witness[2] # Empty
                  THEN t.witness[1] = Sig(p, t.body) /\ Tag(instruction) # Empty
                  ELSE t.witness[1] = Sig(b, t.body) /\ SequenceHolds(t.body, csv)
<1> DEFINE w == t.witness
           body == t.body
           script == CreateP2WSHAddressWithBackup(p, b, instruction, csv)
           st == Reverse(Front(w))
           r == Trace(body, Start(st), script, 11)
           end == r[11]
<1>1. /\ DOMAIN script = 1 .. 11 /\ BackupOpcodes(script, p, b, instruction, csv)
      /\ Readable(script, 11)
  BY ScriptOpcodes
<1>2. /\ st \in Seq(S) /\ Len(st) = Len(w) - 1 /\ Len(w) \in Nat
      /\ Len(st) >= 1 => Head(st) = w[Len(w) - 1]
      /\ Len(st) >= 2 => Tail(st)[1] = w[Len(w) - 2]
  BY Witnessed
<1>3. LET e == Executed(body, Start(st), script)
      IN  Satisfies(t, script) <=> e.ok /\ Len(e.stack) = 1 /\ e.stack[1] # Empty
  BY SatisfiesMeans
<1> HIDE DEF script, st, w, body
<1>4. IsTrace(body, Start(st), script, 11, r)
  <2>1. 11 \in Nat
    OBVIOUS
  <2> QED BY <1>1, <2>1, Stepwise
<1> HIDE DEF r
<1>5. Steps(r, body, script)
  BY <1>4, ElevenSteps
<1>6. At(r[0], TRUE, <<>>, st)
  BY <1>4 DEF IsTrace, At, Start
<1>7. Satisfies(t, script) <=> end.ok /\ Len(end.stack) = 1 /\ end.stack[1] # Empty
  BY <1>3, <1>4 DEF IsTrace
<1>8. CASE Len(st) < 2
  <2>1. Failed(r[1]) \/ Failed(r[3]) \/ Failed(r[10])
    BY <1>1, <1>2, <1>5, <1>6, <1>8, TooShort
  <2>2. PICK k \in 0 .. 11 : Failed(r[k])
    <3>1. 1 \in 0 .. 11 /\ 3 \in 0 .. 11 /\ 10 \in 0 .. 11
      OBVIOUS
    <3> QED BY <2>1, <3>1
  <2>3. end.ok = FALSE
    <3>1. 11 \in Nat
      OBVIOUS
    <3>2. Failed(end)
      BY <1>1, <1>4, <2>2, <3>1, StaysFailed
    <3> QED BY <3>2 DEF Failed, At
  <2>4. Len(w) # 3
    BY <1>2, <1>8
  <2> QED BY <1>7, <2>3, <2>4 DEF script, w
<1>9. CASE Len(st) >= 2
  <2> DEFINE tail == Tail(Tail(st))
  <2>1. /\ tail \in Seq(S) /\ Len(tail) = Len(st) - 2 /\ Len(st) \in Nat
    <3>1. Tail(st) \in Seq(S) /\ Len(Tail(st)) = Len(st) - 1 /\ Len(st) \in Nat
      BY <1>2, <1>9, HeadTailProperties
    <3> DEFINE rest == Tail(st)
    <3>2. rest \in Seq(S) /\ Len(rest) = Len(st) - 1 /\ Len(rest) >= 1
      BY <1>9, <3>1
    <3> HIDE DEF rest
    <3>3. Tail(rest) \in Seq(S) /\ Len(Tail(rest)) = Len(rest) - 1
      <4>1. rest # <<>>
        BY <3>2
      <4> QED BY <3>2, <4>1, HeadTailProperties
    <3> QED BY <3>1, <3>2, <3>3 DEF rest
  <2> HIDE DEF tail
  <2>2. ASSUME NEW x
        PROVE  Len(<<x>> \o tail) = 1 + Len(tail) /\ (<<x>> \o tail)[1] = x
    BY <2>1, Pushed
  <2>3. ASSUME NEW x PROVE Len(<<x>> \o tail) = 1 <=> Len(w) = 3
    BY <1>2, <2>1, <2>2
  <2>4. Len(w) = 3 => Head(st) = w[2] /\ Tail(st)[1] = w[1]
    <3> SUFFICES ASSUME Len(w) = 3 PROVE Head(st) = w[2] /\ Tail(st)[1] = w[1]
      OBVIOUS
    <3>1. Len(w) - 1 = 2 /\ Len(w) - 2 = 1 /\ Len(st) = 2
      BY <1>2
    <3>2. Len(st) >= 1 /\ Len(st) >= 2
      BY <3>1
    <3> QED BY <1>2, <3>1, <3>2
  <2>5. CASE Head(st) # Empty
    <3>1. At(r[11], TRUE /\ Tail(st)[1] = Sig(p, body), <<>>, <<Tag(instruction)>> \o tail)
      BY <1>1, <1>2, <1>5, <1>6, <1>9, <2>5, PrimaryPath DEF tail
    <3>2. /\ end.ok = (TRUE /\ Tail(st)[1] = Sig(p, body))
          /\ end.stack = <<Tag(instruction)>> \o tail
      BY <3>1, Ends
    <3>3. Len(<<Tag(instruction)>> \o tail) = 1 <=> Len(w) = 3
      BY <2>3
    <3>4. (<<Tag(instruction)>> \o tail)[1] = Tag(instruction)
      BY <2>2
    <3> QED BY <1>7, <2>4, <2>5, <3>2, <3>3, <3>4 DEF script, w, body
  <2>6. CASE Head(st) = Empty
    <3> DEFINE result == IF Tail(st)[1] = Sig(b, body) THEN Num(1) ELSE Empty
    <3>1. At(r[11], TRUE /\ SequenceHolds(body, csv), <<>>, <<result>> \o tail)
      BY <1>1, <1>2, <1>5, <1>6, <1>9, <2>6, BackupPath DEF tail
    <3>2. result # Empty <=> Tail(st)[1] = Sig(b, body)
      <4>1. Num(1) # Empty
        BY DEF Num, Empty
      <4> QED BY <4>1
    <3> HIDE DEF result
    <3>3. end.ok = (TRUE /\ SequenceHolds(body, csv)) /\ end.stack = <<result>> \o tail
      BY <3>1, Ends
    <3>4. Len(<<result>> \o tail) = 1 <=> Len(w) = 3
      BY <2>3
    <3>5. (<<result>> \o tail)[1] = result
      BY <2>2
    <3> HIDE DEF result
    <3> QED BY <1>7, <2>4, <2>6, <3>2, <3>3, <3>4, <3>5 DEF script, w, body
  <2> QED BY <2>5, <2>6
<1> QED
  <2>1. Len(st) < 2 \/ Len(st) >= 2
    BY <1>2
  <2> QED BY <1>8, <1>9, <2>1

\* What an address of create-address asks of a witness, with an instruction or
\* without one.
THEOREM DepositScriptMeans ==
    ASSUME NEW t, NEW S, t.witness \in Seq(S), t.witness # <<>>,
           NEW key, NEW instruction
    PROVE  Satisfies(t, CreateP2WSHAddress(key, instruction)) <=>
               Len(t.witness) = 2 /\ t.witness[1] = Sig(key, t.body)
<1> DEFINE w == t.witness
           body == t.body
           script == CreateP2WSHAddress(key, instruction)
           st == Reverse(Front(w))
           signed == <<Key(key)>> \o st
           L == IF instruction = NoInstruction THEN 2 ELSE 3
           r == Trace(body, Start(st), script, L)
           end == r[L]
<1>1. /\ DOMAIN script = 1 .. L /\ Readable(script, L)
      /\ script[1].op = "PUSH" /\ script[1].item = Key(key)
      /\ instruction = NoInstruction => script[2].op = "CHECKSIG"
      /\ instruction # NoInstruction => /\ script[2].op = "CHECKSIGVERIFY"
                                        /\ script[3].op = "PUSH"
                                        /\ script[3].item = Hash(instruction)
  <2>1. CASE instruction = NoInstruction
    <3>1. /\ DOMAIN script = 1 .. 2
          /\ script[1].op = "PUSH" /\ script[1].item = Key(key)
          /\ script[2].op = "CHECKSIG"
      BY <2>1 DEF CreateP2WSHAddress, Op, Push
    <3> HIDE DEF script
    <3>2. \A n \in 1 .. 2 : n \in {1, 2}
      OBVIOUS
    <3> QED BY <2>1, <3>1, <3>2 DEF Readable, Opcodes
  <2>2. CASE instruction # NoInstruction
    <3>1. /\ DOMAIN script = 1 .. 3
          /\ script[1].op = "PUSH" /\ script[1].item = Key(key)
          /\ script[2].op = "CHECKSIGVERIFY"
          /\ script[3].op = "PUSH" /\ script[3].item = Hash(instruction)
      BY <2>2 DEF CreateP2WSHAddress, Op, Push, Tag
    <3> HIDE DEF script
    <3>2. \A n \in 1 .. 3 : n \in {1, 2, 3}
      OBVIOUS
    <3> QED BY <2>2, <3>1, <3>2 DEF Readable, Opcodes
  <2> QED BY <2>1, <2>2
<1>2. /\ st \in Seq(S) /\ Len(st) = Len(w) - 1 /\ Len(w) \in Nat /\ Len(st) \in Nat
      /\ Len(st) >= 1 => Head(st) = w[Len(w) - 1]
  BY Witnessed
<1>3. LET e == Executed(body, Start(st), script)
      IN  Satisfies(t, script) <=> e.ok /\ Len(e.stack) = 1 /\ e.stack[1] # Empty
  BY SatisfiesMeans
<1> HIDE DEF script, st, w, body
<1>4. L \in Nat /\ L >= 2
  OBVIOUS
<1>5. IsTrace(body, Start(st), script, L, r)
  <2> HIDE DEF L
  <2> QED BY <1>1, <1>4, Stepwise
<1> HIDE DEF r
<1>6. /\ r[1] = Execute(body, r[0], script[1])
      /\ r[2] = Execute(body, r[1], script[2])
      /\ instruction # NoInstruction => r[3] = Execute(body, r[2], script[3])
  <2>1. \A n \in 1 .. L : r[n] = Execute(body, r[n - 1], script[n])
    BY <1>5 DEF IsTrace
  <2>2. r[1] = Execute(body, r[1 - 1], script[1]) /\ r[2] = Execute(body, r[2 - 1], script[2])
    BY <1>4, <2>1
  <2>3. instruction # NoInstruction => r[3] = Execute(body, r[3 - 1], script[3])
    BY <2>1
  <2>4. 1 - 1 = 0 /\ 2 - 1 = 1 /\ 3 - 1 = 2
    OBVIOUS
  <2> QED BY <2>2, <2>3, <2>4
<1>7. At(r[0], TRUE, <<>>, st)
  BY <1>5 DEF IsTrace, At, Start
<1>8. Satisfies(t, script) <=> end.ok /\ Len(end.stack) = 1 /\ end.stack[1] # Empty
  BY <1>3, <1>5 DEF IsTrace
<1>9. FALSE \notin Range(<<>>)
  BY Parts
<1>10. At(r[1], TRUE, <<>>, signed)
  BY <1>1, <1>2, <1>6, <1>7, <1>9, PushStep
<1>11. Len(signed) = Len(st) + 1 /\ Tail(signed) = st
  BY <1>2, Pushed
<1>12. Signed(body, signed) <=> st[1] = Sig(key, body)
  BY <1>2, SignedBy
<1> HIDE DEF signed
<1>13. CASE Len(st) = 0
  <2>1. /\ script[2].op \notin {"ELSE", "ENDIF"} /\ Len(signed) < Operands(script[2].op)
    BY <1>1, <1>11, <1>13 DEF Operands
  <2>2. Failed(Execute(body, r[1], script[2]))
    BY <1>9, <1>10, <2>1, ShortStep
  <2>3. Failed(r[2]) /\ 2 \in 0 .. L
    BY <1>4, <1>6, <2>2
  <2> HIDE DEF L
  <2>4. Failed(end)
    BY <1>1, <1>4, <1>5, <2>3, StaysFailed
  <2>5. end.ok = FALSE
    BY <2>4 DEF Failed, At
  <2>6. Len(w) # 2
    BY <1>2, <1>13
  <2> QED BY <1>8, <2>5, <2>6 DEF script, w
<1>14. CASE Len(st) >= 1
  <2> DEFINE tail == Tail(st)
  <2>1. tail \in Seq(S) /\ Len(tail) = Len(st) - 1 /\ Head(st) = st[1]
    <3>1. st # <<>>
      BY <1>14
    <3> QED BY <1>2, <3>1, HeadTailProperties
  <2>2. ~(Len(signed) < 2)
    BY <1>2, <1>11, <1>14
  <2> HIDE DEF tail
  <2>3. ASSUME NEW x
        PROVE  (<<x>> \o tail)[1] = x /\ (Len(<<x>> \o tail) = 1 <=> Len(w) = 2)
    <3>1. Len(<<x>> \o tail) = Len(tail) + 1 /\ (<<x>> \o tail)[1] = x
      BY <2>1, Pushed
    <3> QED BY <1>2, <2>1, <3>1
  <2>4. Len(w) = 2 => st[1] = w[1]
    <3> SUFFICES ASSUME Len(w) = 2 PROVE st[1] = w[1]
      OBVIOUS
    <3>1. Len(w) - 1 = 1
      OBVIOUS
    <3> QED BY <1>2, <1>14, <2>1, <3>1
  <2>5. CASE instruction = NoInstruction
    <3> DEFINE result == IF st[1] = Sig(key, body) THEN Num(1) ELSE Empty
    <3>1. At(r[2], TRUE, <<>>,
             <<IF Signed(body, signed) THEN Num(1) ELSE Empty>> \o Tail(Tail(signed)))
      BY <1>1, <1>6, <1>9, <1>10, <2>2, <2>5, CheckSigStep
    <3>2. (IF Signed(body, signed) THEN Num(1) ELSE Empty) = result
      BY <1>12
    <3>3. result # Empty <=> st[1] = Sig(key, body)
      <4>1. Num(1) # Empty
        BY DEF Num, Empty
      <4> QED BY <4>1
    <3> HIDE DEF result
    <3>4. At(r[2], TRUE, <<>>, <<result>> \o tail)
      BY <1>11, <3>1, <3>2 DEF tail
    <3>5. end.ok = TRUE /\ end.stack = <<result>> \o tail
      BY <2>5, <3>4 DEF At
    <3>6. (<<result>> \o tail)[1] = result /\ (Len(<<result>> \o tail) = 1 <=> Len(w) = 2)
      BY <2>3
    <3> QED BY <1>8, <2>4, <3>3, <3>5, <3>6 DEF script, w, body
  <2>6. CASE instruction # NoInstruction
    <3> DEFINE verified == TRUE /\ Signed(body, signed)
               tag == Hash(instruction)
    <3>1. At(r[2], TRUE /\ Signed(body, signed), <<>>, Tail(Tail(signed)))
      BY <1>1, <1>6, <1>9, <1>10, <2>2, <2>6, CheckSigVerifyStep
    <3>2. tag # Empty
      BY DEF Hash, Empty, Num
    <3> HIDE DEF verified, tag
    <3>3. At(r[2], verified, <<>>, tail)
      BY <1>11, <3>1 DEF verified, tail
    <3>4. At(r[3], verified, <<>>, <<tag>> \o tail)
      <4>1. /\ script[3].op = "PUSH" /\ script[3].item = tag /\ Len(tail) \in Nat
            /\ r[3] = Execute(body, r[2], script[3])
        BY <1>1, <1>6, <2>1, <2>6 DEF tag
      <4> QED BY <1>9, <3>3, <4>1, PushStep
    <3>5. end.ok = verified /\ end.stack = <<tag>> \o tail
      BY <2>6, <3>4 DEF At
    <3>6. (<<tag>> \o tail)[1] = tag /\ (Len(<<tag>> \o tail) = 1 <=> Len(w) = 2)
      BY <2>3
    <3> QED BY <1>8, <1>12, <2>4, <3>2, <3>5, <3>6 DEF script, w, body, verified
  <2> QED BY <2>5, <2>6
<1> QED
  <2>1. Len(st) = 0 \/ Len(st) >= 1
    BY <1>2
  <2> QED BY <1>13, <1>14, <2>1

(***************************************************************************)
(* The tool.                                                               *)
(***************************************************************************)
\* The transaction a configuration asks for.
Built(c) ==
    CreateBackupSpendTransaction(Amount, DestAmount(c), ChangeFee(c), c.terms.csv)

\* A run has its configuration in hand from LoadConfig to its end.
BuiltInv ==
    /\ pc \in {"idle", "gettx", "build", "post"}
    /\ IF pc = "idle" THEN cfg = None ELSE cfg \in Configs
    /\ IF pc = "post" THEN tx.body = Built(cfg) ELSE tx = None

\* No run is under way in the beginning.
LEMMA BuiltInit == Init => BuiltInv
  BY DEF Init, BuiltInv

\* Every step keeps the configuration and the body made from it together.
LEMMA BuiltNext == BuiltInv /\ [Next]_vars => BuiltInv'
<1> SUFFICES ASSUME BuiltInv, [Next]_vars PROVE BuiltInv'
  OBVIOUS
<1> USE DEF BuiltInv
<1>1. CASE LoadConfig
  BY <1>1 DEF LoadConfig
<1>2. CASE GetTx
  BY <1>2 DEF GetTx
<1>3. CASE Build
  <2>1. tx'.body = Built(cfg)
    BY <1>3 DEF Build, Built, AttachBackupSignature
  <2>2. pc' = "post" /\ cfg' = cfg /\ pc = "build"
    BY <1>3 DEF Build
  <2>3. Built(cfg)' = Built(cfg)
    BY <2>2 DEF Built, CreateBackupSpendTransaction, DestAmount, ChangeFee, Change
  <2> QED
    BY <2>1, <2>2, <2>3
<1>4. CASE GetTxFails \/ RefuseToBuild \/ PostTx
  BY <1>4 DEF GetTxFails, RefuseToBuild, PostTx, Exit
<1>5. CASE NewBlock \/ PrimarySpends \/ BackupElsewhere \/ UNCHANGED vars
  <2>1. UNCHANGED <<pc, cfg, tx>>
    BY <1>5 DEF NewBlock, PrimarySpends, BackupElsewhere, vars
  <2> QED
    BY <2>1 DEF Built, CreateBackupSpendTransaction, DestAmount, ChangeFee, Change
<1> QED
  BY <1>1, <1>2, <1>3, <1>4, <1>5 DEF Next

\* Hence they stay together.
LEMMA BuiltAlways == Spec => []BuiltInv
  BY BuiltInit, BuiltNext, PTL DEF Spec

\* The numbers of a configuration.
LEMMA ConfigTypes ==
    ASSUME NEW c \in Configs
    PROVE  c.send \in Int /\ c.fee \in Int /\ c.deduct \in BOOLEAN
<1>1. c.send \in SendAmounts /\ c.fee \in FeeAmounts /\ c.deduct \in BOOLEAN
  BY DEF Configs
<1>2. c.send \in Int
  BY <1>1, SpendAssumption
<1>3. c.fee \in Nat
  BY <1>1, SpendAssumption
<1> QED
  BY <1>1, <1>2, <1>3

\* Whatever is asked for, what is not sent and not kept as fee comes back, but
\* for a remainder that does not exceed the dust limit.
LEMMA ChangeKeeps ==
    ASSUME NEW amount \in Int, NEW send \in Int, NEW fee \in Int,
           send + fee <= amount
    PROVE  /\ Change(amount, send, fee) \in Nat
           /\ fee <= amount - send - Change(amount, send, fee)
           /\ amount - send - Change(amount, send, fee) <= fee + Dust
  BY SpendAssumption DEF Change

\* The ages of the output.
AgeInv ==
    /\ terms \in Terms
    /\ age \in 0 .. MaxAge /\ spentAt \in 0 .. MaxAge \cup {None}

\* Blocks are counted up to the bound, and the age at the spend is one of them.
LEMMA AgeNext == AgeInv /\ [Next]_vars => AgeInv'
<1> SUFFICES ASSUME AgeInv, [Next]_vars PROVE AgeInv'
  OBVIOUS
<1> USE DEF AgeInv
<1>1. CASE NewBlock
  BY <1>1, SpendAssumption DEF NewBlock
<1>2. CASE PostTx \/ PrimarySpends \/ BackupElsewhere
  <2>1. UNCHANGED <<terms, age>> /\ spentAt' \in {age, spentAt}
    BY <1>2 DEF PostTx, PrimarySpends, BackupElsewhere, Accept
  <2> QED
    BY <2>1
<1> QED
  BY <1>1, <1>2 DEF Next, LoadConfig, GetTx, GetTxFails, Build, RefuseToBuild, vars

\* Every configuration gives a transaction whose input has a 32-bit sequence,
\* the negative delays included, and the chain's ages stay where they should.
THEOREM TypeCorrect == Spec => []TypeOK
<1>1. AgeInv /\ BuiltInv => TypeOK
  <2> SUFFICES ASSUME AgeInv, BuiltInv PROVE TypeOK
    OBVIOUS
  <2>1. ASSUME tx # None
        PROVE  /\ tx.body.sequence \in 0 .. U32 - 1
               /\ tx.body.dest \in Int /\ tx.body.change \in Int
    <3>1. cfg \in Configs /\ tx.body = Built(cfg)
      BY <2>1 DEF BuiltInv
    <3>2. /\ cfg.send \in Int /\ cfg.fee \in Int /\ cfg.deduct \in BOOLEAN
          /\ Amount \in Int
      BY <3>1, ConfigTypes, SpendAssumption
    <3>3. cfg.terms.csv \in Int
      BY <3>1, SpendAssumption DEF Configs, Terms
    <3>4. U32 \in Nat /\ U32 > 0
      BY ScriptAssumption
    <3>5. cfg.terms.csv % U32 \in 0 .. U32 - 1
      BY <3>3, <3>4
    <3>6. DestAmount(cfg) \in Int /\ ChangeFee(cfg) \in Int
      BY <3>2 DEF DestAmount, ChangeFee
    <3>7. Change(Amount, DestAmount(cfg), ChangeFee(cfg)) \in Int
      BY <3>2, <3>6 DEF Change
    <3> QED
      BY <3>1, <3>5, <3>6, <3>7 DEF Built, CreateBackupSpendTransaction
  <2> QED
    BY <2>1 DEF AgeInv, BuiltInv, TypeOK
<1>2. Init => AgeInv
  BY SpendAssumption DEF Init, AgeInv
<1> QED
  BY <1>1, <1>2, AgeNext, BuiltAlways, PTL DEF Spec

\* spend with the fee on top: the receiver gets send_amount, the miner the fee
\* and at most a change too small to keep, for every amount, fee and dust limit.
THEOREM FeePaid == Spec => []FeeOnTopPaid
<1>1. BuiltInv => FeeOnTopPaid
  <2> SUFFICES ASSUME BuiltInv, pc = "post", ~cfg.deduct, cfg.send + cfg.fee <= Amount
               PROVE  /\ tx.body.dest = cfg.send
                      /\ cfg.fee <= Amount - tx.body.dest - tx.body.change
                      /\ Amount - tx.body.dest - tx.body.change <= cfg.fee + Dust
    BY DEF FeeOnTopPaid
  <2>1. cfg \in Configs /\ tx.body = Built(cfg)
    BY DEF BuiltInv
  <2>2. /\ tx.body.dest = cfg.send
        /\ tx.body.change = Change(Amount, cfg.send, cfg.fee)
    BY <2>1 DEF Built, CreateBackupSpendTransaction, DestAmount, ChangeFee
  <2>3. cfg.send \in Int /\ cfg.fee \in Int /\ Amount \in Int
    BY <2>1, ConfigTypes, SpendAssumption
  <2>4. /\ cfg.fee <= Amount - cfg.send - Change(Amount, cfg.send, cfg.fee)
        /\ Amount - cfg.send - Change(Amount, cfg.send, cfg.fee) <= cfg.fee + Dust
    BY <2>3, ChangeKeeps
  <2> QED
    BY <2>2, <2>4
<1> QED
  BY <1>1, BuiltAlways, PTL

(***************************************************************************)
(* The delay.                                                              *)
(***************************************************************************)
\* A delay that a relative lock can express is itself, not switched off.
LEMMA InRangeLock ==
    ASSUME NEW n \in 0 .. LockSize - 1
    PROVE  n % LockSize = n /\ ~Disabled(n)
<1>1. LockSize \in Nat /\ LockSize > 0 /\ n \in Nat /\ n < LockSize
  BY ScriptAssumption
<1>2. n % LockSize = n
  BY <1>1
<1>3. U32 \div 2 \in Nat /\ n < U32 \div 2
  BY <1>1, ScriptAssumption
<1>4. n \div (U32 \div 2) = 0
  <2> DEFINE half == U32 \div 2
  <2>1. half \in Nat /\ n < half
    BY <1>3
  <2> HIDE DEF half
  <2>2. n \div half = 0
    BY <1>1, <2>1
  <2> QED
    BY <2>2 DEF half
<1> QED
  BY <1>2, <1>4 DEF Disabled

\* Whoever holds the backup key, and whatever version and sequence they give
\* their transaction: if it passes the script's lock and may be mined, then the
\* output has the age the address was made with.
THEOREM DelayHolds ==
    ASSUME NEW body, body.sequence \in Nat, body.version \in Nat,
           NEW n \in 0 .. LockSize - 1, NEW confirmations \in Nat,
           SequenceHolds(body, n), Mature(body, confirmations)
    PROVE  confirmations >= n
<1>1. body.version >= 2 /\ ~Disabled(body.sequence) /\ n <= body.sequence % LockSize
  BY InRangeLock DEF SequenceHolds
<1>2. body.sequence % LockSize <= confirmations
  BY <1>1 DEF Mature
<1>3. body.sequence % LockSize \in Int
  BY ScriptAssumption
<1> QED
  BY <1>1, <1>2, <1>3

\* The transaction of the tool passes the lock of an address made with the same
\* delay, and may be mined as soon as the output is that old.
THEOREM ToolKeepsDelay ==
    ASSUME NEW amount \in Int, NEW send \in Int, NEW fee \in Int,
           NEW n \in 0 .. LockSize - 1, NEW confirmations \in Nat, confirmations >= n
    PROVE  LET body == CreateBackupSpendTransaction(amount, send, fee, n)
           IN  SequenceHolds(body, n) /\ Mature(body, confirmations)
<1>1. LockSize \in Nat /\ n \in Nat /\ n < LockSize /\ U32 \in Nat /\ n < U32
  BY ScriptAssumption
<1>2. n % U32 = n
  BY <1>1
<1>3. n % LockSize = n /\ ~Disabled(n)
  BY InRangeLock
<1> DEFINE body == CreateBackupSpendTransaction(amount, send, fee, n)
<1>4. body.version = 2 /\ body.sequence = n
  BY <1>2 DEF CreateBackupSpendTransaction
<1> HIDE DEF body
<1>5. SequenceHolds(body, n)
  BY <1>1, <1>3, <1>4 DEF SequenceHolds
<1>6. Mature(body, confirmations)
  BY <1>1, <1>3, <1>4 DEF Mature
<1> QED
  BY <1>5, <1>6 DEF body

(***************************************************************************)
(* The output.                                                             *)
(***************************************************************************)
\* What is about to be posted is signed for the backup path.
Posted ==
    pc = "post" => tx = AttachBackupSignature(Built(cfg), ScriptFor(cfg.terms),
                                              Sig("backup", Built(cfg)))

\* Build makes it so, and nothing else touches it before PostTx.
LEMMA PostedNext == Posted /\ BuiltInv /\ [Next]_vars => Posted'
<1> SUFFICES ASSUME Posted, BuiltInv, [Next]_vars PROVE Posted'
  OBVIOUS
<1>1. CASE Build
  <2>1. /\ tx' = AttachBackupSignature(Built(cfg), ScriptFor(cfg.terms), Sig("backup", Built(cfg)))
        /\ cfg' = cfg
    BY <1>1 DEF Build, Built
  <2> QED BY <2>1 DEF Posted, Built, ScriptFor, CreateBackupSpendTransaction, DestAmount,
                      ChangeFee, Change
<1>2. CASE LoadConfig \/ GetTx \/ GetTxFails \/ RefuseToBuild \/ PostTx
  BY <1>2 DEF LoadConfig, GetTx, GetTxFails, RefuseToBuild, PostTx, Exit, Posted
<1>3. CASE NewBlock \/ PrimarySpends \/ BackupElsewhere \/ UNCHANGED vars
  <2>1. pc' = pc /\ cfg' = cfg /\ tx' = tx
    BY <1>3 DEF NewBlock, PrimarySpends, BackupElsewhere, vars
  <2> QED BY <2>1 DEF Posted, Built, ScriptFor, CreateBackupSpendTransaction, DestAmount,
                      ChangeFee, Change
<1> QED BY <1>1, <1>2, <1>3 DEF Next

\* Hence it is so throughout.
LEMMA PostedAlways == Spec => []Posted
<1>1. Init => Posted
  BY DEF Init, Posted
<1> QED BY <1>1, PostedNext, BuiltAlways, PTL DEF Spec

\* Whatever transaction the network accepts for an output with a backup path:
\* the primary key signed it, or the backup key did and the delay is over.
THEOREM OnlyTheOwners ==
    ASSUME NEW t \in Terms, InRange(t), NEW S, NEW other,
           other.witness \in Seq(S), other.witness # <<>>,
           other.body.version \in Nat, other.body.sequence \in Nat,
           NEW amount, NEW confirmations \in Nat,
           Spends(other, ScriptFor(t), amount, confirmations)
    PROVE  \/ /\ other.witness[2] # Empty
              /\ other.witness[1] = Sig("primary", other.body)
           \/ /\ other.witness[2] = Empty
              /\ other.witness[1] = Sig("backup", other.body)
              /\ confirmations >= t.csv
<1>1. /\ Satisfies(other, CreateP2WSHAddressWithBackup("primary", "backup", t.instruction, t.csv))
      /\ Mature(other.body, confirmations)
  BY DEF Spends, ScriptFor
<1>2. IF other.witness[2] # Empty
      THEN other.witness[1] = Sig("primary", other.body)
      ELSE other.witness[1] = Sig("backup", other.body) /\ SequenceHolds(other.body, t.csv)
  BY <1>1, BackupScriptMeans
<1>3. SequenceHolds(other.body, t.csv) => confirmations >= t.csv
  <2>1. t.csv \in 0 .. LockSize - 1
    BY DEF InRange
  <2> DEFINE body == other.body
  <2>2. body.version \in Nat /\ body.sequence \in Nat /\ Mature(body, confirmations)
    BY <1>1
  <2> HIDE DEF body
  <2>3. SequenceHolds(body, t.csv) => confirmations >= t.csv
    BY <2>1, <2>2, DelayHolds
  <2> QED BY <2>3 DEF body
<1> QED BY <1>2, <1>3

\* The parts of a transaction with the witness of the backup path.
LEMMA BackupTx ==
    ASSUME NEW t, NEW body, NEW k
    PROVE  LET other == AttachBackupSignature(body, ScriptFor(t), Sig(k, body))
           IN  /\ other.body = body /\ Last(other.witness) = ScriptFor(t)
               /\ other.witness \in Seq({Sig(k, body), Empty, ScriptFor(t)})
               /\ other.witness # <<>> /\ Len(other.witness) = 3
               /\ other.witness[1] = Sig(k, body) /\ other.witness[2] = Empty
<1> DEFINE a == Sig(k, body)
           b == Empty
           c == ScriptFor(t)
           w == <<a, b, c>>
<1> HIDE DEF a, b, c
<1>1. /\ w \in Seq({a, b, c}) /\ w # <<>> /\ Len(w) = 3
      /\ w[1] = a /\ w[2] = b /\ w[3] = c
  OBVIOUS
<1>2. Last(w) = c
  BY <1>1 DEF Last
<1> HIDE DEF w
<1>3. LET other == [body |-> body, witness |-> w]
      IN  other.body = body /\ other.witness = w
  OBVIOUS
<1> QED BY <1>1, <1>2, <1>3 DEF AttachBackupSignature, w, a, b, c

\* And of the primary owner's.
LEMMA PrimaryTxFields ==
    ASSUME NEW t
    PROVE  LET other == PrimaryTx(t)
           IN  /\ other.body = Whole(2, U32 - 1) /\ Last(other.witness) = ScriptFor(t)
               /\ other.witness \in Seq({Sig("primary", other.body), Num(1), ScriptFor(t)})
               /\ other.witness # <<>> /\ Len(other.witness) = 3
               /\ other.witness[1] = Sig("primary", other.body) /\ other.witness[2] # Empty
<1> DEFINE body == Whole(2, U32 - 1)
           a == Sig("primary", body)
           b == Num(1)
           c == ScriptFor(t)
           w == <<a, b, c>>
<1>1. b # Empty
  BY DEF Num, Empty
<1> HIDE DEF a, b, c, body
<1>2. /\ w \in Seq({a, b, c}) /\ w # <<>> /\ Len(w) = 3
      /\ w[1] = a /\ w[2] = b /\ w[3] = c
  OBVIOUS
<1>3. Last(w) = c
  BY <1>2 DEF Last
<1> HIDE DEF w
<1>4. LET other == [body |-> body, witness |-> w]
      IN  other.body = body /\ other.witness = w
  OBVIOUS
<1> QED BY <1>1, <1>2, <1>3, <1>4 DEF PrimaryTx, w, a, b, c, body

\* An accepted transaction of the backup key keeps the delay.
LEMMA AcceptedInTime ==
    ASSUME AgeInv, NEW body, body.version \in Nat, body.sequence \in Nat, NEW t \in Terms,
           Accept(AttachBackupSignature(body, ScriptFor(t), Sig("backup", body))),
           terms' = terms
    PROVE  BackupWaits'
<1> DEFINE other == AttachBackupSignature(body, ScriptFor(t), Sig("backup", body))
<1>1. /\ Spends(other, ScriptFor(terms), Amount, age)
      /\ spender' = other /\ spentAt' = age
  BY DEF Accept
<1>2. /\ other.body = body /\ other.witness \in Seq({Sig("backup", body), Empty, ScriptFor(t)})
      /\ other.witness # <<>> /\ other.witness[2] = Empty
  BY BackupTx
<1> HIDE DEF other
<1>3. terms \in Terms /\ age \in Nat
  BY DEF AgeInv
<1>4. ASSUME InRange(terms) PROVE age >= terms.csv
  <2>1. other.body.version \in Nat /\ other.body.sequence \in Nat
    BY <1>2
  <2>2. \/ other.witness[2] # Empty
        \/ age >= terms.csv
    BY <1>1, <1>2, <1>3, <1>4, <2>1, OnlyTheOwners
  <2> QED BY <1>2, <2>2
<1> QED BY <1>1, <1>4 DEF BackupWaits, InRange

\* The value of an output leaves it by the backup path only when the output is
\* as deep as the delay, whoever uses the backup key.
THEOREM DelayKept == Spec => []BackupWaits
<1>1. ASSUME AgeInv, BuiltInv, Posted, BackupWaits, [Next]_vars PROVE BackupWaits'
  <2>1. CASE UNCHANGED <<spender, spentAt, terms>>
    BY <1>1, <2>1 DEF BackupWaits, InRange
  <2>2. CASE PostTx /\ Accept(tx)
    <3>1. /\ tx = AttachBackupSignature(Built(cfg), ScriptFor(cfg.terms), Sig("backup", Built(cfg)))
          /\ terms' = terms /\ cfg \in Configs
      BY <1>1, <2>2 DEF PostTx, Posted, BuiltInv
    <3>2. cfg.terms \in Terms /\ cfg.terms.csv \in Int
      BY <3>1, SpendAssumption DEF Configs, Terms
    <3>3. U32 \in Nat /\ U32 > 0
      BY ScriptAssumption
    <3>4. Built(cfg).version \in Nat /\ Built(cfg).sequence \in Nat
      BY <3>2, <3>3 DEF Built, CreateBackupSpendTransaction
    <3> QED BY <1>1, <2>2, <3>1, <3>2, <3>4, AcceptedInTime
  <2>3. CASE PrimarySpends
    <3>1. spender'.witness[2] # Empty
      BY <2>3, PrimaryTxFields DEF PrimarySpends, Accept
    <3> QED BY <3>1 DEF BackupWaits
  <2>4. CASE BackupElsewhere
    <3>1. PICK version \in {1, 2}, sequence \in 0 .. U32 - 1 :
             Accept(AttachBackupSignature(Whole(version, sequence), ScriptFor(terms),
                                          Sig("backup", Whole(version, sequence))))
      BY <2>4 DEF BackupElsewhere
    <3> DEFINE body == Whole(version, sequence)
    <3>2. body.version \in Nat /\ body.sequence \in Nat
      BY ScriptAssumption DEF Whole
    <3>3. terms' = terms /\ terms \in Terms
      BY <1>1, <2>4 DEF BackupElsewhere, AgeInv
    <3> HIDE DEF body
    <3>4. Accept(AttachBackupSignature(body, ScriptFor(terms), Sig("backup", body)))
      BY <3>1 DEF body
    <3> QED BY <1>1, <3>2, <3>3, <3>4, AcceptedInTime
  <2> QED
    BY <1>1, <2>1, <2>2, <2>3, <2>4 DEF Next, vars, LoadConfig, GetTx, GetTxFails, Build,
       RefuseToBuild, PostTx, NewBlock
<1>2. Init => AgeInv /\ BackupWaits
  BY SpendAssumption DEF Init, AgeInv, BackupWaits
<1> QED BY <1>1, <1>2, AgeNext, BuiltAlways, PostedAlways, PTL DEF Spec

\* The highest number of a word has its highest bit set.
LEMMA FinalIsDisabled == U32 - 1 \in Nat /\ Disabled(U32 - 1)
<1> DEFINE half == U32 \div 2
<1>1. LockSize \in Nat /\ LockSize > 0 /\ U32 \in Nat /\ U32 >= 2 * LockSize /\ U32 % 2 = 0
  BY ScriptAssumption
<1>2. half \in Nat /\ half >= 1 /\ U32 = 2 * half
  BY <1>1
<1> HIDE DEF half
<1>3. U32 - 1 \in Nat /\ U32 - 1 = 1 * half + (half - 1) /\ half - 1 \in 0 .. half - 1
  BY <1>2
<1>4. (U32 - 1) \div half = 1
  BY <1>2, <1>3
<1> QED BY <1>3, <1>4 DEF Disabled, half

\* Every address made with an instruction leaves the primary owner the output,
\* at every age, for every delay and amount.
THEOREM PrimaryAlwaysFree == Spec => []PrimaryFree
<1>1. ASSUME terms.instruction # NoInstruction
      PROVE  Spends(PrimaryTx(terms), ScriptFor(terms), Amount, age)
  <2> DEFINE other == PrimaryTx(terms)
             body == Whole(2, U32 - 1)
  <2>1. /\ other.body = body /\ Last(other.witness) = ScriptFor(terms)
        /\ other.witness \in Seq({Sig("primary", other.body), Num(1), ScriptFor(terms)})
        /\ other.witness # <<>> /\ Len(other.witness) = 3
        /\ other.witness[1] = Sig("primary", other.body) /\ other.witness[2] # Empty
    BY PrimaryTxFields
  <2>2. /\ body.amount = Amount /\ body.dest = Amount /\ body.change = 0
        /\ body.sequence = U32 - 1
    BY DEF Whole
  <2> HIDE DEF other, body
  <2>3. Mature(other.body, age)
    BY <2>1, <2>2, FinalIsDisabled DEF Mature
  <2>4. Tag(terms.instruction) # Empty
    BY <1>1 DEF Tag, Hash, Empty, Num
  <2>5. Satisfies(other, ScriptFor(terms))
    <3>1. Satisfies(other, CreateP2WSHAddressWithBackup("primary", "backup",
                                                        terms.instruction, terms.csv))
      BY <2>1, <2>4, BackupScriptMeans
    <3> QED BY <3>1 DEF ScriptFor
  <2>6. other.body.dest >= 0 /\ other.body.dest + other.body.change <= Amount
    BY <2>1, <2>2, SpendAssumption
  <2> QED BY <2>1, <2>2, <2>3, <2>5, <2>6 DEF Spends, other
<1>2. PrimaryFree
  BY <1>1 DEF PrimaryFree
<1> QED BY <1>2, PTL

\* What spend builds goes through once the delay is over.
THEOREM ToolGoesThrough == Spec => []BackupGoesThrough
<1>1. ASSUME AgeInv, BuiltInv, Posted PROVE BackupGoesThrough
  <2> SUFFICES ASSUME pc = "post", cfg.terms = terms, InRange(terms), age >= terms.csv,
                      DestAmount(cfg) >= 0, DestAmount(cfg) + ChangeFee(cfg) <= Amount
               PROVE  Spends(tx, ScriptFor(terms), Amount, age)
    BY DEF BackupGoesThrough
  <2> DEFINE body == Built(cfg)
             dest == DestAmount(cfg)
             fee == ChangeFee(cfg)
             csv == terms.csv
  <2>1. tx = AttachBackupSignature(body, ScriptFor(terms), Sig("backup", body))
    BY <1>1 DEF Posted
  <2>2. body = CreateBackupSpendTransaction(Amount, dest, fee, csv)
    BY DEF Built
  <2>3. cfg \in Configs /\ age \in Nat /\ csv \in 0 .. LockSize - 1 /\ Amount \in Int
    BY <1>1, SpendAssumption DEF BuiltInv, AgeInv, InRange
  <2>4. dest \in Int /\ fee \in Nat
    <3>1. cfg.send \in Int /\ cfg.fee \in Nat /\ cfg.deduct \in BOOLEAN
      <4>1. cfg.fee \in FeeAmounts
        BY <2>3 DEF Configs
      <4> QED BY <2>3, <4>1, ConfigTypes, SpendAssumption
    <3> QED BY <3>1 DEF DestAmount, ChangeFee
  <2> HIDE DEF body
  <2>5. /\ tx.body = body /\ Last(tx.witness) = ScriptFor(terms)
        /\ tx.witness \in Seq({Sig("backup", body), Empty, ScriptFor(terms)})
        /\ tx.witness # <<>> /\ Len(tx.witness) = 3
        /\ tx.witness[1] = Sig("backup", body) /\ tx.witness[2] = Empty
    <3> DEFINE other == AttachBackupSignature(body, ScriptFor(terms), Sig("backup", body))
    <3>1. /\ other.body = body /\ Last(other.witness) = ScriptFor(terms)
          /\ other.witness \in Seq({Sig("backup", body), Empty, ScriptFor(terms)})
          /\ other.witness # <<>> /\ Len(other.witness) = 3
          /\ other.witness[1] = Sig("backup", body) /\ other.witness[2] = Empty
      BY BackupTx
    <3> HIDE DEF other
    <3>2. tx = other
      BY <2>1 DEF other
    <3> QED BY <3>1, <3>2
  <2> HIDE DEF dest, fee, csv
  <2>6. /\ body.amount = Amount /\ body.dest = dest
        /\ body.change = Change(Amount, dest, fee)
    BY <2>2 DEF CreateBackupSpendTransaction
  <2>7. SequenceHolds(body, csv) /\ Mature(body, age)
    <3>1. age >= csv
      BY DEF csv
    <3>2. LET b == CreateBackupSpendTransaction(Amount, dest, fee, csv)
          IN  SequenceHolds(b, csv) /\ Mature(b, age)
      BY <2>3, <2>4, <3>1, ToolKeepsDelay
    <3> QED BY <2>2, <3>2
  <2>8. dest >= 0 /\ dest + Change(Amount, dest, fee) <= Amount
    <3>1. dest + fee <= Amount /\ dest >= 0 /\ fee \in Int
      BY <2>4 DEF dest, fee
    <3>2. /\ Change(Amount, dest, fee) \in Nat
          /\ fee <= Amount - dest - Change(Amount, dest, fee)
      BY <2>3, <2>4, <3>1, ChangeKeeps
    <3> QED BY <2>3, <2>4, <3>1, <3>2
  <2>9. Satisfies(tx, ScriptFor(terms))
    <3>1. SequenceHolds(tx.body, terms.csv)
      BY <2>5, <2>7 DEF csv
    <3>2. Satisfies(tx, CreateP2WSHAddressWithBackup("primary", "backup",
                                                     terms.instruction, terms.csv))
      BY <2>5, <3>1, BackupScriptMeans
    <3> QED BY <3>2 DEF ScriptFor
  <2> QED BY <2>5, <2>6, <2>7, <2>8, <2>9 DEF Spends
<1>2. Init => AgeInv
  BY SpendAssumption DEF Init, AgeInv
<1> QED BY <1>1, <1>2, AgeNext, BuiltAlways, PostedAlways, PTL DEF Spec

\* CreateSpendTransaction and AttachSignature spend what create-address made,
\* with an instruction and without, at every age.
THEOREM DepositsSpendable == Spec => []DepositSpendable
<1>1. ASSUME NEW instruction \in Instructions, NEW send \in SendAmounts, NEW fee \in FeeAmounts,
             send + fee \in 0 .. Amount, send >= 0
      PROVE  LET script == CreateP2WSHAddress("primary", instruction)
                 body == CreateSpendTransaction(Amount, send, fee)
             IN  Spends(AttachSignature(body, script, Sig("primary", body)), script, Amount, age)
  <2> DEFINE script == CreateP2WSHAddress("primary", instruction)
             body == CreateSpendTransaction(Amount, send, fee)
             sig == Sig("primary", body)
             w == <<sig, script>>
             other == AttachSignature(body, script, sig)
  <2>1. /\ body.amount = Amount /\ body.dest = send /\ body.version = 1
        /\ body.change = Change(Amount, send, fee)
    BY DEF CreateSpendTransaction
  <2>2. other.body = body /\ other.witness = w
    BY DEF AttachSignature
  <2> HIDE DEF other, script, body, sig
  <2>3. w \in Seq({sig, script}) /\ w # <<>> /\ Len(w) = 2 /\ w[1] = sig /\ w[2] = script
    OBVIOUS
  <2>4. Last(w) = script
    BY <2>3 DEF Last
  <2> HIDE DEF w
  <2>5. Satisfies(other, script)
    <3>1. other.witness[1] = Sig("primary", other.body)
      BY <2>2, <2>3 DEF sig
    <3>2. Satisfies(other, CreateP2WSHAddress("primary", instruction))
      BY <2>2, <2>3, <3>1, DepositScriptMeans
    <3> QED BY <3>2 DEF script
  <2>6. send >= 0 /\ send + Change(Amount, send, fee) <= Amount
    <3>1. send \in Int /\ fee \in Nat /\ fee \in Int /\ Amount \in Int /\ send + fee <= Amount
      BY <1>1, SpendAssumption
    <3>2. /\ Change(Amount, send, fee) \in Nat
          /\ fee <= Amount - send - Change(Amount, send, fee)
      BY <3>1, ChangeKeeps
    <3> QED BY <1>1, <3>1, <3>2
  <2>7. Mature(other.body, age)
    BY <2>1, <2>2 DEF Mature
  <2>8. Spends(other, script, Amount, age)
    BY <2>1, <2>2, <2>4, <2>5, <2>6, <2>7 DEF Spends
  <2> QED BY <2>8 DEF other, script, body, sig
<1>2. DepositSpendable
  BY <1>1 DEF DepositSpendable
<1> QED BY <1>2, PTL

=============================================================================
