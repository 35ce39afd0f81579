------------------------- MODULE ReplaceBlocksProofs -------------------------
(***************************************************************************)
(* Theorems about ReplaceBlocks, for any chain, number of reorganisations, *)
(* arguments and width of a height.                                        *)
(***************************************************************************)
EXTENDS ReplaceBlocks, TLAPS

Block == Seq(0 .. MaxForks)

-----------------------------------------------------------------------------
(***************************************************************************)
(* What the chain's two steps do to the blocks below.                      *)
(***************************************************************************)
LEMMA Prefix ==
    ASSUME NEW S, NEW s \in Seq(S), NEW n \in Nat, n <= Len(s)
    PROVE  /\ SubSeq(s, 1, n) \in Seq(S)
           /\ Len(SubSeq(s, 1, n)) = n
           /\ \A j \in 1 .. n : SubSeq(s, 1, n)[j] = s[j]
OBVIOUS

LEMMA Joined ==
    ASSUME NEW S, NEW s \in Seq(S), NEW t \in Seq(S)
    PROVE  /\ s \o t \in Seq(S)
           /\ Len(s \o t) = Len(s) + Len(t)
           /\ \A j \in 1 .. Len(s) : (s \o t)[j] = s[j]
           /\ \A j \in Len(s) + 1 .. Len(s) + Len(t) : (s \o t)[j] = t[j - Len(s)]
OBVIOUS

LEMMA EqualPrefixes ==
    ASSUME NEW S, NEW s \in Seq(S), NEW t \in Seq(S), NEW n \in Nat,
           n <= Len(s), n <= Len(t), \A j \in 1 .. n : s[j] = t[j]
    PROVE  SubSeq(s, 1, n) = SubSeq(t, 1, n)
BY Prefix

LEMMA Parent ==
    ASSUME NEW n \in Nat, 1 <= n, n <= Len(tip), tip \in Block
    PROVE  BlockAt(n) # <<>> /\ Front(BlockAt(n)) = BlockAt(n - 1)
<1>1. BlockAt(n) \in Block /\ Len(BlockAt(n)) = n /\ \A j \in 1 .. n : BlockAt(n)[j] = tip[j]
  BY Prefix DEF BlockAt, Block
<1>2. n - 1 \in Nat /\ n - 1 <= Len(tip) /\ n - 1 <= Len(BlockAt(n))
  BY <1>1 DEF Block
<1>3. SubSeq(BlockAt(n), 1, n - 1) = SubSeq(tip, 1, n - 1)
  BY <1>1, <1>2, EqualPrefixes DEF Block
<1> QED BY <1>1, <1>3 DEF Front, BlockAt

LEMMA Grown ==
    ASSUME tip \in Block, forks \in 0 .. MaxForks, NewBlock
    PROVE  /\ tip' \in Block
           /\ Len(tip') = Len(tip) + 1
           /\ \A j \in 1 .. Len(tip) : tip'[j] = tip[j]
           /\ tip'[Len(tip')] = forks
           /\ \A n \in 0 .. Len(tip) : BlockAt(n)' = BlockAt(n)
<1>1. /\ tip' \in Block
      /\ Len(tip') = Len(tip) + 1
      /\ \A j \in 1 .. Len(tip) : tip'[j] = tip[j]
      /\ tip'[Len(tip')] = forks
  BY DEF NewBlock, Block
<1>2. ASSUME NEW n \in 0 .. Len(tip)
      PROVE  BlockAt(n)' = BlockAt(n)
  BY <1>1, EqualPrefixes DEF BlockAt, Block
<1> QED BY <1>1, <1>2

\* The chain with the branch f from height n on.
Overtaken(n, f) == SubSeq(tip, 1, n - 1) \o [k \in 1 .. Len(tip) - n + 2 |-> f]

LEMMA Reorganised ==
    ASSUME tip \in Block, forks \in Nat, NEW n \in 1 .. Len(tip), NEW f \in 0 .. MaxForks,
           tip' = Overtaken(n, f)
    PROVE  /\ tip' \in Block
           /\ Len(tip') = Len(tip) + 1
           /\ \A j \in 1 .. n - 1 : tip'[j] = tip[j]
           /\ \A j \in n .. Len(tip') : tip'[j] = f
           /\ \A m \in 0 .. n - 1 : BlockAt(m)' = BlockAt(m)
<1> DEFINE low == SubSeq(tip, 1, n - 1)
           high == [k \in 1 .. Len(tip) - n + 2 |-> f]
<1>1. low \in Block /\ Len(low) = n - 1 /\ \A j \in 1 .. n - 1 : low[j] = tip[j]
  <2>1. n - 1 \in Nat /\ n - 1 <= Len(tip)
    BY DEF Block
  <2> QED BY <2>1, Prefix DEF Block
<1>2. high \in Block /\ Len(high) = Len(tip) - n + 2 /\ \A j \in 1 .. Len(high) : high[j] = f
  <2>1. Len(tip) - n + 2 \in Nat
    BY DEF Block
  <2>2. high \in [1 .. Len(tip) - n + 2 -> 0 .. MaxForks]
    OBVIOUS
  <2> QED BY <2>1, <2>2 DEF Block
<1>3. tip' = low \o high
  BY DEF Overtaken
<1> HIDE DEF low, high
<1>4. /\ tip' \in Block
      /\ Len(tip') = Len(tip) + 1
      /\ \A j \in 1 .. n - 1 : tip'[j] = tip[j]
      /\ \A j \in n .. Len(tip') : tip'[j] = f
  <2>1. Len(tip) \in Nat /\ n \in 1 .. Len(tip)
    BY DEF Block
  <2>2. /\ low \o high \in Block
        /\ Len(low \o high) = Len(low) + Len(high)
        /\ \A j \in 1 .. Len(low) : (low \o high)[j] = low[j]
        /\ \A j \in Len(low) + 1 .. Len(low) + Len(high) : (low \o high)[j] = high[j - Len(low)]
    BY <1>1, <1>2, Joined DEF Block
  <2>3. \A j \in n .. Len(tip') : (low \o high)[j] = f
    <3>1. ASSUME NEW j \in n .. Len(tip')
          PROVE  (low \o high)[j] = f
      <4>1. j - Len(low) \in 1 .. Len(high) /\ j \in Len(low) + 1 .. Len(low) + Len(high)
        BY <1>1, <1>2, <1>3, <2>1, <2>2
      <4> QED BY <1>2, <2>2, <4>1
    <3> QED BY <3>1
  <2> QED BY <1>1, <1>2, <1>3, <2>1, <2>2, <2>3
<1>5. ASSUME NEW m \in 0 .. n - 1
      PROVE  BlockAt(m)' = BlockAt(m)
  <2>1. m \in Nat /\ m <= Len(tip) /\ m <= Len(tip') /\ \A j \in 1 .. m : tip'[j] = tip[j]
    BY <1>4 DEF Block
  <2> QED BY <1>4, <2>1, EqualPrefixes DEF BlockAt, Block
<1> QED BY <1>4, <1>5

\* A height that fits is asked for as it is.
LEMMA Remainder ==
    ASSUME NEW n \in Nat, NEW m \in Nat, n < m
    PROVE  n % m = n
OBVIOUS

LEMMA Smaller ==
    ASSUME NEW a \in Int, NEW b \in Int
    PROVE  /\ Min({a, b}) \in {a, b}
           /\ Min({a, b}) <= a /\ Min({a, b}) <= b
<1>1. \E x \in {a, b} : \A y \in {a, b} : x <= y
  OBVIOUS
<1> QED BY <1>1 DEF Min

-----------------------------------------------------------------------------
Lemmas == INSTANCE CallContractProofs WITH Apply <- Execute, HiveContract <- Contract

LEMMA OneCallApplied ==
    ASSUME NEW state, NEW op
    PROVE  Lemmas!Applied(state, <<op>>) =
             IF Execute(state, op) = {} THEN {state} ELSE Execute(state, op)
BY Lemmas!OneCall

\* A state of the contract with a payload in the place of its last headers.
Kept(state, payload) == Len(state) - Len(payload)
Replaced(state, payload) == SubSeq(state, 1, Kept(state, payload)) \o payload

Reply(state, payload) == Vsc!CallContract(state, "replaceBlocks", payload, <<20000>>)

LEMMA OpResults ==
    ASSUME NEW state, NEW op, op.action = "replaceBlocks", op.contract = Contract,
           NEW reply \in Lemmas!Broadcast(state, <<op>>)
    PROVE  /\ reply.state \in {state, Replaced(state, op.payload)}
           /\ reply.state # state => Kept(state, op.payload) >= 1
           /\ ~reply.err /\ Kept(state, op.payload) >= 1 /\ Linked(Replaced(state, op.payload))
                => reply.state = Replaced(state, op.payload)
<1> DEFINE new == Replaced(state, op.payload)
           fits == Kept(state, op.payload) >= 1
<1>1. Execute(state, op) = IF fits THEN Put(state, new) ELSE {}
  BY DEF Execute, Kept, Replaced
<1>2. Put(state, new) # {}
  BY DEF Put
<1> HIDE DEF new, fits
<1>3. Lemmas!Applied(state, <<op>>) = IF fits THEN Put(state, new) ELSE {state}
  BY <1>1, <1>2, OneCallApplied
<1>4. /\ reply.state \in {state} \cup Lemmas!Applied(state, <<op>>)
      /\ ~reply.err => reply.state \in Lemmas!Applied(state, <<op>>)
  BY Lemmas!Results
<1>5. /\ reply.state \in {state, new}
      /\ reply.state # state => fits
      /\ ~reply.err /\ fits /\ Linked(new) => reply.state = new
  BY <1>3, <1>4 DEF Put
<1> QED BY <1>5 DEF new, fits

LEMMA CallResults ==
    ASSUME NEW state, NEW payload,
           NEW reply \in Reply(state, payload)
    PROVE  /\ reply.state \in {state, Replaced(state, payload)}
           /\ reply.state # state => Kept(state, payload) >= 1
           /\ ~reply.err /\ Kept(state, payload) >= 1 /\ Linked(Replaced(state, payload))
                => reply.state = Replaced(state, payload)
<1> DEFINE op == [contract |-> Contract, action |-> "replaceBlocks",
                  payload |-> payload, intents |-> {}, rc |-> 20000]
<1>1. reply \in Vsc!Broadcast(state, <<op>>)
  BY DEF Reply, Vsc!CallContract, Vsc!CallContractWithIntents
<1>2. op.action = "replaceBlocks" /\ op.contract = Contract /\ op.payload = payload
  OBVIOUS
<1> HIDE DEF op
<1>3. reply \in Lemmas!Broadcast(state, <<op>>)
  BY <1>1 DEF Vsc!Applied, Lemmas!Applied, Vsc!Broadcast, Lemmas!Broadcast
<1> QED BY <1>2, <1>3, OpResults

-----------------------------------------------------------------------------
\* Where the loop is and what it has collected.
LoopInv ==
    /\ pc \in Over \cup {"config"} => headers = <<>>
    /\ pc \in {"hash", "header"} =>
          0 <= start /\ start <= h /\ h <= end /\ Len(headers) = h - start
    /\ pc = "call" => 0 <= start /\ start <= end /\ Len(headers) = end - start + 1

TypeInv ==
    /\ tip \in Block /\ 2 <= Len(tip) /\ Len(tip) <= MaxHeight /\ forks \in 0 .. MaxForks
    /\ held \in Seq(Block) /\ before \in Seq(Block)
    /\ pending \in Block \cup {NoBlock}
    /\ file \in {"absent", "blank", "filled", "broken"}
    /\ pc \in Over \cup {"config", "hash", "header", "call"}
    /\ start \in Int /\ end \in Int /\ h \in Int
    /\ hash \in Block /\ headers \in Seq(Block)
    /\ fork \in 1 .. MaxHeight + 1
    /\ pc \in Over => fork = MaxHeight + 1
    /\ LoopInv

LEMMA TypeImplies == TypeInv => TypeOK
<1> SUFFICES ASSUME TypeInv PROVE TypeOK
  OBVIOUS
<1>1. headers # <<>> => Len(headers) <= end - start + 1
  BY DEF TypeInv, LoopInv, Over
<1> QED BY <1>1 DEF TypeInv, TypeOK, Block

LEMMA ChainToBlocks ==
    ASSUME TypeInv, NEW n \in 0 .. Len(tip)
    PROVE  /\ ChainTo(n) \in Seq(Block) /\ Len(ChainTo(n)) = n
           /\ \A k \in 1 .. n : ChainTo(n)[k] = BlockAt(k)
<1>1. \A k \in 1 .. n : BlockAt(k) \in Block
  <2>1. ASSUME NEW k \in 1 .. n
        PROVE  k \in Nat /\ k <= Len(tip)
    BY DEF TypeInv, Block
  <2> QED BY <2>1, Prefix DEF BlockAt, Block, TypeInv
<1>2. ChainTo(n) \in [1 .. n -> Block]
  BY <1>1 DEF ChainTo
<1> QED BY <1>2 DEF ChainTo

LEMMA TypeInit == Init => TypeInv
<1> SUFFICES ASSUME Init PROVE TypeInv
  OBVIOUS
<1> USE ReplaceBlocksAssumption
<1>1. tip = <<0, 0>> /\ tip \in Block /\ Len(tip) = 2
  BY DEF Init, Block
<1>2. held = ChainTo(2)
  BY DEF Init
<1>3. \A k \in 1 .. 2 : BlockAt(k) \in Block
  BY <1>1, Prefix DEF BlockAt, Block
<1>4. held \in Seq(Block)
  BY <1>2, <1>3 DEF ChainTo
<1> QED BY <1>1, <1>4 DEF Init, TypeInv, LoopInv, Over, Block

LEMMA TypeStep == TypeInv /\ [Next]_vars => TypeInv'
<1> SUFFICES ASSUME TypeInv, [Next]_vars PROVE TypeInv'
  OBVIOUS
<1> USE ReplaceBlocksAssumption
<1>1. CASE Launch
  <2>1. before' \in Seq(Block)
    BY <1>1 DEF Launch, TypeInv
  <2>2. pc \in Over /\ fork' = MaxHeight + 1 /\ headers' = <<>> /\ pc' = "config"
    BY <1>1 DEF Launch, TypeInv, LoopInv, history, locals
  <2> QED BY <1>1, <2>1, <2>2 DEF Launch, TypeInv, LoopInv, bitcoin, locals, Over
<1>2. ASSUME NEW from, NEW how \in Over, Exit(from, how), held' \in Seq(Block),
             file' \in {"absent", "blank", "filled", "broken"}
      PROVE  TypeInv'
  BY <1>2 DEF Exit, TypeInv, LoopInv, bitcoin, Over, Block
<1>3. CASE LoadConfigEnds \/ ArgumentsFail \/ FetchFails \/ SigningFails
  BY <1>2, <1>3 DEF LoadConfigEnds, ArgumentsFail, FetchFails, SigningFails, TypeInv, Over
<1>4. CASE Begin
  BY <1>4 DEF Begin, TypeInv, LoopInv, bitcoin, history, Over
<1>5. CASE GetBlockHash
  <2>1. h \in Nat /\ h % Modulus \in Nat
    BY <1>5 DEF GetBlockHash, TypeInv, LoopInv
  <2>2. hash' \in Block
    BY <1>5, <2>1, Prefix DEF GetBlockHash, BlockAt, Block, TypeInv
  <2> QED BY <1>5, <2>2 DEF GetBlockHash, TypeInv, LoopInv, bitcoin, history, Over
<1>6. CASE GetBlockHeader
  <2>1. headers' \in Seq(Block) /\ Len(headers') = Len(headers) + 1
    BY <1>6 DEF GetBlockHeader, TypeInv
  <2> QED BY <1>6, <2>1 DEF GetBlockHeader, TypeInv, LoopInv, bitcoin, history, Over
<1>7. CASE CallContract
  <2>1. PICK reply \in Reply(held, headers) :
          /\ held' = reply.state
          /\ Exit("call", IF reply.err THEN "failed" ELSE "done")
    BY <1>7 DEF CallContract, Reply
  <2>2. held' = held \/ (Kept(held, headers) >= 1 /\ held' = Replaced(held, headers))
    BY <2>1, CallResults
  <2>3. Kept(held, headers) >= 1 => Replaced(held, headers) \in Seq(Block)
    <3>1. held \in Seq(Block) /\ headers \in Seq(Block)
      BY DEF TypeInv
    <3>2. ASSUME Kept(held, headers) >= 1
          PROVE  SubSeq(held, 1, Kept(held, headers)) \in Seq(Block)
      BY <3>1, <3>2, Prefix DEF Kept
    <3> QED BY <3>1, <3>2, Joined DEF Replaced
  <2>4. held' \in Seq(Block)
    BY <2>2, <2>3 DEF TypeInv
  <2>5. file' \in {"absent", "blank", "filled", "broken"}
    BY <1>7 DEF CallContract, TypeInv
  <2> QED BY <1>2, <2>1, <2>4, <2>5 DEF Over
<1>8. CASE NewBlock
  <2>1. tip' \in Block /\ Len(tip') = Len(tip) + 1 /\ Len(tip) < MaxHeight
    BY <1>8, Grown DEF TypeInv, NewBlock
  <2> QED BY <1>8, <2>1 DEF NewBlock, TypeInv, LoopInv, run, locals, history, Block
<1>9. CASE Reorganise
  <2>1. PICK n \in 1 .. Len(tip) :
          /\ tip' = Overtaken(n, forks + 1)
          /\ fork' = IF pc \in Over THEN fork ELSE Min({fork, n})
          /\ before' = IF end < n THEN before ELSE <<>>
    BY <1>9 DEF Reorganise, Overtaken
  <2>2. forks + 1 \in 0 .. MaxForks /\ forks' = forks + 1 /\ Len(tip) < MaxHeight
    BY <1>9 DEF Reorganise, TypeInv
  <2>3. tip' \in Block /\ Len(tip') = Len(tip) + 1
    BY <2>1, <2>2, Reorganised DEF TypeInv
  <2>4. fork' \in 1 .. MaxHeight + 1 /\ (pc \in Over => fork' = fork)
    <3>1. fork \in Int /\ n \in Int /\ 1 <= n /\ n <= MaxHeight /\ fork \in 1 .. MaxHeight + 1
      BY DEF TypeInv, Block
    <3>2. Min({fork, n}) \in {fork, n}
      BY <3>1, Smaller
    <3> QED BY <2>1, <3>1, <3>2
  <2>5. before' \in Seq(Block)
    BY <2>1 DEF TypeInv
  <2>6. UNCHANGED <<held, pending, file, pc, start, end, h, hash, headers>>
    BY <1>9 DEF Reorganise, run, locals
  <2>7. LoopInv' /\ Len(tip') <= MaxHeight /\ 2 <= Len(tip')
    BY <2>2, <2>3, <2>6 DEF TypeInv, LoopInv, Block
  <2> QED BY <2>2, <2>3, <2>4, <2>5, <2>6, <2>7 DEF TypeInv
<1>10. CASE OracleFetches
  <2>1. Len(held) + 1 \in Nat /\ Len(held) + 1 <= Len(tip)
    BY <1>10 DEF OracleFetches, TypeInv, Block
  <2>2. pending' \in Block
    BY <1>10, <2>1, Prefix DEF OracleFetches, BlockAt, Block, TypeInv
  <2> QED BY <1>10, <2>2 DEF OracleFetches, TypeInv, LoopInv, bitcoin, run, locals, history
<1>11. CASE OracleAdds
  <2>1. held' \in {held, Append(held, pending)} /\ before' \in {before, <<>>}
    BY <1>11 DEF OracleAdds, Put
  <2>2. held' \in Seq(Block) /\ before' \in Seq(Block)
    <3>1. held \in Seq(Block) /\ pending \in Block /\ before \in Seq(Block)
      BY <1>11 DEF OracleAdds, TypeInv
    <3>2. Append(held, pending) \in Seq(Block) /\ <<>> \in Seq(Block)
      BY <3>1
    <3>3. held' \in Seq(Block)
      BY <2>1, <3>1, <3>2, Zenon
    <3>4. before' \in Seq(Block)
      BY <2>1, <3>1, <3>2, Zenon
    <3> QED BY <3>3, <3>4
  <2> QED BY <1>11, <2>2 DEF OracleAdds, TypeInv, LoopInv, bitcoin, run, locals
<1>12. CASE FillIn
  BY <1>12 DEF FillIn, TypeInv, LoopInv, bitcoin, run, locals, history
<1>13. CASE UNCHANGED vars
  BY <1>13 DEF vars, TypeInv, LoopInv, bitcoin, run, locals, history
<1> QED
  BY <1>1, <1>3, <1>4, <1>5, <1>6, <1>7, <1>8, <1>9, <1>10, <1>11, <1>12, <1>13
  DEF Next, Tool, Others

\* Types of all variables, for any chain, arguments and outcomes.
THEOREM TypeCorrect == Spec => []TypeOK
<1> QED BY TypeInit, TypeStep, TypeImplies, PTL DEF Spec

-----------------------------------------------------------------------------
\* What was fetched, below the lowest height reorganised, is the chain's.
FetchedInv ==
    0 <= start /\ end < Modulus =>
        /\ \A k \in 1 .. Len(headers) :
              /\ start + k - 1 <= Len(tip)
              /\ start + k - 1 < fork => headers[k] = BlockAt(start + k - 1)
        /\ pc = "header" =>
              h <= Len(tip) /\ (h < fork => hash = BlockAt(h))

\* A step that fetches nothing, and neither shortens the chain nor changes it below
\* the fork.
LEMMA FetchedKept ==
    ASSUME TypeInv, FetchedInv,
           UNCHANGED <<start, end, h, hash, headers>>,
           pc' = "header" => pc = "header",
           Len(tip') >= Len(tip), fork' <= fork, fork' \in Int,
           \A n \in 0 .. Len(tip) : n < fork' => BlockAt(n)' = BlockAt(n)
    PROVE  FetchedInv'
<1> SUFFICES ASSUME 0 <= start, end < Modulus
             PROVE  /\ \A k \in 1 .. Len(headers) :
                         /\ start + k - 1 <= Len(tip')
                         /\ start + k - 1 < fork' => headers[k] = BlockAt(start + k - 1)'
                    /\ pc' = "header" =>
                         h <= Len(tip') /\ (h < fork' => hash = BlockAt(h)')
  BY DEF FetchedInv
<1>1. start \in Nat /\ Len(tip) \in Nat /\ Len(tip') \in Int /\ fork \in Int /\ Len(headers) \in Nat
  BY DEF TypeInv, Block
<1>2. ASSUME NEW k \in 1 .. Len(headers)
      PROVE  /\ start + k - 1 <= Len(tip')
             /\ start + k - 1 < fork' => headers[k] = BlockAt(start + k - 1)'
  <2>1. /\ start + k - 1 <= Len(tip)
        /\ start + k - 1 < fork => headers[k] = BlockAt(start + k - 1)
    BY DEF FetchedInv
  <2>2. start + k - 1 \in 0 .. Len(tip)
    BY <1>1, <2>1
  <2>3. start + k - 1 < fork' => BlockAt(start + k - 1)' = BlockAt(start + k - 1)
    BY <2>2
  <2> QED BY <1>1, <2>1, <2>2, <2>3
<1>3. ASSUME pc' = "header"
      PROVE  h <= Len(tip') /\ (h < fork' => hash = BlockAt(h)')
  <2>1. h <= Len(tip) /\ (h < fork => hash = BlockAt(h))
    BY <1>3 DEF FetchedInv
  <2>2. h \in 0 .. Len(tip)
    BY <1>1, <1>3, <2>1 DEF TypeInv, LoopInv
  <2> QED BY <1>1, <2>1, <2>2
<1> QED BY <1>2, <1>3

LEMMA FetchedStep == TypeInv /\ FetchedInv /\ [Next]_vars => FetchedInv'
<1> SUFFICES ASSUME TypeInv, FetchedInv, [Next]_vars PROVE FetchedInv'
  OBVIOUS
<1> USE ReplaceBlocksAssumption
<1>0. fork \in Int /\ Len(tip) \in Nat
  BY DEF TypeInv, Block
<1>1. CASE Launch \/ Begin
  <2>1. headers' = <<>> /\ pc' # "header"
    BY <1>1 DEF Launch, Begin, TypeInv, LoopInv, locals
  <2> QED BY <2>1 DEF FetchedInv
<1>2. CASE LoadConfigEnds \/ ArgumentsFail \/ FetchFails \/ SigningFails \/ CallContract
  <2>1. PICK how \in Over : pc' = how /\ headers' = <<>>
    BY <1>2 DEF LoadConfigEnds, ArgumentsFail, FetchFails, SigningFails, CallContract, Exit, Over
  <2> QED BY <2>1 DEF FetchedInv, Over
<1>3. CASE GetBlockHash
  <2> SUFFICES ASSUME 0 <= start, end < Modulus
               PROVE  h <= Len(tip) /\ hash' = BlockAt(h)
    BY <1>3 DEF GetBlockHash, FetchedInv, bitcoin, history, BlockAt
  <2>1. h \in Nat /\ h < Modulus
    BY <1>3 DEF GetBlockHash, TypeInv, LoopInv
  <2>2. h % Modulus = h
    BY <2>1, Remainder
  <2> QED BY <1>3, <2>2 DEF GetBlockHash
<1>4. CASE GetBlockHeader
  <2> SUFFICES ASSUME 0 <= start, end < Modulus
               PROVE  \A k \in 1 .. Len(headers') :
                         /\ start + k - 1 <= Len(tip)
                         /\ start + k - 1 < fork => headers'[k] = BlockAt(start + k - 1)
    BY <1>4 DEF GetBlockHeader, FetchedInv, bitcoin, history, BlockAt
  <2>1. headers' = Append(headers, hash) /\ headers \in Seq(Block) /\ pc = "header"
    BY <1>4 DEF GetBlockHeader, TypeInv
  <2>2. Len(headers) = h - start
    BY <2>1 DEF TypeInv, LoopInv
  <2>3. start + Len(headers) + 1 - 1 = h
    BY <2>2 DEF TypeInv
  <2>4. /\ Len(headers') = Len(headers) + 1
        /\ headers'[Len(headers) + 1] = hash
        /\ \A k \in 1 .. Len(headers) : headers'[k] = headers[k]
    BY <2>1
  <2>5. /\ \A k \in 1 .. Len(headers) :
              /\ start + k - 1 <= Len(tip)
              /\ start + k - 1 < fork => headers[k] = BlockAt(start + k - 1)
        /\ h <= Len(tip) /\ (h < fork => hash = BlockAt(h))
    BY <2>1 DEF FetchedInv
  <2>6. ASSUME NEW k \in 1 .. Len(headers')
        PROVE  /\ start + k - 1 <= Len(tip)
               /\ start + k - 1 < fork => headers'[k] = BlockAt(start + k - 1)
    <3>1. k \in 1 .. Len(headers) \/ k = Len(headers) + 1
      BY <2>1, <2>4
    <3>2. CASE k \in 1 .. Len(headers)
      BY <2>4, <2>5, <3>2
    <3>3. CASE k = Len(headers) + 1
      <4>1. start + k - 1 = h
        BY <2>2, <3>3 DEF TypeInv
      <4> QED BY <2>4, <2>5, <3>3, <4>1
    <3> QED BY <3>1, <3>2, <3>3
  <2> QED BY <2>6
<1>5. CASE NewBlock
  <2>1. Len(tip') = Len(tip) + 1 /\ \A n \in 0 .. Len(tip) : BlockAt(n)' = BlockAt(n)
    BY <1>5, Grown DEF TypeInv
  <2>2. UNCHANGED <<start, end, h, hash, headers, pc, fork>>
    BY <1>5 DEF NewBlock, run, locals, history
  <2> QED BY <1>0, <2>1, <2>2, FetchedKept
<1>6. CASE Reorganise
  <2>1. UNCHANGED <<start, end, h, hash, headers, pc>>
    BY <1>6 DEF Reorganise, run, locals
  <2>2. PICK n \in 1 .. Len(tip) :
          /\ tip' = Overtaken(n, forks + 1)
          /\ fork' = IF pc \in Over THEN fork ELSE Min({fork, n})
    BY <1>6 DEF Reorganise, Overtaken
  <2>3. forks + 1 \in 0 .. MaxForks
    BY <1>6 DEF Reorganise, TypeInv
  <2>4. Len(tip') = Len(tip) + 1 /\ \A m \in 0 .. n - 1 : BlockAt(m)' = BlockAt(m)
    BY <2>2, <2>3, Reorganised DEF TypeInv
  <2>5. CASE pc \in Over
    <3>1. headers' = <<>> /\ pc' # "header"
      BY <2>1, <2>5 DEF TypeInv, LoopInv, Over
    <3> QED BY <3>1 DEF FetchedInv
  <2>6. CASE pc \notin Over
    <3>1. fork' <= fork /\ fork' <= n /\ fork' \in Int
      <4>1. n \in Int /\ fork' = Min({fork, n})
        BY <1>0, <2>2, <2>6
      <4> QED BY <1>0, <4>1, Smaller
    <3>2. \A m \in 0 .. Len(tip) : m < fork' => m \in 0 .. n - 1
      BY <1>0, <3>1
    <3> QED BY <1>0, <2>1, <2>4, <3>1, <3>2, FetchedKept
  <2> QED BY <2>5, <2>6
<1>7. CASE OracleFetches \/ OracleAdds \/ FillIn \/ UNCHANGED vars
  BY <1>7 DEF OracleFetches, OracleAdds, FillIn, vars, FetchedInv, BlockAt, bitcoin, run, locals, history
<1> QED
  BY <1>1, <1>2, <1>3, <1>4, <1>5, <1>6, <1>7 DEF Next, Tool, Others

LEMMA FetchedImplies == TypeInv /\ FetchedInv => PayloadBelowFork
<1> SUFFICES ASSUME TypeInv, FetchedInv PROVE PayloadBelowFork
  OBVIOUS
<1>1. DOMAIN headers = 1 .. Len(headers)
  BY DEF TypeInv
<1>2. pc = "call" => Len(headers) = end - start + 1
  BY DEF TypeInv, LoopInv
<1> QED BY <1>1, <1>2 DEF FetchedInv, PayloadBelowFork

LEMMA FetchedInit == Init => FetchedInv
BY DEF Init, FetchedInv

\* Whatever the chain does meanwhile, what a run collects is the chain's, height by
\* height, below the lowest reorganised, and the payload is complete.
THEOREM PayloadCorrect == Spec => []PayloadBelowFork
<1> QED BY TypeInit, TypeStep, FetchedInit, FetchedStep, FetchedImplies, PTL DEF Spec

-----------------------------------------------------------------------------
\* A block b of height m that was once on the chain t, which has seen f
\* reorganisations: it still is, or everything from there on is of newer branches.
Once(t, f, b, m) ==
    /\ m \in 0 .. Len(t) /\ Len(b) = m
    /\ m > 0 =>
          /\ b[m] <= f
          /\ b = SubSeq(t, 1, m) \/ \A j \in m .. Len(t) : t[j] > b[m]

LEMMA OnceKept ==
    ASSUME NEW t \in Block, NEW f \in 0 .. MaxForks, \A j \in 1 .. Len(t) : t[j] <= f,
           NEW u \in Block, NEW g \in 0 .. MaxForks, NEW n \in 1 .. Len(t) + 1,
           Len(u) = Len(t) + 1,
           \A j \in 1 .. n - 1 : u[j] = t[j],
           \A j \in n .. Len(u) : u[j] = g,
           f <= g, n <= Len(t) => f < g
    PROVE  /\ \A j \in 1 .. Len(u) : u[j] <= g
           /\ \A b \in Block, m \in Nat : Once(t, f, b, m) => Once(u, g, b, m)
<1> USE ReplaceBlocksAssumption
<1>1. Len(t) \in Nat /\ Len(u) \in Nat /\ f \in Nat /\ g \in Nat /\ n \in Nat
  BY DEF Block
<1>2. /\ \A j \in 1 .. Len(t) : t[j] \in Nat
      /\ \A j \in 1 .. Len(u) : u[j] \in Nat
  <2>1. \A j \in 1 .. Len(t) : t[j] \in 0 .. MaxForks
    BY DEF Block
  <2>2. \A j \in 1 .. Len(u) : u[j] \in 0 .. MaxForks
    BY DEF Block
  <2> QED BY <2>1, <2>2
<1>3. ASSUME NEW j \in 1 .. Len(u)
      PROVE  u[j] <= g
  <2>1. j \in 1 .. n - 1 \/ j \in n .. Len(u)
    BY <1>1
  <2>2. j \in 1 .. n - 1 => j \in 1 .. Len(t)
    BY <1>1
  <2> QED BY <1>1, <1>2, <2>1, <2>2
<1>4. ASSUME NEW b \in Block, NEW m \in Nat, Once(t, f, b, m), m > 0
      PROVE  b[m] <= g /\ (b = SubSeq(u, 1, m) \/ \A j \in m .. Len(u) : u[j] > b[m])
  <2>1. m \in 1 .. Len(t) /\ Len(b) = m /\ b[m] \in Nat /\ b[m] <= f
    BY <1>4 DEF Once, Block
  <2>2. b[m] <= g
    BY <1>1, <2>1
  <2>3. CASE b = SubSeq(t, 1, m) /\ m < n
    <3>1. m <= Len(u) /\ \A j \in 1 .. m : t[j] = u[j]
      BY <1>1, <2>1, <2>3
    <3>2. SubSeq(t, 1, m) = SubSeq(u, 1, m)
      BY <2>1, <3>1, EqualPrefixes DEF Block
    <3> QED BY <2>2, <2>3, <3>2
  <2>4. CASE b = SubSeq(t, 1, m) /\ m >= n
    <3>1. f < g /\ \A j \in m .. Len(u) : u[j] = g
      BY <1>1, <2>1, <2>4
    <3> QED BY <1>1, <2>1, <2>2, <3>1
  <2>5. CASE \A j \in m .. Len(t) : t[j] > b[m]
    <3>1. b[m] < g
      <4>1. t[m] > b[m] /\ t[m] <= f /\ t[m] \in Nat
        BY <1>1, <1>2, <2>1, <2>5
      <4> QED BY <1>1, <2>1, <4>1
    <3>2. ASSUME NEW j \in m .. Len(u)
          PROVE  u[j] > b[m]
      <4>1. CASE j < n
        <5>1. j \in 1 .. n - 1 /\ j \in m .. Len(t)
          BY <1>1, <2>1, <4>1
        <5> QED BY <2>5, <5>1
      <4>2. CASE j >= n
        <5>1. j \in n .. Len(u)
          BY <1>1, <2>1, <4>2
        <5> QED BY <1>1, <2>1, <3>1, <5>1
      <4> QED BY <1>1, <2>1, <4>1, <4>2
    <3> QED BY <2>2, <3>2
  <2> QED BY <1>1, <1>4, <2>1, <2>3, <2>4, <2>5 DEF Once
<1>5. ASSUME NEW b \in Block, NEW m \in Nat, Once(t, f, b, m)
      PROVE  Once(u, g, b, m)
  <2>1. m \in 0 .. Len(u) /\ Len(b) = m
    BY <1>1, <1>5 DEF Once
  <2> QED BY <1>4, <1>5, <2>1 DEF Once
<1> QED BY <1>3, <1>5

\* A header beside the one fetched before it.
Follows(b, a) == Front(b) = a \/ Last(b) > Last(a)

BranchInv ==
    /\ \A j \in 1 .. Len(tip) : tip[j] <= forks
    /\ end < Modulus =>
          /\ \A k \in 1 .. Len(headers) : Once(tip, forks, headers[k], start + k - 1)
          /\ \A k \in 2 .. Len(headers) : Follows(headers[k], headers[k - 1])
          /\ pc = "header" =>
                /\ Once(tip, forks, hash, h)
                /\ headers # <<>> => Follows(hash, headers[Len(headers)])

\* A step of the chain under a run.
LEMMA BranchKept ==
    ASSUME TypeInv, BranchInv, tip' \in Block, forks' \in 0 .. MaxForks,
           UNCHANGED <<start, end, h, hash, headers, pc>>,
           NEW n \in 1 .. Len(tip) + 1,
           Len(tip') = Len(tip) + 1,
           \A j \in 1 .. n - 1 : tip'[j] = tip[j],
           \A j \in n .. Len(tip') : tip'[j] = forks',
           forks <= forks', n <= Len(tip) => forks < forks'
    PROVE  BranchInv'
<1> DEFINE u == tip'
           g == forks'
<1>1. /\ \A j \in 1 .. Len(u) : u[j] <= g
      /\ \A b \in Block, m \in Nat : Once(tip, forks, b, m) => Once(u, g, b, m)
  BY OnceKept DEF TypeInv, BranchInv
<1>2. ASSUME end < Modulus, NEW k \in 1 .. Len(headers)
      PROVE  Once(u, g, headers[k], start + k - 1)
  <2>1. start + k - 1 \in Nat /\ headers[k] \in Block
    BY DEF TypeInv, LoopInv, Over
  <2>2. Once(tip, forks, headers[k], start + k - 1)
    BY <1>2 DEF BranchInv
  <2> QED BY <1>1, <2>1, <2>2
<1>3. ASSUME end < Modulus, pc = "header"
      PROVE  Once(u, g, hash, h)
  <2>1. h \in Nat /\ hash \in Block
    BY <1>3 DEF TypeInv, LoopInv
  <2> QED BY <1>1, <1>3, <2>1 DEF BranchInv
<1> QED BY <1>1, <1>2, <1>3 DEF BranchInv

LEMMA BranchInit == Init => BranchInv
<1> SUFFICES ASSUME Init PROVE BranchInv
  OBVIOUS
<1>1. tip = <<0, 0>> /\ forks = 0 /\ headers = <<>> /\ pc = "off"
  BY DEF Init
<1> QED BY <1>1 DEF BranchInv

LEMMA BranchStep == TypeInv /\ BranchInv /\ [Next]_vars => BranchInv'
<1> SUFFICES ASSUME TypeInv, BranchInv, [Next]_vars PROVE BranchInv'
  OBVIOUS
<1> USE ReplaceBlocksAssumption
<1>0. Len(tip) \in Nat /\ tip \in Block /\ forks \in 0 .. MaxForks /\ forks \in Nat
  BY DEF TypeInv, Block
<1>1. CASE Launch \/ Begin
  <2>1. headers' = <<>> /\ pc' # "header" /\ UNCHANGED <<tip, forks>>
    BY <1>1 DEF Launch, Begin, TypeInv, LoopInv, locals, bitcoin
  <2> QED BY <2>1 DEF BranchInv
<1>2. CASE LoadConfigEnds \/ ArgumentsFail \/ FetchFails \/ SigningFails \/ CallContract
  <2>1. PICK how \in Over : pc' = how /\ headers' = <<>> /\ UNCHANGED <<tip, forks>>
    BY <1>2 DEF LoadConfigEnds, ArgumentsFail, FetchFails, SigningFails, CallContract, Exit, Over,
                bitcoin
  <2> QED BY <2>1 DEF BranchInv, Over
<1>3. CASE GetBlockHash
  <2>1. UNCHANGED <<tip, forks, start, end, h, headers>>
    BY <1>3 DEF GetBlockHash, bitcoin
  <2> SUFFICES ASSUME end < Modulus
               PROVE  /\ Once(tip, forks, hash', h)
                      /\ headers # <<>> => Follows(hash', headers[Len(headers)])
    BY <2>1 DEF BranchInv
  <2>2. h \in Nat /\ h < Modulus /\ Len(headers) = h - start /\ start \in Nat
    BY <1>3 DEF GetBlockHash, TypeInv, LoopInv
  <2>3. hash' = BlockAt(h) /\ h <= Len(tip)
    <3>1. h % Modulus = h
      BY <2>2, Remainder
    <3> QED BY <1>3, <3>1 DEF GetBlockHash
  <2>4. /\ BlockAt(h) \in Block /\ Len(BlockAt(h)) = h
        /\ \A j \in 1 .. h : BlockAt(h)[j] = tip[j]
    BY <1>0, <2>2, <2>3, Prefix DEF BlockAt, Block
  <2>5. Once(tip, forks, hash', h)
    <3>1. h > 0 => BlockAt(h)[h] <= forks
      BY <1>0, <2>2, <2>3, <2>4 DEF BranchInv
    <3> QED BY <2>2, <2>3, <2>4, <3>1, <1>0 DEF Once, BlockAt
  <2>6. ASSUME headers # <<>>
        PROVE  Follows(hash', headers[Len(headers)])
    <3> DEFINE a == headers[Len(headers)]
    <3>1. Len(headers) \in Nat /\ Len(headers) >= 1 /\ a \in Block /\ headers \in Seq(Block)
      BY <2>6 DEF TypeInv
    <3>2. start + Len(headers) - 1 = h - 1 /\ h >= 1
      BY <2>2, <3>1
    <3>3. Once(tip, forks, a, h - 1)
      <4>1. Once(tip, forks, headers[Len(headers)], start + Len(headers) - 1)
        BY <3>1 DEF BranchInv
      <4> QED BY <3>2, <4>1
    <3>4. Front(BlockAt(h)) = BlockAt(h - 1) /\ Last(BlockAt(h)) = tip[h]
      BY <1>0, <2>2, <2>3, <2>4, <3>2, Parent DEF Last
    <3>5. CASE h - 1 = 0
      <4>1. a = <<>>
        BY <3>1, <3>3, <3>5 DEF Once, Block
      <4>2. BlockAt(h - 1) = <<>>
        BY <1>0, <3>5 DEF BlockAt, Block
      <4> QED BY <2>3, <3>4, <4>1, <4>2 DEF Follows
    <3>6. CASE h - 1 > 0
      <4>1. a = BlockAt(h - 1) \/ tip[h] > a[h - 1]
        BY <1>0, <2>2, <2>3, <3>3, <3>6 DEF Once, BlockAt
      <4>2. Last(a) = a[h - 1]
        BY <3>3 DEF Once, Last
      <4> QED BY <2>3, <3>4, <4>1, <4>2 DEF Follows
    <3> QED BY <2>2, <3>2, <3>5, <3>6
  <2> QED BY <2>5, <2>6
<1>4. CASE GetBlockHeader
  <2>1. UNCHANGED <<tip, forks, start, end>> /\ pc' # "header" /\ pc = "header"
    BY <1>4 DEF GetBlockHeader, bitcoin
  <2> SUFFICES ASSUME end < Modulus
               PROVE  /\ \A k \in 1 .. Len(headers') : Once(tip, forks, headers'[k], start + k - 1)
                      /\ \A k \in 2 .. Len(headers') : Follows(headers'[k], headers'[k - 1])
    BY <2>1 DEF BranchInv
  <2>2. headers' = Append(headers, hash) /\ headers \in Seq(Block) /\ Len(headers) = h - start
    BY <1>4, <2>1 DEF GetBlockHeader, TypeInv, LoopInv
  <2>3. /\ Len(headers') = Len(headers) + 1 /\ Len(headers) \in Nat
        /\ headers'[Len(headers) + 1] = hash
        /\ \A k \in 1 .. Len(headers) : headers'[k] = headers[k]
    BY <2>2
  <2>4. ASSUME NEW k \in 1 .. Len(headers')
        PROVE  Once(tip, forks, headers'[k], start + k - 1)
    <3>1. CASE k \in 1 .. Len(headers)
      BY <2>3, <3>1 DEF BranchInv
    <3>2. CASE k = Len(headers) + 1
      <4>1. start + k - 1 = h
        BY <2>2, <3>2 DEF TypeInv
      <4>2. Once(tip, forks, hash, h)
        BY <2>1 DEF BranchInv
      <4> QED BY <2>3, <3>2, <4>1, <4>2
    <3> QED BY <2>3, <3>1, <3>2
  <2>5. ASSUME NEW k \in 2 .. Len(headers')
        PROVE  Follows(headers'[k], headers'[k - 1])
    <3>1. CASE k \in 2 .. Len(headers)
      <4>1. headers'[k] = headers[k] /\ headers'[k - 1] = headers[k - 1]
        BY <2>3, <3>1
      <4> QED BY <3>1, <4>1 DEF BranchInv
    <3>2. CASE k = Len(headers) + 1
      <4>1. headers # <<>> /\ k - 1 = Len(headers) /\ Len(headers) \in 1 .. Len(headers)
        BY <2>2, <2>3, <3>2
      <4>2. Follows(hash, headers[Len(headers)])
        BY <2>1, <4>1 DEF BranchInv
      <4> QED BY <2>3, <3>2, <4>1, <4>2
    <3> QED BY <2>3, <3>1, <3>2
  <2> QED BY <2>4, <2>5
<1>5. CASE NewBlock
  <2>1. /\ tip' \in Block /\ Len(tip') = Len(tip) + 1
        /\ \A j \in 1 .. Len(tip) : tip'[j] = tip[j]
        /\ tip'[Len(tip')] = forks
    BY <1>5, Grown DEF TypeInv
  <2>2. UNCHANGED <<start, end, h, hash, headers, pc, forks>>
    BY <1>5 DEF NewBlock, run, locals
  <2> DEFINE n == Len(tip) + 1
  <2>3. /\ n \in 1 .. Len(tip) + 1 /\ ~(n <= Len(tip))
        /\ \A j \in 1 .. n - 1 : tip'[j] = tip[j]
        /\ \A j \in n .. Len(tip') : tip'[j] = forks'
    BY <1>0, <2>1, <2>2
  <2>4. forks' \in 0 .. MaxForks /\ forks <= forks'
    BY <1>0, <2>2
  <2> HIDE DEF n
  <2> QED BY <2>1, <2>2, <2>3, <2>4, BranchKept
<1>6. CASE Reorganise
  <2>1. UNCHANGED <<start, end, h, hash, headers, pc>>
    BY <1>6 DEF Reorganise, run, locals
  <2>2. PICK n \in 1 .. Len(tip) : tip' = Overtaken(n, forks + 1)
    BY <1>6 DEF Reorganise, Overtaken
  <2>3. forks' = forks + 1 /\ forks + 1 \in 0 .. MaxForks
    BY <1>6 DEF Reorganise, TypeInv
  <2>4. /\ tip' \in Block /\ Len(tip') = Len(tip) + 1
        /\ \A j \in 1 .. n - 1 : tip'[j] = tip[j]
        /\ \A j \in n .. Len(tip') : tip'[j] = forks'
    BY <1>0, <2>2, <2>3, Reorganised
  <2>5. n \in 1 .. Len(tip) + 1 /\ forks < forks' /\ forks <= forks'
    BY <1>0, <2>3
  <2> QED BY <2>1, <2>3, <2>4, <2>5, BranchKept
<1>7. CASE OracleFetches \/ OracleAdds \/ FillIn \/ UNCHANGED vars
  BY <1>7 DEF OracleFetches, OracleAdds, FillIn, vars, BranchInv, bitcoin, run, locals, history
<1> QED
  BY <1>1, <1>2, <1>3, <1>4, <1>5, <1>6, <1>7 DEF Next, Tool, Others

LEMMA BranchImplies == TypeInv /\ BranchInv => NeverGoesBack
BY DEF BranchInv, NeverGoesBack, Follows

\* The payload never goes back to an abandoned branch, for any reorganisations
\* between any two requests.
THEOREM NoGoingBack == Spec => []NeverGoesBack
<1> QED BY TypeInit, TypeStep, BranchInit, BranchStep, BranchImplies, PTL DEF Spec

-----------------------------------------------------------------------------
\* While nothing but the run itself can have changed it, the contract is as it was
\* before the call, and the chain's up to end after one that did not fail.
RepairInv ==
    Fits =>
        /\ 2 <= start /\ start <= end /\ end = Len(before) /\ end <= Len(tip)
        /\ \A n \in 1 .. start - 1 : before[n] = BlockAt(n)
        /\ pc \notin Over => held = before /\ end < fork
        /\ pc = "done" => held = ChainTo(end)
        /\ pc = "failed" => held \in {before, ChainTo(end)}

LEMMA ChainLinked ==
    ASSUME TypeInv, NEW n \in 0 .. Len(tip)
    PROVE  Linked(ChainTo(n))
<1>1. Len(ChainTo(n)) = n /\ \A k \in 1 .. n : ChainTo(n)[k] = BlockAt(k)
  BY ChainToBlocks
<1>2. ASSUME NEW k \in 2 .. n
      PROVE  ChainTo(n)[k] # <<>> /\ Front(ChainTo(n)[k]) = ChainTo(n)[k - 1]
  <2>1. k \in Nat /\ 1 <= k /\ k <= Len(tip) /\ k \in 1 .. n /\ k - 1 \in 1 .. n
    BY DEF TypeInv, Block
  <2> QED BY <1>1, <2>1, Parent DEF TypeInv
<1> QED BY <1>1, <1>2 DEF Linked

\* With its payload the contract is the chain.
LEMMA RepairedByPayload ==
    ASSUME TypeInv, FetchedInv, RepairInv, Fits, pc = "call"
    PROVE  /\ Kept(held, headers) >= 1
           /\ Replaced(held, headers) = ChainTo(end)
<1> USE ReplaceBlocksAssumption
<1>1. /\ 2 <= start /\ start <= end /\ end = Len(held) /\ end <= Len(tip) /\ end < fork
      /\ \A n \in 1 .. start - 1 : held[n] = BlockAt(n)
  BY DEF RepairInv, Over
<1>2. /\ start \in Nat /\ end \in Nat /\ Len(tip) \in Nat /\ fork \in Nat /\ end < Modulus
      /\ held \in Seq(Block) /\ headers \in Seq(Block)
      /\ Len(headers) = end - start + 1
  <2>1. /\ start \in Int /\ end \in Int /\ Len(tip) \in Nat /\ Len(tip) <= MaxHeight
        /\ fork \in Nat
    BY DEF TypeInv, Block
  <2>2. held \in Seq(Block) /\ headers \in Seq(Block) /\ Len(headers) = end - start + 1
    BY DEF TypeInv, LoopInv
  <2> QED BY <1>1, <2>1, <2>2
<1>3. Kept(held, headers) = start - 1
  BY <1>1, <1>2 DEF Kept
<1>4. \A k \in 1 .. Len(headers) : headers[k] = BlockAt(start + k - 1)
  <2>1. ASSUME NEW k \in 1 .. Len(headers)
        PROVE  headers[k] = BlockAt(start + k - 1)
    <3>1. start + k - 1 < fork
      BY <1>1, <1>2
    <3> QED BY <1>1, <1>2, <3>1 DEF FetchedInv
  <2> QED BY <2>1
<1> DEFINE low == SubSeq(held, 1, start - 1)
<1>5. low \in Seq(Block) /\ Len(low) = start - 1 /\ \A n \in 1 .. start - 1 : low[n] = held[n]
  <2>1. start - 1 \in Nat /\ start - 1 <= Len(held)
    BY <1>1, <1>2
  <2> QED BY <1>2, <2>1, Prefix
<1> HIDE DEF low
<1>6. /\ low \o headers \in Seq(Block)
      /\ Len(low \o headers) = Len(low) + Len(headers)
      /\ \A n \in 1 .. Len(low) : (low \o headers)[n] = low[n]
      /\ \A n \in Len(low) + 1 .. Len(low) + Len(headers) :
            (low \o headers)[n] = headers[n - Len(low)]
  BY <1>2, <1>5, Joined
<1>7. /\ ChainTo(end) \in Seq(Block) /\ Len(ChainTo(end)) = end
      /\ \A n \in 1 .. end : ChainTo(end)[n] = BlockAt(n)
  BY <1>1, <1>2, ChainToBlocks
<1>8. Len(low \o headers) = end
  BY <1>2, <1>5, <1>6
<1>9. ASSUME NEW n \in 1 .. end
      PROVE  (low \o headers)[n] = BlockAt(n)
  <2>1. CASE n \in 1 .. start - 1
    <3>1. n \in 1 .. Len(low)
      BY <1>5, <2>1
    <3>2. (low \o headers)[n] = low[n] /\ low[n] = held[n]
      BY <1>5, <1>6, <2>1, <3>1
    <3> QED BY <1>1, <2>1, <3>2
  <2>2. CASE n \in start .. end
    <3>1. /\ n \in Len(low) + 1 .. Len(low) + Len(headers)
          /\ n - Len(low) \in 1 .. Len(headers)
          /\ start + (n - Len(low)) - 1 = n
      <4>1. /\ Len(low) = start - 1 /\ Len(headers) = end - start + 1
            /\ start \in Nat /\ end \in Nat
        BY <1>2, <1>5
      <4> QED BY <2>2, <4>1
    <3>2. PICK k \in 1 .. Len(headers) : k = n - Len(low) /\ start + k - 1 = n
      BY <3>1
    <3>3. (low \o headers)[n] = headers[n - Len(low)]
      BY <1>6, <3>1
    <3>4. headers[n - Len(low)] = headers[k]
      BY <3>2
    <3>5. headers[k] = BlockAt(n)
      BY <1>4, <3>2
    <3> QED BY <3>3, <3>4, <3>5
  <2>3. n \in 1 .. start - 1 \/ n \in start .. end
    BY <1>1, <1>2
  <2> QED BY <2>1, <2>2, <2>3
<1>10. low \o headers = ChainTo(end)
  BY <1>6, <1>7, <1>8, <1>9
<1>11. Kept(held, headers) >= 1
  BY <1>1, <1>2, <1>3
<1>12. Replaced(held, headers) = low \o headers
  BY <1>3 DEF Replaced, low
<1> QED BY <1>10, <1>11, <1>12

\* A step that leaves the run and the contract alone, and the chain up to end.
LEMMA RepairKept ==
    ASSUME TypeInv, RepairInv, UNCHANGED <<start, end, held, pc>>,
           before' \in {before, <<>>},
           before' # <<>> =>
              /\ Len(tip') \in Int /\ Len(tip') >= Len(tip)
              /\ \A n \in 0 .. end : BlockAt(n)' = BlockAt(n)
              /\ end < fork => end < fork'
    PROVE  RepairInv'
<1> SUFFICES ASSUME before' # <<>>
             PROVE  RepairInv'
  BY DEF RepairInv, Fits
<1>1. before' = before /\ Fits
  BY DEF Fits
<1>2. start \in Int /\ end \in Int /\ 2 <= start /\ start <= end /\ Len(tip) \in Nat
  BY <1>1 DEF RepairInv, TypeInv, Block
<1>3. end <= Len(tip')
  BY <1>1, <1>2 DEF RepairInv
<1>4. ChainTo(end)' = ChainTo(end)
  <2>1. \A n \in 1 .. end : BlockAt(n)' = BlockAt(n)
    BY <1>2
  <2> QED BY <2>1 DEF ChainTo
<1>5. \A n \in 1 .. start - 1 : before[n] = BlockAt(n)'
  BY <1>1, <1>2 DEF RepairInv
<1> QED BY <1>1, <1>2, <1>3, <1>4, <1>5 DEF RepairInv

LEMMA RepairStep == TypeInv /\ FetchedInv /\ RepairInv /\ [Next]_vars => RepairInv'
<1> SUFFICES ASSUME TypeInv, FetchedInv, RepairInv, [Next]_vars PROVE RepairInv'
  OBVIOUS
<1> USE ReplaceBlocksAssumption
<1>0. fork \in Int /\ Len(tip) \in Nat /\ end \in Int /\ start \in Int
  BY DEF TypeInv, Block
<1>1. CASE Launch
  <2>1. CASE ~Fit(start', end')
    BY <1>1, <2>1 DEF Launch, RepairInv, Fits
  <2>2. CASE Fit(start', end')
    <3>1. /\ 2 <= start' /\ start' <= end' /\ end' = Len(held) /\ end' <= Len(tip)
          /\ \A n \in 1 .. start' - 1 : held[n] = BlockAt(n)
      BY <2>2 DEF Fit
    <3>2. before' = held /\ UNCHANGED <<tip, held, fork>> /\ pc' = "config"
      BY <1>1, <2>2 DEF Launch, bitcoin
    <3>3. fork = MaxHeight + 1 /\ end' < fork
      BY <1>0, <1>1, <3>1 DEF Launch, TypeInv
    <3>4. BlockAt(1)' = BlockAt(1) /\ \A n \in 1 .. start' - 1 : BlockAt(n)' = BlockAt(n)
      BY <3>2 DEF BlockAt
    <3> QED BY <3>1, <3>2, <3>3, <3>4 DEF RepairInv, Over
  <2> QED BY <2>1, <2>2
<1>2. CASE LoadConfigEnds \/ ArgumentsFail \/ FetchFails \/ SigningFails
  <2>1. /\ UNCHANGED <<tip, start, end, held, before>>
        /\ pc \notin Over /\ pc' \in {"off", "failed"}
    BY <1>2 DEF LoadConfigEnds, ArgumentsFail, FetchFails, SigningFails, Exit, bitcoin, Over
  <2> QED BY <2>1 DEF RepairInv, Fits, BlockAt, ChainTo, Over
<1>3. CASE CallContract
  <2>1. PICK reply \in Reply(held, headers) :
          /\ held' = reply.state
          /\ Exit("call", IF reply.err THEN "failed" ELSE "done")
    BY <1>3 DEF CallContract, Reply
  <2>2. /\ UNCHANGED <<tip, start, end, before>>
        /\ pc = "call" /\ pc' = IF reply.err THEN "failed" ELSE "done"
    BY <2>1 DEF Exit, bitcoin
  <2> SUFFICES ASSUME Fits
               PROVE  RepairInv'
    BY <2>2 DEF RepairInv, Fits
  <2>3. Kept(held, headers) >= 1 /\ Replaced(held, headers) = ChainTo(end)
    BY <2>2, RepairedByPayload
  <2>4. Linked(Replaced(held, headers))
    BY <1>0, <2>3, ChainLinked DEF RepairInv
  <2>5. /\ held' \in {held, ChainTo(end)}
        /\ ~reply.err => held' = ChainTo(end)
    BY <2>1, <2>3, <2>4, CallResults
  <2>6. held = before
    BY <2>2 DEF RepairInv, Over
  <2>7. ChainTo(end)' = ChainTo(end)
    BY <2>2 DEF ChainTo, BlockAt
  <2>8. \A n \in 1 .. start - 1 : BlockAt(n)' = BlockAt(n)
    BY <2>2 DEF BlockAt
  <2>9. pc' \in {"failed", "done"} /\ (pc' = "done" => ~reply.err)
    BY <2>2
  <2>10. /\ 2 <= start /\ start <= end /\ end = Len(before) /\ end <= Len(tip)
         /\ \A n \in 1 .. start - 1 : before[n] = BlockAt(n)
    BY DEF RepairInv
  <2> QED BY <2>2, <2>5, <2>6, <2>7, <2>8, <2>9, <2>10 DEF RepairInv, Over
<1>4. CASE Begin \/ GetBlockHash \/ GetBlockHeader
  <2>1. UNCHANGED <<tip, start, end, held, before, fork>> /\ pc \notin Over /\ pc' \notin Over
    BY <1>4 DEF Begin, GetBlockHash, GetBlockHeader, bitcoin, history, Over
  <2> QED BY <2>1 DEF RepairInv, Fits, BlockAt, Over
<1>5. CASE NewBlock
  <2>1. Len(tip') = Len(tip) + 1 /\ \A n \in 0 .. Len(tip) : BlockAt(n)' = BlockAt(n)
    BY <1>5, Grown DEF TypeInv
  <2>2. UNCHANGED <<start, end, held, pc, fork, before>>
    BY <1>5 DEF NewBlock, run, history
  <2>3. before # <<>> => \A n \in 0 .. end : BlockAt(n)' = BlockAt(n)
    BY <1>0, <2>1 DEF RepairInv, Fits
  <2> QED BY <1>0, <2>1, <2>2, <2>3, RepairKept
<1>6. CASE Reorganise
  <2>1. UNCHANGED <<start, end, held, pc>>
    BY <1>6 DEF Reorganise, run
  <2>2. PICK n \in 1 .. Len(tip) :
          /\ tip' = Overtaken(n, forks + 1)
          /\ fork' = IF pc \in Over THEN fork ELSE Min({fork, n})
          /\ before' = IF end < n THEN before ELSE <<>>
    BY <1>6 DEF Reorganise, Overtaken
  <2>3. forks + 1 \in 0 .. MaxForks
    BY <1>6 DEF Reorganise, TypeInv
  <2>4. Len(tip') = Len(tip) + 1 /\ \A m \in 0 .. n - 1 : BlockAt(m)' = BlockAt(m)
    BY <2>2, <2>3, Reorganised DEF TypeInv
  <2>5. end < n /\ end < fork => end < fork'
    <3>1. n \in Int
      BY <1>0
    <3>2. Min({fork, n}) \in {fork, n}
      BY <1>0, <3>1, Smaller
    <3> QED BY <2>2, <3>2
  <2>6. end < n => \A m \in 0 .. end : BlockAt(m)' = BlockAt(m)
    BY <1>0, <2>4
  <2>7. before' \in {before, <<>>} /\ (before' # <<>> => end < n)
    BY <2>2
  <2> QED BY <1>0, <2>1, <2>4, <2>5, <2>6, <2>7, RepairKept
<1>7. CASE OracleAdds
  <2>1. PICK new \in Put(held, Append(held, pending)) :
          held' = new /\ before' = IF new = held THEN before ELSE <<>>
    BY <1>7 DEF OracleAdds
  <2>2. UNCHANGED <<tip, start, end, pc, fork>>
    BY <1>7 DEF OracleAdds, bitcoin, run
  <2>3. CASE new = held
    BY <2>1, <2>2, <2>3 DEF RepairInv, Fits, BlockAt, ChainTo
  <2>4. CASE new # held
    BY <2>1, <2>4 DEF RepairInv, Fits
  <2> QED BY <2>3, <2>4
<1>8. CASE OracleFetches \/ FillIn \/ UNCHANGED vars
  <2>1. UNCHANGED <<tip, start, end, held, before, fork, pc>>
    BY <1>8 DEF OracleFetches, FillIn, vars, bitcoin, run, history
  <2> QED BY <2>1 DEF RepairInv, Fits, BlockAt, ChainTo
<1> QED
  BY <1>1, <1>2, <1>3, <1>4, <1>5, <1>6, <1>7, <1>8 DEF Next, Tool, Others

LEMMA RepairInit == Init => RepairInv
BY DEF Init, RepairInv, Fits

LEMMA RepairImplies == RepairInv => RepairTakes /\ RepairOrNothing
BY DEF RepairInv, RepairTakes, RepairOrNothing, Fits

\* A run that fits and says it is done has made the contract the chain's, over any
\* new blocks, and reorganisations above -end, during the run.
THEOREM RepairIsTrue == Spec => []RepairTakes
<1> QED BY TypeInit, TypeStep, FetchedInit, FetchedStep, RepairInit, RepairStep, RepairImplies,
           PTL DEF Spec

\* One that fails, wherever, has repaired the contract or not touched it.
THEOREM NoHalfRepair == Spec => []RepairOrNothing
<1> QED BY TypeInit, TypeStep, FetchedInit, FetchedStep, RepairInit, RepairStep, RepairImplies,
           PTL DEF Spec

-----------------------------------------------------------------------------
(***************************************************************************)
(* How long a run can be.                                                  *)
(***************************************************************************)
\* A bound on the requests and the statements that are still to come: two requests
\* for every height.
Remaining ==
    CASE pc = "config" -> IF start <= end THEN 2 * (end - start) + 4 ELSE 1
      [] pc = "hash" -> 2 * (end - h) + 3
      [] pc = "header" -> 2 * (end - h) + 2
      [] pc = "call" -> 1
      [] pc \in Over -> 0

Shortens ==
    /\ Remaining \in Nat
    /\ Tool => Remaining' < Remaining
    /\ Others => Remaining' = Remaining

LEMMA StepShortens == TypeInv /\ [Next]_vars => Shortens
<1> SUFFICES ASSUME TypeInv, [Next]_vars PROVE Shortens
  OBVIOUS
<1>1. /\ start \in Int /\ end \in Int /\ h \in Int
      /\ pc \in Over \cup {"config", "hash", "header", "call"}
      /\ pc \in {"hash", "header"} => start <= h /\ h <= end
  BY DEF TypeInv, LoopInv
<1>2. Remaining \in Nat
  BY <1>1 DEF Remaining, Over
<1>3. ASSUME Tool PROVE Remaining' < Remaining
  <2>1. ASSUME NEW from \in {"config", "hash", "header", "call"}, NEW how \in Over,
               Exit(from, how)
        PROVE  Remaining' < Remaining
    BY <1>1, <2>1 DEF Exit, Remaining, Over
  <2>2. CASE LoadConfigEnds \/ ArgumentsFail \/ FetchFails \/ SigningFails
    BY <2>1, <2>2 DEF LoadConfigEnds, ArgumentsFail, FetchFails, SigningFails, Over
  <2>3. CASE CallContract
    BY <2>1, <2>3 DEF CallContract, Over
  <2>4. CASE Begin
    BY <1>1, <2>4 DEF Begin, Remaining, Over
  <2>5. CASE GetBlockHash
    BY <1>1, <2>5 DEF GetBlockHash, Remaining, Over
  <2>6. CASE GetBlockHeader
    BY <1>1, <2>6 DEF GetBlockHeader, Remaining, Over
  <2> QED BY <1>3, <2>2, <2>3, <2>4, <2>5, <2>6 DEF Tool
<1>4. ASSUME Others PROVE Remaining' = Remaining
  <2>1. UNCHANGED <<pc, start, end, h>>
    BY <1>4 DEF Others, NewBlock, Reorganise, OracleFetches, OracleAdds, FillIn, run, locals
  <2> QED BY <2>1 DEF Remaining
<1> QED BY <1>2, <1>3, <1>4 DEF Shortens

\* Every step of the program brings the end of its run nearer, and no block,
\* reorganisation, oracle or user moves it away: two requests per height.
THEOREM RunsAreBounded == Spec => [][Shortens]_vars
<1>1. TypeInv /\ [Next]_vars => [Shortens]_vars
  BY StepShortens
<1> QED BY <1>1, TypeInit, TypeStep, PTL DEF Spec

=============================================================================
