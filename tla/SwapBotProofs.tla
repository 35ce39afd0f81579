---------------------------- MODULE SwapBotProofs ----------------------------
(***************************************************************************)
(* Theorems about SwapBot, for every set of assets, sizes, number of       *)
(* rounds and their lengths, and whatever becomes of the swaps.            *)
(***************************************************************************)
EXTENDS SwapBot, FoldLemmas

\* After k full cycles of the queue, a route was drawn k times, and once more if
\* it has left the queue in this cycle.
EvenInv ==
    /\ queue \subseteq allRoutes
    /\ drawn \in [allRoutes -> Nat]
    /\ \E k \in Nat : /\ \A r \in queue : drawn[r] = k
                      /\ \A r \in allRoutes \ queue : drawn[r] = k + 1

LEMMA EvenInit == Init => EvenInv
<1> SUFFICES ASSUME Init PROVE EvenInv
  OBVIOUS
<1>1. queue = allRoutes /\ drawn = [r \in allRoutes |-> 0]
  BY DEF Init, None
<1>2. \A r \in queue : drawn[r] = 0
  BY <1>1
<1>3. \A r \in allRoutes \ queue : drawn[r] = 0 + 1
  BY <1>1
<1>4. 0 \in Nat
  OBVIOUS
<1>5. \E k \in Nat : /\ \A r \in queue : drawn[r] = k
                     /\ \A r \in allRoutes \ queue : drawn[r] = k + 1
  BY <1>2, <1>3, <1>4
<1>6. drawn \in [allRoutes -> Nat]
  BY <1>1
<1> QED
  BY <1>1, <1>5, <1>6 DEF EvenInv

\* The queue of a cycle under way, or a new one: of what can be drawn, everything
\* was drawn equally often, and everything else once more.
LEMMA AvailableEven ==
  ASSUME EvenInv
  PROVE  \E k \in Nat : /\ Available \subseteq allRoutes
                        /\ \A r \in Available : drawn[r] = k
                        /\ \A r \in allRoutes \ Available : drawn[r] = k + 1
<1>1. PICK k \in Nat : /\ \A r \in queue : drawn[r] = k
                       /\ \A r \in allRoutes \ queue : drawn[r] = k + 1
  BY DEF EvenInv
<1>2. CASE queue = {}
  <2>1. Available = allRoutes /\ \A r \in allRoutes : drawn[r] = k + 1
    BY <1>1, <1>2 DEF Available
  <2> QED
    BY <2>1
<1>3. CASE queue # {}
  <2>1. Available = queue
    BY <1>3 DEF Available
  <2> QED
    BY <1>1, <2>1 DEF EvenInv
<1> QED
  BY <1>2, <1>3

LEMMA EvenNext == EvenInv /\ [Next]_vars => EvenInv'
<1> SUFFICES ASSUME EvenInv, [Next]_vars PROVE EvenInv'
  OBVIOUS
<1>1. CASE SwapNext
  <2>1. PICK r \in Available : queue' = Available \ {r} /\ drawn' = Add(drawn, r, 1)
    BY <1>1 DEF SwapNext
  <2>2. PICK k \in Nat : /\ Available \subseteq allRoutes
                         /\ \A q \in Available : drawn[q] = k
                         /\ \A q \in allRoutes \ Available : drawn[q] = k + 1
    BY AvailableEven
  <2>3. drawn \in [allRoutes -> Nat] /\ r \in allRoutes /\ drawn[r] = k
    BY <2>1, <2>2 DEF EvenInv
  <2>4. /\ drawn' \in [allRoutes -> Nat]
        /\ drawn'[r] = k + 1
        /\ \A q \in allRoutes \ {r} : drawn'[q] = drawn[q]
    BY <2>1, <2>3 DEF Add
  <2>5. \A q \in queue' : drawn'[q] = k
    BY <2>1, <2>2, <2>4
  <2>6. \A q \in allRoutes \ queue' : drawn'[q] = k + 1
    BY <2>1, <2>2, <2>4
  <2>7. allRoutes' = allRoutes
    BY DEF allRoutes
  <2> QED
    BY <2>1, <2>2, <2>4, <2>5, <2>6, <2>7 DEF EvenInv
<1>2. CASE UNCHANGED <<queue, drawn>>
  BY <1>2 DEF EvenInv, allRoutes
<1> QED
  BY <1>1, <1>2 DEF Next, StartRound, EndRound, EndRounds, OffsetNext, EndOffsets, vars

LEMMA EvenImplies == EvenInv => EvenlyExercised
<1> SUFFICES ASSUME EvenInv, NEW r \in allRoutes, NEW s \in allRoutes
             PROVE  drawn[r] - drawn[s] <= 1
  BY DEF EvenlyExercised
<1>1. PICK k \in Nat : /\ \A q \in queue : drawn[q] = k
                       /\ \A q \in allRoutes \ queue : drawn[q] = k + 1
  BY DEF EvenInv
<1>2. drawn[r] \in {k, k + 1} /\ drawn[s] \in {k, k + 1}
  BY <1>1
<1> QED
  BY <1>2

\* Every combination is exercised evenly at any moment, for any number of assets
\* and wherever the cycles of the queue end inside the rounds (main's refill).
THEOREM Even == Spec => []EvenlyExercised
  BY EvenInit, EvenNext, EvenImplies, PTL DEF Spec

-----------------------------------------------------------------------------
Lemmas == INSTANCE CallContractProofs WITH Apply <- Execute, HiveContract <- Router

\* The contracts after the calls of a swap that the router makes: it went through the
\* pools, and its allowance came and went.
After(r, amount, quote) ==
    [moved |-> Add(moved, r, amount), allowance |-> allowance, quote |-> quote]

\* After those of any swap.
Outcome(r, amount, quote) ==
    IF Makes(quote, MinOut) THEN After(r, amount, quote) ELSE Contracts(quote)

LEMMA AllowanceAddedAndDrawn ==
    ASSUME TypeOK, NEW c \in MappingContracts, NEW amount \in Nat
    PROVE  /\ allowance[c] + amount >= amount
           /\ Add(allowance, c, amount)[c] = allowance[c] + amount
           /\ Add(Add(allowance, c, amount), c, -amount) = allowance
<1> DEFINE more == Add(allowance, c, amount)
           back == Add(more, c, -amount)
<1>1. allowance \in [MappingContracts -> Nat]
  BY DEF TypeOK
<1>2. /\ more \in [MappingContracts -> Nat]
      /\ more[c] = allowance[c] + amount
      /\ \A d \in MappingContracts \ {c} : more[d] = allowance[d]
  BY <1>1 DEF Add
<1> HIDE DEF more
<1>3. back = [d \in MappingContracts |-> IF d = c THEN more[c] + (-amount) ELSE more[d]]
  BY <1>2 DEF Add
<1>4. more[c] + (-amount) = allowance[c]
  BY <1>1, <1>2
<1>5. back = allowance
  BY <1>1, <1>2, <1>3, <1>4
<1>6. allowance[c] + amount >= amount
  BY <1>1
<1> QED BY <1>2, <1>5, <1>6 DEF more

\* The operations that the calls become, with the defaults filled in.
Gas(rc) == IF rc = 0 THEN 1000 ELSE rc

ExecuteOp(r, amount, intents) ==
    [contract |-> Router, action |-> "execute", rc |-> Gas(SwapRC), intents |-> intents,
     payload |-> [route |-> r, amount |-> amount, minOut |-> MinOut]]

AllowanceOp(a, amount) ==
    [contract |-> Mapping[a], action |-> "increaseAllowance", rc |-> Gas(AllowanceRC),
     intents |-> {}, payload |-> [spender |-> Router, amount |-> amount]]

LEMMA GasPositive == Gas(SwapRC) > 0 /\ Gas(AllowanceRC) > 0
BY SwapBotAssumption DEF Gas

LEMMA ExecuteDefaults ==
    ASSUME NEW r, NEW amount, NEW intents
    PROVE  Lemmas!WithDefaults(ExecuteCall(r, amount, intents)) = ExecuteOp(r, amount, intents)
<1> DEFINE call == ExecuteCall(r, amount, intents)
<1>1. /\ call.contract = NoContract /\ call.rc = SwapRC /\ call.action = "execute"
      /\ call.payload = [route |-> r, amount |-> amount, minOut |-> MinOut]
      /\ call.intents = intents
  BY DEF ExecuteCall
<1> HIDE DEF call
<1>2. Lemmas!WithDefaults(call) = ExecuteOp(r, amount, intents)
  BY <1>1 DEF Lemmas!WithDefaults, Lemmas!Wrapper, Lemmas!DefaultRC, Gas, ExecuteOp
<1> QED BY <1>2 DEF call

LEMMA AllowanceDefaults ==
    ASSUME NEW a, NEW amount, Mapping[a] # NoContract
    PROVE  Lemmas!WithDefaults(AllowanceCall(a, amount)) = AllowanceOp(a, amount)
<1> DEFINE call == AllowanceCall(a, amount)
<1>1. /\ call.contract = Mapping[a] /\ call.rc = AllowanceRC /\ call.action = "increaseAllowance"
      /\ call.payload = [spender |-> Router, amount |-> amount] /\ call.intents = {}
  BY DEF AllowanceCall
<1> HIDE DEF call
<1>2. Lemmas!WithDefaults(call) = AllowanceOp(a, amount)
  BY <1>1 DEF Lemmas!WithDefaults, Lemmas!Wrapper, Lemmas!DefaultRC, Gas, AllowanceOp
<1> QED BY <1>2 DEF call

\* A native swap is authorised by its own intent.
LEMMA NativeExecuted ==
    ASSUME NEW r, r[1] \in Native, NEW amount \in Nat, NEW quote
    PROVE  Execute(Contracts(quote), ExecuteOp(r, amount, {[token |-> r[1], limit |-> amount]}))
             = IF Makes(quote, MinOut) THEN {After(r, amount, quote)} ELSE {}
<1> DEFINE intents == {[token |-> r[1], limit |-> amount]}
           op == ExecuteOp(r, amount, intents)
<1>1. /\ op.rc > 0 /\ op.action = "execute" /\ op.contract = Router
      /\ op.payload.route = r /\ op.payload.amount = amount /\ op.payload.minOut = MinOut
      /\ op.intents = intents
  BY GasPositive DEF ExecuteOp
<1>2. {i \in intents : i.token = r[1] /\ i.limit >= amount} = intents
  OBVIOUS
<1>3. Swapped(Contracts(quote), r, amount) = After(r, amount, quote)
  BY DEF Swapped, Contracts, After
<1>4. Draw(Contracts(quote), r, amount, intents) = {After(r, amount, quote)}
  <2>1. intents # {}
    OBVIOUS
  <2> HIDE DEF intents
  <2> QED BY <1>2, <1>3, <2>1 DEF Draw
<1>5. Contracts(quote).quote = quote
  BY DEF Contracts
<1> HIDE DEF op, intents
<1>6. Execute(Contracts(quote), op) = ExecuteSwap(Contracts(quote), op.payload, intents)
  BY <1>1 DEF Execute
<1> QED BY <1>1, <1>4, <1>5, <1>6 DEF op, intents, ExecuteSwap

\* Between the two operations of a mapped swap.
Between(r, amount, quote) == Allowed(Contracts(quote), Mapping[r[1]], amount)

\* A mapped one by the allowance that goes ahead of it.
LEMMA MappedExecuted ==
    ASSUME TypeOK, NEW r \in allRoutes, r[1] \notin Native, NEW amount \in Nat, NEW quote
    PROVE  /\ Execute(Contracts(quote), AllowanceOp(r[1], amount)) = {Between(r, amount, quote)}
           /\ Execute(Between(r, amount, quote), ExecuteOp(r, amount, {}))
                = IF Makes(quote, MinOut) THEN {After(r, amount, quote)} ELSE {}
<1> DEFINE c == Mapping[r[1]]
           middle == Between(r, amount, quote)
           allow == AllowanceOp(r[1], amount)
           op == ExecuteOp(r, amount, {})
<1>1. c \in MappingContracts
  BY DEF allRoutes, Mapped, MappingContracts
<1>2. /\ allow.rc > 0 /\ allow.action = "increaseAllowance" /\ allow.contract = c
      /\ allow.payload.spender = Router /\ allow.payload.amount = amount
  BY GasPositive DEF AllowanceOp
<1>3. /\ op.rc > 0 /\ op.action = "execute" /\ op.contract = Router
      /\ op.payload.route = r /\ op.payload.amount = amount /\ op.payload.minOut = MinOut
      /\ op.intents = {}
  BY GasPositive DEF ExecuteOp
<1>4. middle = [moved |-> moved, allowance |-> Add(allowance, c, amount), quote |-> quote]
  BY DEF Allowed, Contracts, Between
<1>5. middle.allowance[c] >= amount
  BY <1>1, <1>4, AllowanceAddedAndDrawn
<1>6. Allowed(Swapped(middle, r, amount), c, -amount) = After(r, amount, quote)
  <2> HIDE DEF c
  <2>1. Swapped(middle, r, amount) =
          [moved |-> Add(moved, r, amount), allowance |-> Add(allowance, c, amount),
           quote |-> quote]
    BY <1>4 DEF Swapped
  <2>2. Allowed(Swapped(middle, r, amount), c, -amount) =
          [moved |-> Add(moved, r, amount),
           allowance |-> Add(Add(allowance, c, amount), c, -amount), quote |-> quote]
    BY <2>1 DEF Allowed
  <2> QED BY <1>1, <2>2, AllowanceAddedAndDrawn DEF After
<1>7. middle.quote = quote
  BY <1>4
<1> HIDE DEF middle, allow, op
<1>8. Execute(Contracts(quote), allow) = {middle}
  BY <1>2 DEF Execute, middle, Between
<1>9. Draw(middle, r, amount, {}) = {After(r, amount, quote)}
  BY <1>5, <1>6 DEF Draw
<1>10. Execute(middle, op) = ExecuteSwap(middle, op.payload, {})
  BY <1>3 DEF Execute
<1>11. Execute(middle, op) = IF Makes(quote, MinOut) THEN {After(r, amount, quote)} ELSE {}
  BY <1>3, <1>7, <1>9, <1>10 DEF ExecuteSwap
<1> QED BY <1>8, <1>11 DEF middle, allow, op

\* Both forms of Calls have that effect on the contracts and no other, and none at
\* all for a quote that the router does not accept.
LEMMA CallsApplied ==
    ASSUME TypeOK, NEW r \in allRoutes, NEW amount \in Nat, NEW quote
    PROVE  Lemmas!Applied(Contracts(quote), Lemmas!Ops(Calls(r, amount)))
             = {Outcome(r, amount, quote)}
<1> DEFINE made == IF Makes(quote, MinOut) THEN {After(r, amount, quote)} ELSE {}
<1>0. (IF made = {} THEN {Contracts(quote)} ELSE made) = {Outcome(r, amount, quote)}
  BY DEF Outcome
<1>1. CASE r[1] \in Native
  <2> DEFINE intents == {[token |-> r[1], limit |-> amount]}
  <2>1. Lemmas!Ops(Calls(r, amount)) = <<ExecuteOp(r, amount, intents)>>
    BY <1>1, Lemmas!OneOp, ExecuteDefaults DEF Calls
  <2>2. Execute(Contracts(quote), ExecuteOp(r, amount, intents)) = made
    BY <1>1, NativeExecuted
  <2> HIDE DEF intents, made
  <2> QED BY <1>0, <2>1, <2>2, Lemmas!OneCall
<1>2. CASE r[1] \notin Native
  <2>1. Mapping[r[1]] # NoContract
    BY <1>2, SwapBotAssumption DEF ValidAssets, allRoutes, Mapped
  <2>2. Lemmas!Ops(Calls(r, amount)) =
          <<AllowanceOp(r[1], amount), ExecuteOp(r, amount, {})>>
    BY <1>2, <2>1, Lemmas!TwoOps, ExecuteDefaults, AllowanceDefaults DEF Calls
  <2>3. /\ Execute(Contracts(quote), AllowanceOp(r[1], amount)) = {Between(r, amount, quote)}
        /\ Execute(Between(r, amount, quote), ExecuteOp(r, amount, {})) = made
    BY <1>2, MappedExecuted
  <2> DEFINE op1 == AllowanceOp(r[1], amount)
             op2 == ExecuteOp(r, amount, {})
             middle == Between(r, amount, quote)
             state == Contracts(quote)
  <2>4. Execute(state, op1) = {middle} /\ Execute(middle, op2) = made
    BY <2>3
  <2> HIDE DEF made, op1, op2, middle, state
  <2>5. UNION {Execute(s, op2) : s \in Execute(state, op1)} = made
    BY <2>4
  <2>6. Lemmas!Applied(state, <<op1, op2>>) = IF made = {} THEN {state} ELSE made
    BY <2>5, Lemmas!TwoCalls
  <2> QED BY <1>0, <2>2, <2>6 DEF op1, op2, state
<1> QED BY <1>1, <1>2

LEMMA SendResults ==
    ASSUME TypeOK, NEW r \in allRoutes, NEW amount \in Nat, NEW quote,
           NEW reply \in Send(r, amount, quote)
    PROVE  /\ reply.state \in {Contracts(quote), Outcome(r, amount, quote)}
           /\ ~reply.err => reply.state = Outcome(r, amount, quote)
<1> DEFINE ops == Lemmas!Ops(Calls(r, amount))
           state == Contracts(quote)
<1>1. Calls(r, amount) # <<>>
  BY DEF Calls
<1>2. Send(r, amount, quote) = Hive!Broadcast(state, Hive!Ops(Calls(r, amount)))
  BY <1>1 DEF Send, Hive!CallContractMulti
<1>3. Hive!Ops(Calls(r, amount)) = ops
  BY DEF Hive!Ops, Hive!WithDefaults, Hive!Wrapper, Hive!DefaultRC,
         Lemmas!Ops, Lemmas!WithDefaults, Lemmas!Wrapper, Lemmas!DefaultRC
<1>4. Lemmas!Applied(state, ops) = {Outcome(r, amount, quote)}
  BY CallsApplied
<1> HIDE DEF ops, state
<1>5. Hive!Applied(state, ops) = Lemmas!Applied(state, ops)
  BY DEF Lemmas!Applied, Hive!Applied
<1>6. Hive!Broadcast(state, ops) = Lemmas!Broadcast(state, ops)
  BY <1>5 DEF Lemmas!Broadcast, Hive!Broadcast
<1>7. reply \in Lemmas!Broadcast(state, ops)
  BY <1>2, <1>3, <1>6
<1> QED BY <1>4, <1>7, Lemmas!Results DEF state

\* What a swap leaves behind: no allowance, and a ledger that counts it only if it
\* went through the pools or the router refused it.
LEMMA SwapEffects ==
    ASSUME TypeOK, NEW r \in allRoutes, doSwap(r)
    PROVE  \E amount \in MinAmount[r[1]] .. MaxAmount[r[1]] :
             /\ amount \in Nat
             /\ UNCHANGED allowance
             /\ moved' \in {moved, Add(moved, r, amount)}
             /\ refused' \in {refused, Add(refused, r, amount)}
             /\ \/ /\ Count(r, amount)
                   /\ UNCHANGED failed
                   /\ \/ DryRun
                      \/ moved' = Add(moved, r, amount) /\ refused' = refused
                      \/ moved' = moved /\ refused' = Add(refused, r, amount)
                \/ /\ UNCHANGED <<sent, counts, volume>>
                   /\ failed' = failed + 1
<1>1. PICK amount \in MinAmount[r[1]] .. MaxAmount[r[1]] :
        \/ /\ DryRun
           /\ Count(r, amount)
           /\ UNCHANGED <<failed, moved, refused, allowance>>
        \/ /\ ~DryRun
           /\ \E quote \in Quotes : \E reply \in Send(r, amount, quote) :
                 /\ Settle(reply, r, amount, quote)
                 /\ \/ reply.err /\ failed' = failed + 1 /\ UNCHANGED <<sent, counts, volume>>
                    \/ ~reply.err /\ Count(r, amount) /\ UNCHANGED failed
  BY DEF doSwap
<1>2. amount \in Nat
  BY SwapBotAssumption DEF ValidAssets, allRoutes
<1>3. CASE DryRun /\ Count(r, amount) /\ UNCHANGED <<failed, moved, refused, allowance>>
  BY <1>2, <1>3
<1>4. ASSUME NEW quote \in Quotes, NEW reply \in Send(r, amount, quote),
             Settle(reply, r, amount, quote),
             \/ reply.err /\ failed' = failed + 1 /\ UNCHANGED <<sent, counts, volume>>
             \/ ~reply.err /\ Count(r, amount) /\ UNCHANGED failed
      PROVE  /\ UNCHANGED allowance
             /\ moved' \in {moved, Add(moved, r, amount)}
             /\ refused' \in {refused, Add(refused, r, amount)}
             /\ \/ /\ Count(r, amount)
                   /\ UNCHANGED failed
                   /\ \/ moved' = Add(moved, r, amount) /\ refused' = refused
                      \/ moved' = moved /\ refused' = Add(refused, r, amount)
                \/ UNCHANGED <<sent, counts, volume>> /\ failed' = failed + 1
  <2>1. /\ reply.state \in {Contracts(quote), Outcome(r, amount, quote)}
        /\ ~reply.err => reply.state = Outcome(r, amount, quote)
    BY <1>2, SendResults
  <2>2. /\ Contracts(quote).moved = moved /\ Contracts(quote).allowance = allowance
        /\ After(r, amount, quote).moved = Add(moved, r, amount)
        /\ After(r, amount, quote).allowance = allowance
    BY DEF Contracts, After
  <2>3. /\ moved' = reply.state.moved /\ allowance' = reply.state.allowance
        /\ reply.err \/ Makes(quote, MinOut) => refused' = refused
        /\ ~(reply.err \/ Makes(quote, MinOut)) => refused' = Add(refused, r, amount)
    BY <1>4 DEF Settle
  <2>4. CASE Makes(quote, MinOut)
    <3>1. Outcome(r, amount, quote) = After(r, amount, quote)
      BY <2>4 DEF Outcome
    <3> QED BY <1>4, <2>1, <2>2, <2>3, <2>4, <3>1
  <2>5. CASE ~Makes(quote, MinOut)
    <3>1. Outcome(r, amount, quote) = Contracts(quote)
      BY <2>5 DEF Outcome
    <3> QED BY <1>4, <2>1, <2>2, <2>3, <2>5, <3>1
  <2> QED BY <2>4, <2>5
<1> QED BY <1>1, <1>2, <1>3, <1>4

-----------------------------------------------------------------------------
LEMMA Added ==
    ASSUME NEW f \in [allRoutes -> Nat], NEW r \in allRoutes, NEW n \in Nat
    PROVE  /\ Add(f, r, n) \in [allRoutes -> Nat]
           /\ Add(f, r, n)[r] = f[r] + n
           /\ \A q \in allRoutes \ {r} : Add(f, r, n)[q] = f[q]
BY DEF Add

LEMMA Quotient ==
    ASSUME NEW a \in Nat, NEW b \in Nat \ {0}
    PROVE  a \div b \in Nat
OBVIOUS

LEMMA Products ==
    ASSUME NEW a \in Nat \ {0}, NEW b \in Nat \ {0}
    PROVE  a * b \in Nat \ {0}
OBVIOUS

LEMMA OffsetsTyped ==
    ASSUME TypeOK
    PROVE  Offsets \in [allRoutes -> Nat]
<1> SUFFICES ASSUME NEW r \in allRoutes, Gap(volume, Reverse(r)) > 0
             PROVE  (2 * Gap(volume, Reverse(r)) + Scale(r)) \div (2 * Scale(r)) \in Nat
  BY DEF Offsets
<1> USE SwapBotAssumption DEF ValidAssets
<1>1. Mean2(r[1]) \in Nat \ {0} /\ Mean2(r[2]) \in Nat \ {0}
  BY DEF Mean2, allRoutes
<1>2. Scale(r) \in Nat \ {0}
  BY <1>1, Products DEF Scale
<1>3. Reverse(r) \in allRoutes /\ Reverse(Reverse(r)) = r /\ Reverse(r)[1] = r[2] /\ Reverse(r)[2] = r[1]
  BY DEF Reverse, allRoutes
<1>4. volume[r] \in Nat /\ volume[Reverse(r)] \in Nat
  BY <1>3 DEF TypeOK
<1>5. volume[Reverse(r)] * Mean2(r[1]) \in Int /\ volume[r] * Mean2(r[2]) \in Int
  BY <1>1, <1>4
<1>6. Gap(volume, Reverse(r)) \in Int
  BY <1>3, <1>5 DEF Gap
<1> HIDE DEF ValidAssets
<1>7. 2 * Gap(volume, Reverse(r)) + Scale(r) \in Nat /\ 2 * Scale(r) \in Nat \ {0}
  BY <1>2, <1>6
<1> QED BY <1>7, Quotient

\* A round under way is one of the Rounds.
TypeInv == TypeOK /\ (pc = "swap" => round < Rounds)

LEMMA TypeInit == Init => TypeInv
<1> SUFFICES ASSUME Init PROVE TypeInv
  OBVIOUS
<1>1. None \in [allRoutes -> Nat]
  BY DEF None
<1>2. {volume, counts, todo, issued, moved, refused, drawn} \subseteq [allRoutes -> Nat]
  BY <1>1 DEF Init
<1>3. allowance \in [MappingContracts -> Nat]
  BY DEF Init
<1>4. pc = "round" /\ round = 0 /\ left = 0 /\ queue = allRoutes /\ sent = 0 /\ failed = 0
  BY DEF Init
<1>5. Rounds \in Nat /\ BatchMax \in Nat
  BY SwapBotAssumption DEF ValidFlags
<1> QED BY <1>2, <1>3, <1>4, <1>5 DEF TypeInv, TypeOK

LEMMA SwapTyped ==
    ASSUME TypeOK, NEW r \in allRoutes, doSwap(r)
    PROVE  /\ {volume', counts', moved', refused'} \subseteq [allRoutes -> Nat]
           /\ allowance' \in [MappingContracts -> Nat]
           /\ sent' \in Nat /\ failed' \in Nat
<1>1. PICK amount \in MinAmount[r[1]] .. MaxAmount[r[1]] :
        /\ amount \in Nat
        /\ UNCHANGED allowance
        /\ moved' \in {moved, Add(moved, r, amount)}
        /\ refused' \in {refused, Add(refused, r, amount)}
        /\ \/ Count(r, amount) /\ UNCHANGED failed
           \/ UNCHANGED <<sent, counts, volume>> /\ failed' = failed + 1
  BY SwapEffects
<1>2. /\ volume \in [allRoutes -> Nat] /\ counts \in [allRoutes -> Nat]
      /\ moved \in [allRoutes -> Nat] /\ refused \in [allRoutes -> Nat]
  BY DEF TypeOK
<1>3. /\ Add(moved, r, amount) \in [allRoutes -> Nat]
      /\ Add(refused, r, amount) \in [allRoutes -> Nat]
      /\ Add(volume, r, amount) \in [allRoutes -> Nat]
      /\ Add(counts, r, 1) \in [allRoutes -> Nat]
  BY <1>1, <1>2, Added
<1>4. moved' \in [allRoutes -> Nat] /\ refused' \in [allRoutes -> Nat]
  BY <1>1, <1>2, <1>3
<1>5. volume' \in [allRoutes -> Nat] /\ counts' \in [allRoutes -> Nat]
  BY <1>1, <1>2, <1>3 DEF Count
<1>6. sent' \in Nat /\ failed' \in Nat
  BY <1>1 DEF TypeOK, Count
<1> QED BY <1>1, <1>4, <1>5, <1>6 DEF TypeOK

LEMMA TypeStep == TypeInv /\ [Next]_vars => TypeInv'
<1> SUFFICES ASSUME TypeOK, pc = "swap" => round < Rounds, [Next]_vars
             PROVE  TypeInv'
  BY DEF TypeInv
<1>0. /\ Rounds \in Nat /\ BatchMax \in Nat /\ BatchMin \in Nat
      /\ allRoutes' = allRoutes /\ MappingContracts' = MappingContracts
  BY SwapBotAssumption DEF ValidFlags, allRoutes, MappingContracts
<1>1. CASE StartRound
  BY <1>0, <1>1 DEF StartRound, TypeInv, TypeOK, ledger
<1>2. CASE SwapNext
  <2>1. PICK r \in Available :
          queue' = Available \ {r} /\ drawn' = Add(drawn, r, 1) /\ doSwap(r)
    BY <1>2 DEF SwapNext
  <2>2. Available \subseteq allRoutes
    BY DEF Available, TypeOK
  <2>3. drawn' \in [allRoutes -> Nat]
    BY <2>1, <2>2, Added DEF TypeOK
  <2>4. left' \in 0 .. BatchMax
    BY <1>0, <1>2 DEF SwapNext, TypeOK
  <2>5. /\ {volume', counts', moved', refused'} \subseteq [allRoutes -> Nat]
        /\ allowance' \in [MappingContracts -> Nat]
        /\ sent' \in Nat /\ failed' \in Nat
    BY <2>1, <2>2, SwapTyped
  <2> QED BY <1>0, <1>2, <2>1, <2>2, <2>3, <2>4, <2>5 DEF SwapNext, TypeInv, TypeOK
<1>3. CASE EndRound
  <2>1. round' \in 0 .. Rounds
    BY <1>0, <1>3 DEF EndRound, TypeOK
  <2> QED BY <1>0, <1>3, <2>1 DEF EndRound, TypeInv, TypeOK, ledger
<1>4. CASE EndRounds
  <2>1. todo' \in [allRoutes -> Nat]
    BY <1>4, OffsetsTyped DEF EndRounds, TypeOK
  <2> QED BY <1>0, <1>4, <2>1 DEF EndRounds, TypeInv, TypeOK, ledger
<1>5. CASE OffsetNext
  <2>1. PICK r \in allRoutes : issued' = Add(issued, r, 1) /\ doSwap(r)
    BY <1>5 DEF OffsetNext
  <2>2. issued' \in [allRoutes -> Nat]
    BY <2>1, Added DEF TypeOK
  <2>3. /\ {volume', counts', moved', refused'} \subseteq [allRoutes -> Nat]
        /\ allowance' \in [MappingContracts -> Nat]
        /\ sent' \in Nat /\ failed' \in Nat
    BY <2>1, SwapTyped
  <2> QED BY <1>0, <1>5, <2>2, <2>3 DEF OffsetNext, TypeInv, TypeOK
<1>6. CASE EndOffsets
  BY <1>0, <1>6 DEF EndOffsets, TypeInv, TypeOK, ledger
<1>7. CASE UNCHANGED vars
  BY <1>0, <1>7 DEF vars, TypeInv, TypeOK, ledger
<1> QED BY <1>1, <1>2, <1>3, <1>4, <1>5, <1>6, <1>7 DEF Next

\* Types of all variables, for any assets, sizes, rounds and outcomes.
THEOREM TypeCorrect == Spec => []TypeOK
<1>1. TypeInv => TypeOK
  BY DEF TypeInv
<1> QED BY <1>1, TypeInit, TypeStep, PTL DEF Spec

-----------------------------------------------------------------------------
\* "Ordered and atomic within one tx": no allowance is left standing after a swap.
THEOREM NoAllowanceLeft == Spec => []AllowanceSpent
<1>1. Init => AllowanceSpent
  BY DEF Init, AllowanceSpent
<1>2. TypeOK /\ AllowanceSpent /\ [Next]_vars => AllowanceSpent'
  <2> SUFFICES ASSUME TypeOK, AllowanceSpent, [Next]_vars PROVE AllowanceSpent'
    OBVIOUS
  <2>1. MappingContracts' = MappingContracts
    BY DEF MappingContracts
  <2>2. ASSUME NEW r \in allRoutes, doSwap(r) PROVE UNCHANGED allowance
    BY <2>2, SwapEffects
  <2>3. Available \subseteq allRoutes
    BY DEF Available, TypeOK
  <2>4. CASE SwapNext
    BY <2>2, <2>3, <2>4, <2>1 DEF SwapNext, AllowanceSpent
  <2>5. CASE OffsetNext
    BY <2>2, <2>5, <2>1 DEF OffsetNext, AllowanceSpent
  <2>6. CASE UNCHANGED allowance
    BY <2>1, <2>6 DEF AllowanceSpent
  <2> QED BY <2>4, <2>5, <2>6
            DEF Next, StartRound, EndRound, EndRounds, EndOffsets, vars, ledger
<1> QED BY <1>1, <1>2, TypeCorrect, PTL DEF Spec

-----------------------------------------------------------------------------
LEMMA Distributed ==
    ASSUME NEW n \in Nat, NEW m \in Nat
    PROVE  (n + 1) * m = n * m + m
OBVIOUS

LEMMA SwapSound ==
    ASSUME TypeOK, RoutesSound, NEW r \in allRoutes, doSwap(r)
    PROVE  RoutesSound'
<1> DEFINE Grown(amount) == \/ moved' = Add(moved, r, amount) /\ refused' = refused
                            \/ moved' = moved /\ refused' = Add(refused, r, amount)
<1>1. PICK amount \in MinAmount[r[1]] .. MaxAmount[r[1]] :
        /\ amount \in Nat
        /\ moved' \in {moved, Add(moved, r, amount)}
        /\ refused' \in {refused, Add(refused, r, amount)}
        /\ \/ Count(r, amount) /\ failed' = failed /\ (DryRun \/ Grown(amount))
           \/ UNCHANGED <<sent, counts, volume>> /\ failed' = failed + 1
  BY SwapEffects
<1>2. /\ volume \in [allRoutes -> Nat] /\ counts \in [allRoutes -> Nat]
      /\ moved \in [allRoutes -> Nat] /\ refused \in [allRoutes -> Nat] /\ failed \in Nat
  BY DEF TypeOK
<1>3. /\ Add(moved, r, amount)[r] = moved[r] + amount
      /\ \A q \in allRoutes \ {r} : Add(moved, r, amount)[q] = moved[q]
      /\ Add(refused, r, amount)[r] = refused[r] + amount
      /\ \A q \in allRoutes \ {r} : Add(refused, r, amount)[q] = refused[q]
  <2>1. amount \in Nat
    BY <1>1
  <2>2. /\ Add(moved, r, amount)[r] = moved[r] + amount
        /\ \A q \in allRoutes \ {r} : Add(moved, r, amount)[q] = moved[q]
    BY <1>2, <2>1, Added
  <2>3. /\ Add(refused, r, amount)[r] = refused[r] + amount
        /\ \A q \in allRoutes \ {r} : Add(refused, r, amount)[q] = refused[q]
    BY <1>2, <2>1, Added
  <2> QED BY <2>2, <2>3
<1>4. SUFFICES ASSUME NEW q \in allRoutes
               PROVE  /\ counts'[q] * MinAmount[q[1]] <= volume'[q]
                      /\ volume'[q] <= counts'[q] * MaxAmount[q[1]]
                      /\ ~DryRun => volume'[q] <= moved'[q] + refused'[q]
                      /\ ~DryRun /\ failed' = 0 => volume'[q] = moved'[q] + refused'[q]
  BY DEF RoutesSound, allRoutes
<1>5. /\ MinAmount[q[1]] \in Nat /\ MaxAmount[q[1]] \in Nat
      /\ counts[q] \in Nat /\ volume[q] \in Nat /\ moved[q] \in Nat /\ refused[q] \in Nat
  BY <1>2, SwapBotAssumption DEF ValidAssets, allRoutes
<1>6. /\ counts[q] * MinAmount[q[1]] <= volume[q]
      /\ volume[q] <= counts[q] * MaxAmount[q[1]]
      /\ ~DryRun => volume[q] <= moved[q] + refused[q]
      /\ ~DryRun /\ failed = 0 => volume[q] = moved[q] + refused[q]
  BY DEF RoutesSound
<1>7. /\ Add(counts, r, 1)[r] = counts[r] + 1 /\ Add(volume, r, amount)[r] = volume[r] + amount
      /\ q # r => Add(counts, r, 1)[q] = counts[q] /\ Add(volume, r, amount)[q] = volume[q]
  <2>1. /\ Add(counts, r, 1)[r] = counts[r] + 1
        /\ \A s \in allRoutes \ {r} : Add(counts, r, 1)[s] = counts[s]
    BY <1>2 DEF Add
  <2>2. /\ Add(volume, r, amount)[r] = volume[r] + amount
        /\ \A s \in allRoutes \ {r} : Add(volume, r, amount)[s] = volume[s]
    <3>1. amount \in Nat
      BY <1>1
    <3> HIDE <1>1 DEF Grown
    <3> QED BY <1>2, <3>1, Added
  <2> QED BY <2>1, <2>2
<1>8. /\ moved'[q] \in Nat /\ moved[q] <= moved'[q]
      /\ refused'[q] \in Nat /\ refused[q] <= refused'[q]
  BY <1>1, <1>3, <1>5
<1>9. CASE UNCHANGED <<sent, counts, volume>> /\ failed' = failed + 1
  <2>1. volume'[q] <= moved'[q] + refused'[q] \/ DryRun
    BY <1>5, <1>6, <1>8, <1>9
  <2>2. failed' # 0
    BY <1>2, <1>9
  <2> QED BY <1>6, <1>9, <2>1, <2>2
<1>10. CASE q = r /\ Count(r, amount) /\ failed' = failed /\ (DryRun \/ Grown(amount))
  <2>1. counts'[q] = counts[q] + 1 /\ volume'[q] = volume[q] + amount
    BY <1>10, <1>7 DEF Count
  <2>2. /\ counts'[q] * MinAmount[q[1]] = counts[q] * MinAmount[q[1]] + MinAmount[q[1]]
        /\ counts'[q] * MaxAmount[q[1]] = counts[q] * MaxAmount[q[1]] + MaxAmount[q[1]]
    BY <1>5, <2>1, Distributed
  <2>3. MinAmount[q[1]] <= amount /\ amount <= MaxAmount[q[1]]
    BY <1>5, <1>10
  <2>4. counts[q] * MinAmount[q[1]] \in Nat /\ counts[q] * MaxAmount[q[1]] \in Nat
    BY <1>5
  <2>5. ~DryRun => moved'[q] + refused'[q] = (moved[q] + refused[q]) + amount
    BY <1>1, <1>3, <1>5, <1>10
  <2>6. failed' = failed
    BY <1>10
  <2> HIDE <1>10
  <2> QED BY <1>1, <1>5, <1>6, <2>1, <2>2, <2>3, <2>4, <2>5, <2>6
<1>11. CASE q # r /\ Count(r, amount) /\ failed' = failed
  <2>1. counts'[q] = counts[q] /\ volume'[q] = volume[q]
    BY <1>11, <1>7 DEF Count
  <2>2. moved'[q] = moved[q] /\ refused'[q] = refused[q]
    BY <1>1, <1>3, <1>11
  <2> QED BY <1>6, <1>11, <2>1, <2>2
<1> QED BY <1>1, <1>9, <1>10, <1>11

\* The ledger of every route lies between the smallest and the largest amounts of
\* the swaps it counts, claims no more than went through the pools or was refused by
\* the router, and exactly that while no call has failed.
THEOREM RoutesAlwaysSound == Spec => []RoutesSound
<1>1. Init => RoutesSound
  <2> SUFFICES ASSUME Init, NEW r \in allRoutes
               PROVE  /\ counts[r] * MinAmount[r[1]] <= volume[r]
                      /\ volume[r] <= counts[r] * MaxAmount[r[1]]
                      /\ ~DryRun => volume[r] <= moved[r] + refused[r]
                      /\ ~DryRun /\ failed = 0 => volume[r] = moved[r] + refused[r]
    BY DEF RoutesSound
  <2>1. counts[r] = 0 /\ volume[r] = 0 /\ moved[r] = 0 /\ refused[r] = 0
    BY DEF Init, None
  <2>2. MinAmount[r[1]] \in Nat /\ MaxAmount[r[1]] \in Nat
    BY SwapBotAssumption DEF ValidAssets, allRoutes
  <2> QED BY <2>1, <2>2
<1>2. TypeOK /\ RoutesSound /\ [Next]_vars => RoutesSound'
  <2> SUFFICES ASSUME TypeOK, RoutesSound, [Next]_vars PROVE RoutesSound'
    OBVIOUS
  <2>1. Available \subseteq allRoutes
    BY DEF Available, TypeOK
  <2>2. CASE SwapNext
    BY <2>1, <2>2, SwapSound DEF SwapNext
  <2>3. CASE OffsetNext
    BY <2>3, SwapSound DEF OffsetNext
  <2>4. CASE UNCHANGED ledger
    BY <2>4 DEF ledger, RoutesSound, allRoutes
  <2> QED BY <2>2, <2>3, <2>4
            DEF Next, StartRound, EndRound, EndRounds, EndOffsets, vars
<1> QED BY <1>1, <1>2, TypeCorrect, PTL DEF Spec

-----------------------------------------------------------------------------
LEMMA RoutesFinite == IsFiniteSet(allRoutes)
<1>1. IsFiniteSet(Assets \X Assets)
  BY SwapBotAssumption, FS_Product DEF ValidAssets
<1> QED BY <1>1, FS_Subset DEF allRoutes

\* sent is what the per-route counts add up to.
SentIsTotal == sent = Sum(counts)

LEMMA SwapCounted ==
    ASSUME TypeOK, SentIsTotal, NEW r \in allRoutes, doSwap(r)
    PROVE  SentIsTotal'
<1>1. PICK amount \in MinAmount[r[1]] .. MaxAmount[r[1]] :
        \/ Count(r, amount)
        \/ UNCHANGED <<sent, counts, volume>>
  BY SwapEffects
<1>2. CASE Count(r, amount)
  <2>1. counts \in [allRoutes -> Int] /\ 1 \in Int
    BY DEF TypeOK
  <2>2. Sum([counts EXCEPT ![r] = @ + 1]) = Sum(counts) + 1
    BY <2>1, RoutesFinite, SumGrows
  <2> QED BY <1>2, <2>2 DEF Count, Add, SentIsTotal
<1>3. CASE UNCHANGED <<sent, counts, volume>>
  BY <1>3 DEF SentIsTotal
<1> QED BY <1>1, <1>2, <1>3

LEMMA TotalAlways == Spec => []SentIsTotal
<1>1. Init => SentIsTotal
  <2>1. Sum(None) = 0
    BY RoutesFinite, SumOfZeros DEF None
  <2> QED BY <2>1 DEF Init, SentIsTotal
<1>2. TypeOK /\ SentIsTotal /\ [Next]_vars => SentIsTotal'
  <2> SUFFICES ASSUME TypeOK, SentIsTotal, [Next]_vars PROVE SentIsTotal'
    OBVIOUS
  <2>1. Available \subseteq allRoutes
    BY DEF Available, TypeOK
  <2>2. CASE SwapNext
    BY <2>1, <2>2, SwapCounted DEF SwapNext
  <2>3. CASE OffsetNext
    BY <2>3, SwapCounted DEF OffsetNext
  <2>4. CASE UNCHANGED ledger
    BY <2>4 DEF ledger, SentIsTotal
  <2> QED BY <2>2, <2>3, <2>4
            DEF Next, StartRound, EndRound, EndRounds, EndOffsets, vars
<1> QED BY <1>1, <1>2, TypeCorrect, PTL DEF Spec

\* What reconcile and the last line read: the ledger of every route is sound, and
\* the total is the sum of the routes' counts, for any assets, sizes and outcomes.
THEOREM LedgerAlwaysSound == Spec => []LedgerSound
<1>1. RoutesSound /\ SentIsTotal => LedgerSound
  BY DEF LedgerSound, SentIsTotal, Sum
<1> QED BY <1>1, RoutesAlwaysSound, TotalAlways, PTL

-----------------------------------------------------------------------------
(***************************************************************************)
(* The reconciliation, while no call has failed: what the ledger says is   *)
(* what it said when the offsets were planned, and the offsetting swaps    *)
(* since then.                                                             *)
(***************************************************************************)
Planned(v) ==
    [r \in allRoutes |->
        LET gap == Gap(v, Reverse(r))
        IN  IF gap > 0 THEN (2 * gap + Scale(r)) \div (2 * Scale(r)) ELSE 0]

Offsetting(v) ==
    /\ todo = Planned(v)
    /\ \A q \in allRoutes : /\ v[q] + issued[q] * MinAmount[q[1]] <= volume[q]
                            /\ volume[q] <= v[q] + issued[q] * MaxAmount[q[1]]

PoolsInv ==
    /\ pc \in {"round", "swap"} => issued = None
    /\ pc \in {"offset", "done"} /\ ~NoRebalance /\ failed = 0 =>
          \E v \in [allRoutes -> Nat] : Offsetting(v)
    /\ pc = "done" /\ ~NoRebalance => issued = todo

LEMMA Tried ==
    ASSUME TypeOK, NEW r \in allRoutes, doSwap(r), failed' = 0
    PROVE  /\ failed = 0
           /\ \E amount \in MinAmount[r[1]] .. MaxAmount[r[1]] :
                amount \in Nat /\ volume' = Add(volume, r, amount)
<1>1. PICK amount \in MinAmount[r[1]] .. MaxAmount[r[1]] :
        /\ amount \in Nat
        /\ \/ Count(r, amount) /\ UNCHANGED failed
           \/ failed' = failed + 1
  BY SwapEffects
<1>2. failed \in Nat
  BY DEF TypeOK
<1>3. Count(r, amount) /\ failed = 0
  BY <1>1, <1>2
<1>4. volume' = Add(volume, r, amount)
  BY <1>3 DEF Count
<1> QED BY <1>1, <1>3, <1>4

\* An offsetting swap moves the ledger by an amount of its asset's range.
LEMMA OffsetStep ==
    ASSUME TypeOK, NEW v \in [allRoutes -> Nat], Offsetting(v),
           NEW r \in allRoutes, NEW amount \in MinAmount[r[1]] .. MaxAmount[r[1]],
           amount \in Nat,
           volume' = Add(volume, r, amount), issued' = Add(issued, r, 1), todo' = todo
    PROVE  Offsetting(v)'
<1>1. SUFFICES ASSUME NEW q \in allRoutes
               PROVE  /\ v[q] + issued'[q] * MinAmount[q[1]] <= volume'[q]
                      /\ volume'[q] <= v[q] + issued'[q] * MaxAmount[q[1]]
  BY DEF Offsetting, Planned, allRoutes, Gap, Scale, Reverse, Mean2
<1>2. /\ MinAmount[q[1]] \in Nat /\ MaxAmount[q[1]] \in Nat
      /\ issued[q] \in Nat /\ volume[q] \in Nat /\ v[q] \in Nat
  BY SwapBotAssumption DEF ValidAssets, allRoutes, TypeOK
<1>3. /\ v[q] + issued[q] * MinAmount[q[1]] <= volume[q]
      /\ volume[q] <= v[q] + issued[q] * MaxAmount[q[1]]
  BY DEF Offsetting
<1>4. issued \in [allRoutes -> Nat] /\ volume \in [allRoutes -> Nat] /\ 1 \in Nat
  BY DEF TypeOK
<1>5. CASE q # r
  <2>1. Add(issued, r, 1)[q] = issued[q]
    BY <1>4, <1>5 DEF Add
  <2>2. Add(volume, r, amount)[q] = volume[q]
    BY <1>4, <1>5 DEF Add
  <2> QED BY <1>3, <2>1, <2>2
<1>6. CASE q = r
  <2>1. issued'[q] = issued[q] + 1 /\ volume'[q] = volume[q] + amount
    BY <1>4, <1>6, Added
  <2>2. /\ issued'[q] * MinAmount[q[1]] = issued[q] * MinAmount[q[1]] + MinAmount[q[1]]
        /\ issued'[q] * MaxAmount[q[1]] = issued[q] * MaxAmount[q[1]] + MaxAmount[q[1]]
    BY <1>2, <2>1, Distributed
  <2>3. MinAmount[q[1]] <= amount /\ amount <= MaxAmount[q[1]]
    BY <1>2, <1>6
  <2>4. issued[q] * MinAmount[q[1]] \in Nat /\ issued[q] * MaxAmount[q[1]] \in Nat
    BY <1>2
  <2> HIDE <1>6
  <2> QED BY <1>2, <1>3, <2>1, <2>2, <2>3, <2>4
<1> QED BY <1>5, <1>6

LEMMA PoolsStep == TypeOK /\ PoolsInv /\ [Next]_vars => PoolsInv'
<1> SUFFICES ASSUME TypeOK, PoolsInv, [Next]_vars PROVE PoolsInv'
  OBVIOUS
<1>0. allRoutes' = allRoutes /\ None' = None
  BY DEF allRoutes, None
<1>1. CASE SwapNext
  <2>1. pc = "swap" /\ pc' = "swap" /\ issued' = issued
    BY <1>1 DEF SwapNext
  <2> QED BY <1>0, <2>1 DEF PoolsInv
<1>2. CASE OffsetNext
  <2>1. PICK r \in allRoutes : issued' = Add(issued, r, 1) /\ doSwap(r)
    BY <1>2 DEF OffsetNext
  <2>2. pc = "offset" /\ pc' = "offset" /\ todo' = todo
    BY <1>2 DEF OffsetNext
  <2>3. ASSUME failed' = 0, ~NoRebalance
        PROVE  \E v \in [allRoutes -> Nat] : Offsetting(v)'
    <3>1. failed = 0
      BY <2>1, <2>3, Tried
    <3>2. PICK amount \in MinAmount[r[1]] .. MaxAmount[r[1]] :
            amount \in Nat /\ volume' = Add(volume, r, amount)
      BY <2>1, <2>3, Tried
    <3>3. PICK v \in [allRoutes -> Nat] : Offsetting(v)
      BY <2>2, <2>3, <3>1 DEF PoolsInv
    <3>4. Offsetting(v)'
      BY <2>1, <2>2, <3>2, <3>3, OffsetStep
    <3> QED BY <3>4
  <2> QED BY <1>0, <2>2, <2>3 DEF PoolsInv
<1>3. CASE EndRounds
  <2>1. /\ pc = "round" /\ issued' = issued /\ issued = None
        /\ UNCHANGED <<volume, failed>>
    BY <1>3 DEF EndRounds, ledger, PoolsInv
  <2>2. CASE NoRebalance
    BY <1>3, <2>1, <2>2 DEF EndRounds, PoolsInv
  <2>3. CASE ~NoRebalance
    <3>1. pc' = "offset" /\ todo' = Planned(volume)
      BY <1>3, <2>3 DEF EndRounds, Offsets, Planned
    <3>2. ASSUME NEW q \in allRoutes
          PROVE  /\ volume[q] + issued'[q] * MinAmount[q[1]] <= volume'[q]
                 /\ volume'[q] <= volume[q] + issued'[q] * MaxAmount[q[1]]
      <4>1. issued'[q] = 0 /\ volume'[q] = volume[q] /\ volume[q] \in Nat
        BY <2>1 DEF None, TypeOK
      <4>2. MinAmount[q[1]] \in Nat /\ MaxAmount[q[1]] \in Nat
        BY SwapBotAssumption DEF ValidAssets, allRoutes
      <4> QED BY <4>1, <4>2
    <3>3. volume \in [allRoutes -> Nat]
      BY DEF TypeOK
    <3>4. PICK v \in [allRoutes -> Nat] : v = volume
      BY <3>3, Zenon
    <3>5. Planned(v)' = Planned(v)
      BY DEF Planned, allRoutes, Gap, Scale, Reverse, Mean2
    <3>6. Offsetting(v)'
      BY <1>0, <3>1, <3>2, <3>4, <3>5 DEF Offsetting
    <3> QED BY <1>0, <2>1, <3>1, <3>6 DEF PoolsInv
  <2> QED BY <2>2, <2>3
<1>4. CASE EndOffsets
  <2>1. /\ pc = "offset" /\ pc' = "done" /\ issued = todo
        /\ UNCHANGED <<volume, failed, todo, issued>>
    BY <1>4 DEF EndOffsets, ledger
  <2>2. ASSUME NEW v \in [allRoutes -> Nat] PROVE Offsetting(v)' <=> Offsetting(v)
    BY <2>1 DEF Offsetting, Planned, allRoutes, Gap, Scale, Reverse, Mean2
  <2> QED BY <1>0, <2>1, <2>2 DEF PoolsInv
<1>5. CASE StartRound \/ EndRound
  <2>1. /\ pc \in {"round", "swap"} /\ pc' \in {"round", "swap"}
        /\ UNCHANGED <<volume, failed, issued>>
    BY <1>5 DEF StartRound, EndRound, ledger
  <2> QED BY <1>0, <2>1 DEF PoolsInv
<1>6. CASE UNCHANGED vars
  <2>1. UNCHANGED <<pc, volume, failed, todo, issued>>
    BY <1>6 DEF vars, ledger
  <2>2. ASSUME NEW v \in [allRoutes -> Nat] PROVE Offsetting(v)' <=> Offsetting(v)
    BY <2>1 DEF Offsetting, Planned, allRoutes, Gap, Scale, Reverse, Mean2
  <2> QED BY <1>0, <2>1, <2>2 DEF PoolsInv
<1> QED BY <1>1, <1>2, <1>3, <1>4, <1>5, <1>6 DEF Next

\* The arithmetic of one pair: d units went the way r in n offsetting swaps of
\* low .. high units each, x and y are twice the means, g the surplus before.
LEMMA SurplusAfter ==
    ASSUME NEW low \in Nat, NEW high \in Nat, NEW y \in Nat, NEW n \in Nat, NEW d \in Nat,
           n * low <= d, d <= n * high
    PROVE  LET x == low + high
               spread == (high - low) * y
           IN  /\ 2 * (n * (x * y)) - 2 * (n * spread) <= 4 * (d * y)
               /\ 4 * (d * y) <= 2 * (n * (x * y)) + 2 * (n * spread)
<1> DEFINE a == (n * low) * y
           b == (n * high) * y
<1>1. a <= d * y /\ d * y <= b
  <2>1. \A i, j, k \in Nat : i <= j => i * k <= j * k
    OBVIOUS
  <2>2. n * low \in Nat /\ n * high \in Nat
    OBVIOUS
  <2> QED BY <2>1, <2>2
<1>2. n * ((low + high) * y) = a + b
  OBVIOUS
<1>3. n * ((high - low) * y) = b - a
  OBVIOUS
<1>4. a \in Int /\ b \in Int /\ d * y \in Int
  OBVIOUS
<1> HIDE DEF a, b
<1> QED BY <1>1, <1>2, <1>3, <1>4

\* math.Round: the planned number of swaps, of size s each, is within half a swap.
LEMMA Rounded ==
    ASSUME NEW g \in Int, NEW s \in Nat \ {0}, g <= 0,
           NEW n, n = (IF -g > 0 THEN (2 * (-g) + s) \div (2 * s) ELSE 0)
    PROVE  n \in Nat /\ 2 * g + 2 * (n * s) <= s /\ -s <= 2 * g + 2 * (n * s)
<1>1. CASE g = 0
  BY <1>1
<1>2. CASE g < 0
  <2> DEFINE p == 2 * (-g) + s
             q == 2 * s
  <2>1. n = p \div q
    BY <1>2
  <2>2. p \in Nat /\ q \in Nat \ {0}
    BY <1>2
  <2> HIDE DEF p, q
  <2>3. n \in Nat /\ q * n <= p /\ p < q * (n + 1)
    BY <2>1, <2>2
  <2>4. q * n = 2 * (n * s) /\ q * (n + 1) = 2 * (n * s) + 2 * s
    BY <2>3 DEF q
  <2>5. n * s \in Int
    BY <2>3
  <2> QED BY <2>3, <2>4, <2>5 DEF p
<1> QED BY <1>1, <1>2

\* No swap planned one way: less than half a swap too much goes that way.
LEMMA RoundedToNone ==
    ASSUME NEW g \in Int, NEW s \in Nat \ {0}, g > 0, (2 * g + s) \div (2 * s) = 0
    PROVE  2 * g < s
<1> DEFINE p == 2 * g + s
           q == 2 * s
<1>1. p \in Nat /\ q \in Nat \ {0} /\ p \div q = 0
  OBVIOUS
<1> HIDE DEF p, q
<1>2. p < q
  BY <1>1
<1> QED BY <1>2 DEF p, q

LEMMA PairRestored ==
    ASSUME NEW v \in [allRoutes -> Nat], NEW w \in [allRoutes -> Nat], NEW r \in allRoutes,
           Planned(v)[Reverse(r)] = 0,
           w[Reverse(r)] = v[Reverse(r)],
           v[r] + Planned(v)[r] * MinAmount[r[1]] <= w[r],
           w[r] <= v[r] + Planned(v)[r] * MaxAmount[r[1]]
    PROVE  LET spread == (MaxAmount[r[1]] - MinAmount[r[1]]) * Mean2(r[2])
           IN  /\ 2 * Gap(w, r) <= Scale(r) + 2 * Planned(v)[r] * spread
               /\ -2 * Gap(w, r) <= Scale(r) + 2 * Planned(v)[r] * spread
<1> DEFINE low == MinAmount[r[1]]
           high == MaxAmount[r[1]]
           x == Mean2(r[1])
           y == Mean2(r[2])
           back == Reverse(r)
           n == Planned(v)[r]
           g == Gap(v, r)
           s == Scale(r)
           d == w[r] - v[r]
           spread == (high - low) * y
<1>1. /\ back \in allRoutes /\ Reverse(back) = r /\ back[1] = r[2] /\ back[2] = r[1]
  BY DEF Reverse, allRoutes
<1>2. low \in Nat \ {0} /\ high \in Nat \ {0} /\ x = low + high
  BY SwapBotAssumption DEF ValidAssets, allRoutes, Mean2
<1>3. x \in Nat \ {0} /\ y \in Nat \ {0}
  BY SwapBotAssumption DEF ValidAssets, allRoutes, Mean2
<1>4. s = x * y /\ s \in Nat \ {0} /\ Scale(back) = s
  <2>1. s = x * y /\ Scale(back) = y * x
    BY <1>1 DEF Scale
  <2> HIDE DEF x, y, s
  <2> QED BY <1>3, <2>1, Products
<1>5. /\ v[r] \in Nat /\ v[back] \in Nat /\ w[r] \in Nat /\ w[back] = v[back]
  BY <1>1
<1>6. /\ g = 2 * (v[r] * y - v[back] * x)
      /\ Gap(v, back) = 2 * (v[back] * x - v[r] * y)
      /\ Gap(w, r) = 2 * (w[r] * y - v[back] * x)
  BY <1>1, <1>5 DEF Gap
<1>7. g \in Int /\ Gap(v, back) = -g
  <2> HIDE DEF g, x, y, back
  <2>1. v[r] * y \in Int /\ v[back] * x \in Int
    BY <1>3, <1>5
  <2> QED BY <1>6, <2>1
<1>8. n = IF -g > 0 THEN (2 * (-g) + s) \div (2 * s) ELSE 0
  BY <1>4, <1>7 DEF Planned
<1>9. 0 = IF g > 0 THEN (2 * g + s) \div (2 * s) ELSE 0
  BY <1>1, <1>4 DEF Planned
<1>10. n \in Nat /\ 2 * g + 2 * (n * s) <= s /\ -s <= 2 * g + 2 * (n * s)
  <2> HIDE DEF g, n, s
  <2>1. CASE g <= 0
    BY <1>4, <1>7, <1>8, <2>1, Rounded
  <2>2. CASE g > 0
    <3>1. n = 0 /\ 2 * g < s
      BY <1>4, <1>7, <1>8, <1>9, <2>2, RoundedToNone
    <3> QED BY <1>4, <1>7, <2>2, <3>1
  <2> QED BY <1>7, <2>1, <2>2
<1>11. d \in Nat /\ n * low <= d /\ d <= n * high
  <2>1. v[r] + n * low <= w[r] /\ w[r] <= v[r] + n * high
    OBVIOUS
  <2> HIDE DEF n, low, high
  <2>2. n * low \in Nat /\ n * high \in Nat
    BY <1>2, <1>10
  <2> QED BY <1>5, <2>1, <2>2
<1>12. Gap(w, r) = g + 2 * (d * y)
  <2>1. w[r] * y = v[r] * y + d * y
    <3> HIDE DEF y
    <3> QED BY <1>3, <1>5
  <2>2. w[r] * y \in Int /\ v[r] * y \in Int /\ d * y \in Int /\ v[back] * x \in Int
    <3> HIDE DEF x, y, d, back
    <3> QED BY <1>3, <1>5, <1>11
  <2> HIDE DEF x, y, d, g, back
  <2> QED BY <1>6, <2>1, <2>2
<1>13. /\ 2 * (n * s) - 2 * (n * spread) <= 4 * (d * y)
       /\ 4 * (d * y) <= 2 * (n * s) + 2 * (n * spread)
  <2> HIDE DEF n, d, y, low, high, x, s
  <2> QED BY <1>2, <1>3, <1>4, <1>10, <1>11, SurplusAfter
<1>14. /\ d * y \in Int /\ n * s \in Int /\ spread \in Int /\ n * spread \in Int
       /\ 2 * n * spread = 2 * (n * spread)
  <2> HIDE DEF n, d, y, low, high, s
  <2>1. d * y \in Int /\ n * s \in Int /\ spread \in Int
    BY <1>2, <1>3, <1>4, <1>10, <1>11
  <2> HIDE DEF spread
  <2> QED BY <1>10, <2>1
<1>15. /\ 2 * Gap(w, r) <= s + 2 * n * spread
       /\ -2 * Gap(w, r) <= s + 2 * n * spread
  <2> HIDE DEF n, d, y, low, high, s, g, spread
  <2> QED BY <1>4, <1>7, <1>10, <1>12, <1>13, <1>14
<1> QED BY <1>15

\* At the end of the reconciliation nothing that was planned is left to do.
LEMMA LedgerEvened ==
    ASSUME TypeOK, PoolsInv, pc = "done", ~NoRebalance, failed = 0
    PROVE  Evened(volume)
<1> SUFFICES ASSUME NEW r \in allRoutes, todo[Reverse(r)] = 0
             PROVE  LET spread == (MaxAmount[r[1]] - MinAmount[r[1]]) * Mean2(r[2])
                    IN  /\ 2 * Gap(volume, r) <= Scale(r) + 2 * todo[r] * spread
                        /\ -2 * Gap(volume, r) <= Scale(r) + 2 * todo[r] * spread
  BY DEF Evened
<1>1. issued = todo
  BY DEF PoolsInv
<1>2. PICK v \in [allRoutes -> Nat] : Offsetting(v)
  BY DEF PoolsInv
<1>3. todo = Planned(v) /\ Reverse(r) \in allRoutes
  BY <1>2 DEF Offsetting, Reverse, allRoutes
<1>4. /\ v[r] + todo[r] * MinAmount[r[1]] <= volume[r]
      /\ volume[r] <= v[r] + todo[r] * MaxAmount[r[1]]
  BY <1>1, <1>2 DEF Offsetting
<1>5. volume[Reverse(r)] = v[Reverse(r)]
  <2> DEFINE q == Reverse(r)
  <2>1. /\ v[q] + 0 * MinAmount[q[1]] <= volume[q]
        /\ volume[q] <= v[q] + 0 * MaxAmount[q[1]]
    BY <1>1, <1>2, <1>3 DEF Offsetting
  <2>2. MinAmount[q[1]] \in Nat /\ MaxAmount[q[1]] \in Nat
    BY <1>3, SwapBotAssumption DEF ValidAssets, allRoutes
  <2>3. v[q] \in Nat /\ volume[q] \in Nat
    BY <1>3 DEF TypeOK
  <2> HIDE DEF q
  <2>4. v[q] = volume[q]
    BY <2>1, <2>2, <2>3
  <2> QED BY <2>4 DEF q
<1>6. volume \in [allRoutes -> Nat]
  BY DEF TypeOK
<1> QED BY <1>3, <1>4, <1>5, <1>6, PairRestored

\* What went through the pools is what the ledger says if no call failed and the
\* router refused nothing.
LEMMA NothingRefused ==
    ASSUME TypeOK, RoutesSound, ~DryRun, failed = 0, refused = None
    PROVE  moved = volume
<1>1. moved \in [allRoutes -> Nat] /\ volume \in [allRoutes -> Nat]
  BY DEF TypeOK
<1>2. ASSUME NEW r \in allRoutes PROVE moved[r] = volume[r]
  <2>1. refused[r] = 0 /\ volume[r] = moved[r] + refused[r]
    BY DEF None, RoutesSound
  <2> QED BY <1>1, <2>1
<1> QED BY <1>1, <1>2

\* A run that exits with 0 has evened out its ledger, and the pools if the router
\* refused nothing, for any assets, sizes and rounds: the two directions of a pair are
\* within half a mean swap of each other but for the spread of the offsetting swaps.
THEOREM PoolsAlwaysRestored == Spec => []PoolsRestored
<1>1. Init => PoolsInv
  BY DEF Init, PoolsInv
<1>2. TypeOK /\ PoolsInv /\ RoutesSound => PoolsRestored
  <2> SUFFICES ASSUME TypeOK, PoolsInv, RoutesSound, pc = "done", ~NoRebalance, failed = 0
               PROVE  Evened(volume) /\ (~DryRun /\ refused = None => Evened(moved))
    BY DEF PoolsRestored
  <2>1. Evened(volume)
    BY LedgerEvened
  <2>2. ASSUME ~DryRun, refused = None PROVE Evened(moved)
    BY <2>1, <2>2, NothingRefused
  <2> QED BY <2>1, <2>2
<1> QED BY <1>1, <1>2, PoolsStep, TypeCorrect, RoutesAlwaysSound, PTL DEF Spec

-----------------------------------------------------------------------------
(***************************************************************************)
(* How long a run can be.                                                  *)
(***************************************************************************)
\* A bound on the steps of the rounds still to come, and the offsetting swaps that
\* are planned and not yet tried.
RoundSteps ==
    (Rounds - round) * (BatchMax + 2) - (IF pc = "swap" THEN BatchMax + 1 - left ELSE 0)

Untried == [r \in allRoutes |-> todo[r] - issued[r]]

Shortens ==
    \/ /\ pc \in {"round", "swap"} /\ RoundSteps \in Nat
       /\ pc' \in {"offset", "done"} \/ RoundSteps' < RoundSteps
    \/ /\ pc = "offset" /\ Sum(Untried) \in Nat
       /\ pc' = "done" \/ (pc' = "offset" /\ Sum(Untried') < Sum(Untried))

\* No route is tried more often than planned, and none before the plan.
PlanInv ==
    /\ pc \in {"round", "swap"} => issued = None
    /\ pc = "offset" => \A r \in allRoutes : issued[r] <= todo[r]

LEMMA PlanStep == TypeOK /\ PlanInv /\ [Next]_vars => PlanInv'
<1> SUFFICES ASSUME TypeOK, PlanInv, [Next]_vars PROVE PlanInv'
  OBVIOUS
<1>0. allRoutes' = allRoutes /\ None' = None
  BY DEF allRoutes, None
<1>1. CASE EndRounds
  <2>1. issued' = None /\ pc' \in {"offset", "done"}
    BY <1>1 DEF EndRounds, PlanInv
  <2>2. pc' = "offset" => todo' \in [allRoutes -> Nat]
    BY <1>1, OffsetsTyped DEF EndRounds, TypeOK
  <2>3. pc' = "offset" => \A r \in allRoutes : issued'[r] <= todo'[r]
    BY <2>1, <2>2 DEF None
  <2> QED BY <1>0, <2>1, <2>3 DEF PlanInv
<1>2. CASE OffsetNext
  <2>1. PICK r \in allRoutes : issued[r] < todo[r] /\ issued' = Add(issued, r, 1)
    BY <1>2 DEF OffsetNext
  <2>2. issued \in [allRoutes -> Nat] /\ todo \in [allRoutes -> Nat] /\ 1 \in Nat
    BY DEF TypeOK
  <2>3. /\ issued'[r] = issued[r] + 1
        /\ \A q \in allRoutes \ {r} : issued'[q] = issued[q]
    BY <2>1, <2>2, Added
  <2>4. pc = "offset" /\ pc' = "offset" /\ todo' = todo
    BY <1>2 DEF OffsetNext
  <2>5. ASSUME NEW q \in allRoutes PROVE issued'[q] <= todo'[q]
    <3>1. issued[q] <= todo[q]
      BY <2>4 DEF PlanInv
    <3>2. CASE q = r
      BY <2>1, <2>2, <2>3, <2>4, <3>2
    <3>3. CASE q # r
      BY <2>3, <2>4, <3>1, <3>3
    <3> QED BY <3>2, <3>3
  <2> QED BY <1>0, <2>4, <2>5 DEF PlanInv
<1>3. CASE StartRound \/ SwapNext \/ EndRound
  BY <1>3 DEF StartRound, SwapNext, EndRound, PlanInv, None, allRoutes
<1>4. CASE EndOffsets
  BY <1>4 DEF EndOffsets, PlanInv
<1>5. CASE UNCHANGED vars
  BY <1>0, <1>5 DEF vars, PlanInv
<1> QED BY <1>1, <1>2, <1>3, <1>4, <1>5 DEF Next

LEMMA StepShortens == TypeInv /\ PlanInv /\ Next => Shortens
<1> SUFFICES ASSUME TypeInv, PlanInv, Next PROVE Shortens
  OBVIOUS
<1> DEFINE B == BatchMax + 2
           E == (Rounds - round) * B
<1>1. /\ Rounds \in Nat /\ BatchMax \in Nat /\ BatchMin \in Nat /\ B \in Nat
      /\ round \in Nat /\ round <= Rounds /\ (pc = "swap" => round < Rounds)
      /\ left \in Nat /\ left <= BatchMax
  BY SwapBotAssumption DEF ValidFlags, TypeInv, TypeOK
<1>2. E \in Nat
  BY <1>1
<1>3. round < Rounds => E = (Rounds - (round + 1)) * B + B /\ (Rounds - (round + 1)) * B \in Nat
  <2>1. ASSUME round < Rounds
        PROVE  \E k \in Nat : Rounds - round = k + 1 /\ Rounds - (round + 1) = k
    BY <1>1, <2>1
  <2>2. \A k \in Nat : (k + 1) * B = k * B + B /\ k * B \in Nat
    BY <1>1
  <2> QED BY <2>1, <2>2
<1>4. RoundSteps = E - (IF pc = "swap" THEN BatchMax + 1 - left ELSE 0)
  BY DEF RoundSteps
<1>5. RoundSteps' = (Rounds - round') * B - (IF pc' = "swap" THEN BatchMax + 1 - left' ELSE 0)
  BY DEF RoundSteps
<1>6. pc \in {"round", "swap"} => RoundSteps \in Nat
  <2> HIDE DEF E
  <2>1. pc = "swap" => E >= B
    BY <1>1, <1>3
  <2> QED BY <1>1, <1>2, <1>4, <2>1
<1>7. CASE StartRound
  <2>1. /\ pc = "round" /\ pc' = "swap" /\ round' = round
        /\ left' \in Nat /\ left' <= BatchMax
    BY <1>1, <1>7 DEF StartRound
  <2>2. RoundSteps = E /\ RoundSteps' = E - (BatchMax + 1 - left')
    BY <1>2, <1>4, <1>5, <2>1
  <2> HIDE DEF E, B
  <2>3. E \in Nat /\ left' \in Nat /\ BatchMax \in Nat /\ left' <= BatchMax
    BY <1>1, <1>2, <2>1
  <2>4. \A e, b, l \in Nat : l <= b => e - (b + 1 - l) < e
    OBVIOUS
  <2>5. RoundSteps' < RoundSteps
    BY <2>2, <2>3, <2>4
  <2> QED BY <1>6, <2>1, <2>5 DEF Shortens
<1>8. CASE SwapNext
  <2>1. pc = "swap" /\ pc' = "swap" /\ round' = round /\ left' = left - 1
    BY <1>8 DEF SwapNext
  <2>2. RoundSteps = E - (BatchMax + 1 - left) /\ RoundSteps' = E - (BatchMax + 1 - left')
    BY <1>4, <1>5, <2>1
  <2> HIDE DEF E
  <2> QED BY <1>1, <1>2, <1>6, <2>1, <2>2 DEF Shortens
<1>9. CASE EndRound
  <2>1. pc = "swap" /\ pc' = "round" /\ round' = round + 1 /\ left = 0
    BY <1>9 DEF EndRound
  <2>2. /\ RoundSteps = E - (BatchMax + 1)
        /\ RoundSteps' = (Rounds - (round + 1)) * B - 0
    BY <1>1, <1>4, <1>5, <2>1
  <2>3. E = (Rounds - (round + 1)) * B + B /\ (Rounds - (round + 1)) * B \in Nat
    BY <1>1, <1>3, <2>1
  <2> DEFINE L == (Rounds - (round + 1)) * B
  <2>4. RoundSteps' = L - 0 /\ E = L + B /\ L \in Nat
    BY <2>2, <2>3
  <2> HIDE DEF E, L
  <2>5. RoundSteps' < RoundSteps
    BY <1>1, <2>2, <2>4
  <2> QED BY <1>6, <2>1, <2>5 DEF Shortens
<1>10. CASE EndRounds
  <2>1. pc = "round" /\ pc' \in {"offset", "done"}
    BY <1>10 DEF EndRounds
  <2> QED BY <1>6, <2>1 DEF Shortens
<1>11. CASE OffsetNext \/ EndOffsets
  <2>1. pc = "offset" /\ todo \in [allRoutes -> Nat] /\ issued \in [allRoutes -> Nat]
    BY <1>11 DEF OffsetNext, EndOffsets, TypeInv, TypeOK
  <2>2. \A r \in allRoutes : issued[r] <= todo[r]
    BY <2>1 DEF PlanInv
  <2>3. Untried \in [allRoutes -> Nat]
    BY <2>1, <2>2 DEF Untried
  <2>4. Sum(Untried) \in Nat
    BY <2>3, RoutesFinite, SumOfNats
  <2>5. CASE EndOffsets
    BY <2>1, <2>4, <2>5 DEF EndOffsets, Shortens
  <2>6. CASE OffsetNext
    <3>1. PICK r \in allRoutes : issued' = Add(issued, r, 1)
      BY <2>6 DEF OffsetNext
    <3>2. pc' = "offset" /\ todo' = todo
      BY <2>6 DEF OffsetNext
    <3>3. /\ issued'[r] = issued[r] + 1
          /\ \A q \in allRoutes \ {r} : issued'[q] = issued[q]
      <4>1. 1 \in Nat
        OBVIOUS
      <4>2. issued' = Add(issued, r, 1) /\ issued \in [allRoutes -> Nat] /\ r \in allRoutes
        BY <2>1, <3>1
      <4> HIDE DEF E, B
      <4> QED BY <4>1, <4>2, Added
    <3>4. Untried' = [Untried EXCEPT ![r] = @ + (-1)]
      <4>1. \A q \in allRoutes : Untried[q] = todo[q] - issued[q]
        BY DEF Untried
      <4>2. Untried' = [q \in allRoutes |-> todo[q] - issued'[q]]
        BY <3>2 DEF Untried, allRoutes
      <4>3. DOMAIN Untried = allRoutes
        BY DEF Untried
      <4>4. \A q \in allRoutes :
              todo[q] - issued'[q] = Untried[q] + (IF q = r THEN -1 ELSE 0)
        BY <2>1, <3>3, <4>1
      <4>5. ASSUME NEW q \in allRoutes
            PROVE  Untried'[q] = [Untried EXCEPT ![r] = @ + (-1)][q]
        BY <2>3, <4>2, <4>3, <4>4
      <4> QED BY <4>2, <4>3, <4>5
    <3>5. Untried \in [allRoutes -> Int] /\ -1 \in Int
      BY <2>3
    <3>6. Sum([Untried EXCEPT ![r] = @ + (-1)]) = Sum(Untried) + (-1)
      BY <3>5, RoutesFinite, SumGrows
    <3>7. Sum(Untried') < Sum(Untried)
      BY <2>4, <3>4, <3>6
    <3> QED BY <2>1, <2>4, <3>2, <3>7 DEF Shortens
  <2> QED BY <1>11, <2>5, <2>6
<1> QED BY <1>7, <1>8, <1>9, <1>10, <1>11 DEF Next

\* Every step brings the end of the run nearer, failed swaps included: first that of
\* the rounds, then, with what the ledger says by then, that of the reconciliation.
THEOREM RunsAreBounded == Spec => [][Shortens]_vars
<1>1. Init => PlanInv
  BY DEF Init, PlanInv
<1>2. TypeInv => TypeOK
  BY DEF TypeInv
<1>3. TypeInv /\ PlanInv /\ [Next]_vars => [Shortens]_vars
  BY StepShortens
<1> QED BY <1>1, <1>2, <1>3, TypeInit, TypeStep, PlanStep, PTL DEF Spec

=============================================================================
