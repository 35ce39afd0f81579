------------------------------ MODULE SwapBot ------------------------------
(***************************************************************************)
(* swap-bot: rounds of random swaps over every ordered pair of assets, and *)
(* a reconciliation round that offsets what the ledger says went more one  *)
(* way than the other.                                                     *)
(*                                                                         *)
(* One transaction is one step.  The shuffled queue is the set of routes   *)
(* left in it, drawn in any order; volumes are compared as exact rationals *)
(* where the code uses float64.  Delays and printing are left out.         *)
(***************************************************************************)
EXTENDS Integers, FiniteSets, Functions

CONSTANTS
    Assets, Native,        \* the configured assets; nativeAssets
    Router, Mapping,       \* RouterContract; the mapping_contract of each asset
    NoContract,            \* the empty contract ID
    SwapRC, AllowanceRC,   \* -rc-limit, -allowance-rc-limit
    MinAmount, MaxAmount,  \* the configured range of each asset
    Rounds,                \* -n
    BatchMin, BatchMax,    \* -batch-min, -batch-max
    MinOut,                \* -min-amount-out
    NoRebalance, DryRun,   \* flags
    Outcomes,              \* what can become of a broadcast
    Quotes                 \* what the router can pay for a swap, 0 if it makes none

Mapped == Assets \ Native

\* What main and buildAssetMap require before anything is broadcast.
ValidFlags ==
    /\ Rounds \in Nat \ {0}
    /\ BatchMin \in Nat \ {0} /\ BatchMax \in Nat /\ BatchMin <= BatchMax

ValidAssets ==
    /\ IsFiniteSet(Assets)
    /\ \E a, b \in Assets : a # b
    /\ MinAmount \in [Assets -> Nat \ {0}]
    /\ MaxAmount \in [Assets -> Nat \ {0}]
    /\ \A a \in Assets : MinAmount[a] <= MaxAmount[a]
    /\ \A a \in Mapped : Mapping[a] \notin {NoContract, Router}

ASSUME SwapBotAssumption ==
    /\ ValidFlags /\ ValidAssets
    /\ Router # NoContract
    /\ SwapRC \in Nat /\ AllowanceRC \in Nat
    /\ NoRebalance \in BOOLEAN /\ DryRun \in BOOLEAN
    /\ Outcomes \subseteq {"accepted", "rejected", "unknown"}
    /\ MinOut \in Nat /\ Quotes \subseteq Nat

VARIABLES
    pc,              \* "round", "swap", "offset" or "done"
    round, left,     \* rounds finished; swaps left in this one
    queue,           \* routes not yet drawn in this cycle
    volume, counts,  \* the balancing ledger
    sent, failed,
    todo, issued,    \* offsetting swaps planned, and tried so far
    moved,           \* what really went through the pools
    refused,         \* history: what Hive accepted and the router did not make
    allowance,       \* what each mapping contract lets the router draw
    drawn            \* history: how often the rounds drew each route

ledger == <<volume, counts, sent, failed, moved, refused, allowance>>
vars == <<pc, round, left, queue, ledger, todo, issued, drawn>>

allRoutes == {r \in Assets \X Assets : r[1] # r[2]}
Reverse(r) == <<r[2], r[1]>>
None == [r \in allRoutes |-> 0]
MappingContracts == {Mapping[a] : a \in Mapped}

TypeOK ==
    /\ pc \in {"round", "swap", "offset", "done"}
    /\ round \in 0 .. Rounds /\ left \in 0 .. BatchMax
    /\ queue \subseteq allRoutes
    /\ {volume, counts, todo, issued, moved, refused, drawn} \subseteq [allRoutes -> Nat]
    /\ allowance \in [MappingContracts -> Nat]
    /\ sent \in Nat /\ failed \in Nat

Init ==
    /\ pc = "round" /\ round = 0 /\ left = 0
    /\ queue = allRoutes
    /\ volume = None /\ counts = None /\ sent = 0 /\ failed = 0
    /\ todo = None /\ issued = None
    /\ moved = None /\ refused = None /\ drawn = None
    /\ allowance = [c \in MappingContracts |-> 0]

Add(f, r, n) == [f EXCEPT ![r] = @ + n]

(***************************************************************************)
(* The contracts as doSwap meets them.  A mapping contract raises the      *)
(* spender's allowance.  The router makes a swap if what it can pay for it *)
(* reaches the floor of the order, and draws its input under an intent of  *)
(* the call (native) or under its allowance (mapped).  A swap it has no    *)
(* reserves, balance or resources for is a quote of 0.                     *)
(***************************************************************************)
Swapped(state, r, amount) == [state EXCEPT !.moved = Add(@, r, amount)]
Allowed(state, contract, amount) == [state EXCEPT !.allowance = Add(@, contract, amount)]

Makes(quote, minOut) == quote > 0 /\ quote >= minOut

Draw(state, r, amount, intents) ==
    IF r[1] \in Native
    THEN {Swapped(state, r, amount) :
            t \in {i \in intents : i.token = r[1] /\ i.limit >= amount}}
    ELSE {Allowed(Swapped(state, r, amount), c, -amount) :
            c \in {c \in {Mapping[r[1]]} : state.allowance[c] >= amount}}

ExecuteSwap(state, order, intents) ==
    IF Makes(state.quote, order.minOut)
    THEN Draw(state, order.route, order.amount, intents)
    ELSE {}

Execute(state, op) ==
    CASE op.rc > 0 /\ op.action = "execute" /\ op.contract = Router ->
            ExecuteSwap(state, op.payload, op.intents)
      [] op.rc > 0 /\ op.action = "increaseAllowance" /\ op.payload.spender = Router ->
            {Allowed(state, op.contract, op.payload.amount)}
      [] OTHER -> {}

Hive == INSTANCE CallContract WITH Apply <- Execute, HiveContract <- Router

(***************************************************************************)
(* doSwap.                                                                 *)
(***************************************************************************)
ExecuteCall(r, amount, intents) ==
    [contract |-> NoContract, action |-> "execute", rc |-> SwapRC, intents |-> intents,
     payload |-> [route |-> r, amount |-> amount, minOut |-> MinOut]]

AllowanceCall(a, amount) ==
    [contract |-> Mapping[a], action |-> "increaseAllowance", rc |-> AllowanceRC,
     intents |-> {}, payload |-> [spender |-> Router, amount |-> amount]]

\* Mutation: the swap goes ahead of its allowance.
SwapBeforeAllowance(r, amount) ==
    IF r[1] \in Native
    THEN <<ExecuteCall(r, amount, {[token |-> r[1], limit |-> amount]})>>
    ELSE <<ExecuteCall(r, amount, {}), AllowanceCall(r[1], amount)>>

Calls(r, amount) ==
    IF r[1] \in Native
    THEN <<ExecuteCall(r, amount, {[token |-> r[1], limit |-> amount]})>>
    ELSE <<AllowanceCall(r[1], amount), ExecuteCall(r, amount, {})>>

Count(r, amount) ==
    /\ sent' = sent + 1
    /\ counts' = Add(counts, r, 1)
    /\ volume' = Add(volume, r, amount)

Contracts(quote) == [moved |-> moved, allowance |-> allowance, quote |-> quote]

Send(r, amount, quote) == Hive!CallContractMulti(Contracts(quote), Calls(r, amount))

\* What becomes of the contracts, and of an order that Hive has accepted and the
\* router, for its quote, does not make.
Settle(reply, r, amount, quote) ==
    /\ moved' = reply.state.moved
    /\ allowance' = reply.state.allowance
    /\ refused' = IF reply.err \/ Makes(quote, MinOut) THEN refused ELSE Add(refused, r, amount)

\* Mutation: the error branch of doSwap without its return.
DoSwapCountingFailures(r) ==
    \E amount \in MinAmount[r[1]] .. MaxAmount[r[1]], quote \in Quotes :
        \E reply \in Send(r, amount, quote) :
            /\ Settle(reply, r, amount, quote)
            /\ failed' = IF reply.err THEN failed + 1 ELSE failed
            /\ Count(r, amount)

doSwap(r) ==
    \E amount \in MinAmount[r[1]] .. MaxAmount[r[1]] :
        \/ /\ DryRun
           /\ Count(r, amount)
           /\ UNCHANGED <<failed, moved, refused, allowance>>
        \/ /\ ~DryRun
           /\ \E quote \in Quotes : \E reply \in Send(r, amount, quote) :
                 /\ Settle(reply, r, amount, quote)
                 /\ \/ reply.err /\ failed' = failed + 1 /\ UNCHANGED <<sent, counts, volume>>
                    \/ ~reply.err /\ Count(r, amount) /\ UNCHANGED failed

-----------------------------------------------------------------------------
\* Mutation: <= for < in the round loop.
StartRoundLate ==
    /\ pc = "round"
    /\ round <= Rounds
    /\ left' \in BatchMin .. BatchMax
    /\ pc' = "swap"
    /\ UNCHANGED <<round, queue, ledger, todo, issued, drawn>>

StartRound ==
    /\ pc = "round"
    /\ round < Rounds
    /\ left' \in BatchMin .. BatchMax
    /\ pc' = "swap"
    /\ UNCHANGED <<round, queue, ledger, todo, issued, drawn>>

\* Mutation: every swap takes any route at all.
AnyRoute == allRoutes

\* The queue, refilled with every route once it is empty.
Available == IF queue = {} THEN allRoutes ELSE queue

SwapNext ==
    /\ pc = "swap"
    /\ left > 0
    /\ left' = left - 1
    /\ \E r \in Available :
          /\ queue' = Available \ {r}
          /\ drawn' = Add(drawn, r, 1)
          /\ doSwap(r)
    /\ UNCHANGED <<pc, round, todo, issued>>

EndRound ==
    /\ pc = "swap"
    /\ left = 0
    /\ round' = round + 1
    /\ pc' = "round"
    /\ UNCHANGED <<left, queue, ledger, todo, issued, drawn>>

(***************************************************************************)
(* reconcile.  A volume counts in mean-sized swaps of its asset; Mean2 is  *)
(* twice the mean, and Gap the surplus of r over its reverse in units of   *)
(* 1 / Scale(r).                                                           *)
(***************************************************************************)
Mean2(a) == MinAmount[a] + MaxAmount[a]
Scale(r) == Mean2(r[1]) * Mean2(r[2])
Gap(v, r) == 2 * (v[r] * Mean2(r[2]) - v[Reverse(r)] * Mean2(r[1]))

\* Mutation: int(gap) for int(math.Round(gap)).
OffsetsTruncated ==
    [r \in allRoutes |->
        LET gap == Gap(volume, Reverse(r)) IN IF gap > 0 THEN gap \div Scale(r) ELSE 0]

\* math.Round of the surplus of the other direction.
Offsets ==
    [r \in allRoutes |->
        LET gap == Gap(volume, Reverse(r))
        IN  IF gap > 0 THEN (2 * gap + Scale(r)) \div (2 * Scale(r)) ELSE 0]

EndRounds ==
    /\ pc = "round"
    /\ round = Rounds
    /\ pc' = IF NoRebalance THEN "done" ELSE "offset"
    /\ todo' = IF NoRebalance THEN todo ELSE Offsets
    /\ UNCHANGED <<round, left, queue, ledger, issued, drawn>>

OffsetNext ==
    /\ pc = "offset"
    /\ \E r \in allRoutes :
          /\ issued[r] < todo[r]
          /\ issued' = Add(issued, r, 1)
          /\ doSwap(r)
    /\ UNCHANGED <<pc, round, left, queue, todo, drawn>>

\* Mutation: the reconciliation ends only once the ledger is even.
EndWhenEven ==
    /\ pc = "offset"
    /\ issued = todo
    /\ Offsets = None
    /\ pc' = "done"
    /\ UNCHANGED <<round, left, queue, ledger, todo, issued, drawn>>

EndOffsets ==
    /\ pc = "offset"
    /\ issued = todo
    /\ pc' = "done"
    /\ UNCHANGED <<round, left, queue, ledger, todo, issued, drawn>>

Next == StartRound \/ SwapNext \/ EndRound \/ EndRounds \/ OffsetNext \/ EndOffsets

Spec == Init /\ [][Next]_vars

\* The bot is one goroutine, whose requests return: it takes every step it can.
FairSpec == Spec /\ WF_vars(Next)

-----------------------------------------------------------------------------
\* "Every combination is exercised evenly across the run": whatever the rounds'
\* sizes and wherever a cycle of the queue ends inside one, no route was drawn
\* twice more often than another.
EvenlyExercised == \A r, s \in allRoutes : drawn[r] - drawn[s] <= 1

\* An accepted swap was authorised, by its intent or by the allowance that goes
\* ahead of it, and only an accepted one is counted: of what the ledger says of a
\* route, all that did not go through the pools is what the router refused for its
\* quote, and nothing else went through them unless an answer was lost.  Counts and
\* volumes agree with the sizes allowed.
RoutesSound ==
    \A r \in allRoutes :
        /\ counts[r] * MinAmount[r[1]] <= volume[r]
        /\ volume[r] <= counts[r] * MaxAmount[r[1]]
        /\ ~DryRun => volume[r] <= moved[r] + refused[r]
        /\ ~DryRun /\ failed = 0 => volume[r] = moved[r] + refused[r]

\* The ledger that reconcile and the last line read, whatever became of the
\* broadcasts: sound for every route, and sent its total.
LedgerSound == RoutesSound /\ sent = FoldFunction(+, 0, counts)

\* "Ordered and atomic within one tx": whatever becomes of the broadcasts, no
\* allowance is left standing once a swap is over, so the router can never draw
\* for a swap that was not made.
AllowanceSpent == \A c \in MappingContracts : allowance[c] = 0

\* The two directions of every pair within half a mean swap of each other, give or
\* take the spread of the offsetting swaps, whose sizes are random again; with fixed
\* sizes they are even.
Evened(v) ==
    \A r \in allRoutes :
        LET spread == (MaxAmount[r[1]] - MinAmount[r[1]]) * Mean2(r[2])
        IN  todo[Reverse(r)] = 0 =>
                /\ 2 * Gap(v, r) <= Scale(r) + 2 * todo[r] * spread
                /\ -2 * Gap(v, r) <= Scale(r) + 2 * todo[r] * spread

\* A run that exits with 0 after its reconciliation has evened out the ledger, and
\* the pools with it as long as the router made every swap that Hive accepted.  One
\* that it refused is in the ledger all the same, and reconcile offsets what never
\* happened: main's comment, by which "each underlying pool ends at roughly its
\* starting reserves", holds with that condition only.
PoolsRestored ==
    pc = "done" /\ ~NoRebalance /\ failed = 0 =>
        /\ Evened(volume)
        /\ ~DryRun /\ refused = None => Evened(moved)

\* The run ends although swaps fail: an offsetting swap is tried once.
Terminates == <>(pc = "done")

=============================================================================
