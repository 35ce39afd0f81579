# Verification of btc-scripts

TLA+ models of the programs under `src/go`, the TLC runs that check them and the
theorems TLAPS proves about them. The program that runs unattended, and whose
mistakes accumulate, is `lite-btc-oracle`; it comes first here. The others are
command-line tools that make one pass and exit.

## Inventory

| Component | State it keeps | Operations | What is hard | What makes it correct |
|---|---|---|---|---|
| `lite-btc-oracle` main loop | local height, batch of headers, count, loop counter; `last_height` file | fetch a hash and a header, append, advance the height, `endCycle` (send, clear, save), `gracefulShutdown`, `-seed`, `-init` | runs beside HTTP handlers; crashes between steps; requests and calls fail, calls perhaps after delivery; file written in two steps | headers reach the contract at most once, in order and in bounded batches; a restart goes on where the last process ended; every block is relayed in the end |
| `lite-btc-oracle` control server | `OracleControl`: mutex, `running`, `blockHeight`, `wake` | `/stop`, `/start`, `/set-height`, `/status` | any interleaving with the loop; a wake token left over; `SetHeight` does file I/O under the mutex while `endCycle` writes the same file without it | a stop holds, a start is never lost, a posted height is used |
| `swap-bot` | queue of routes, ledger of volumes and counts, plan of offsets | rounds of swaps, each one or two contract calls; reconciliation | random sizes, failing swaps, lost answers, swaps refused by the router after Hive has accepted them, rounding; a mapped asset needs an allowance before its swap | even use of the routes, a ledger that overstates nothing it could know of, no allowance left over, pools restored on a clean exit |
| `sign-customjson` operations mode | transaction in flight, serialized form, endpoints | serialize at the nodes, sign on a device, write out, broadcast with fallback | endpoints that fail or differ, expiry, repeated broadcast | what is signed is what was built and all endpoints agree on |
| `sign-customjson` custom_json mode | transaction in flight | TaPoS, external or local signing, broadcast | expiry, signer failure | as above |
| `spend`, `packages/transactions`, `packages/createaddress` | none between runs | address with a backup branch, spend and backup spend, witness | fee, change and dust arithmetic; integer widths; CSV | value is conserved, the chosen branch is the one the script takes |
| `replace-blocks` | headers collected | fetch a range, call `replaceBlocks` | reorganisation while fetching; the oracle adds headers meanwhile; lost answer | the payload is the chain's below the fork; the contract is repaired or as it was |
| `packages/callcontract` | none | sign and broadcast one or several calls | failure after acceptance | one transaction, all calls or none |
| `packages/inputconfig` | config file, shared by all programs of one directory | load or scaffold, save | looked for, then created; truncated, then written; crashes between | a user's settings are never overwritten unasked |
| `sign-load-test` | counter, loop index | n calls, one after the other | a call fails or its answer is lost; the counter outgrows 32 bytes | the counters signed are the first n, in order, once each |
| `packages/mempool` | none | one request each | status and body | as its callers |
| `sign-msg`, key and address tools, JS and shell scripts | none | one computation or request | - | - |

The programs share no memory and talk to each other only through the networks
they serve: `lite-btc-oracle`, `swap-bot` and the calling tools use
`callcontract`; all read their settings through `inputconfig`.

## Modules

| Module | What it is |
|---|---|
| `OracleControl` | The shared state of `lite-btc-oracle` and its methods, and the state file with its two-step writes (`main.go` 132-180, 254-276). |
| `LiteBtcOracle` | The program: main loop, `endCycle`, `gracefulShutdown`, `-seed`, `-init`, boots and crashes, the HTTP handlers, the growing chain, and the headers the contract has received (`main.go` 37-128, 182-252, 278-439). Extends `OracleControl`. |
| `HeaderRelay` | Abstract specification: what the relay contract may count on - runs of headers above all it has, each handed over whole or lost. |
| `LiteBtcOracleProofs` | The inductive invariant and the theorems about `LiteBtcOracle`. |
| `MCLiteBtcOracle` | Constants of its TLC instances. |
| `CallContract` | `packages/callcontract`: one or several contract calls in one Hive transaction, their defaults, and every result a broadcast can have. Parameterised by what the contracts do with a call (`Apply`) and instanced by the three modules of its callers. |
| `CallContractProofs` | What its operators come to for transactions of one and of two calls, for any contracts; the proofs of its callers instance it. |
| `SwapBot` | Validation, rounds, queue, calls, ledger and reconciliation of `swap-bot` (`main.go` 117-460). Instantiates `CallContract` with a router and mapping contracts. |
| `FoldLemmas` | Induction over the natural numbers, from the well-foundedness of their order, and what it gives for the sum of a function's values. Extended by the proofs of `SwapBot` and `BackupSpend`. |
| `SwapBotProofs` | Theorems about types, routes, allowances, the ledger and the reconciliation. |
| `MCSwapBot` | Constants of its TLC instance. |
| `ReplaceBlocks` | `replace-blocks` with its two requests per height, beside a chain that grows and reorganises, the relay contract and an oracle. Instantiates `CallContract`. |
| `ReplaceBlocksProofs` | The inductive invariants and the theorems about its safety properties. |
| `MCReplaceBlocks` | Constants of its TLC instance. |
| `InputConfig` | The file operations of `packages/inputconfig`. |
| `SignLoadTest` | `sign-load-test` and `lite-btc-oracle -init` over one configuration file. Extends `InputConfig`, instantiates `CallContract`. |
| `SignLoadTestProofs` | Theorems about types, counters and settings. |
| `MCSignLoadTest` | Constants of its TLC instance. |
| `WitnessScript` | The two P2WSH scripts of `packages/createaddress` as lists of opcodes, their execution, and Bitcoin's relative locks and transaction validity, which are external. |
| `BackupSpend` | One output of such an address: `spend` with the transaction and witness builders of `packages/transactions`, the owner of the primary key, other users of the backup key, the network. Instantiates `WitnessScript`. |
| `BackupSpendProofs` | What the two scripts ask of any witness, and the theorems about amounts, types, the delay and both owners. |
| `MCBackupSpend` | Constants of its TLC instances. |
| `SignTransaction` | One run of `sign-customjson`, in both modes, with its endpoints, its signer and the chain's clock (`main.go`, `operations.go`). |
| `SignTransactionProofs` | The inductive invariants and the theorems about it. |
| `MCSignTransaction` | Constants of its TLC instances. |

### How LiteBtcOracle corresponds to the code

`pc` is the next statement of `main`. A step ends at each lock, channel
operation, HTTP request and file operation; between two of those nothing else can
observe or disturb the loop, so the rest is part of the step. One iteration is
`check` (loop condition and `IsRunning`), `read` (`GetHeight`), `hash`, `header`
(the two requests and the append), `advance`, `advanceWrite` (`SetHeight`, then
the count), and where a cycle ends `call`, `saveOpen`, `saveWrite`; `blocked` is
the receive on `wake`; `exitOpen`, `exitWrite` are `gracefulShutdown`;
`seedOpen`, `seedWrite` the end of `-seed` and `-init`; `off`, `failed` and
`done` say that no process is up, and why.

- `mu` names the holder of the mutex. Critical sections without I/O are one step
  guarded by `mu = Free`; `SetHeight` holds it over two.
- `os.WriteFile` is `OpenFile`, which empties the file, then `WriteFile`, which
  writes at its start. Where another writer filled the file in between, the
  shorter numeral lands on the front of the longer one: `Overwrite`. It is a
  constant of the modules (any function on heights, so that theorems hold for
  every radix) and decimal in the instances.
- A header is known by its height. `relayed` is what the contract received
  through `addBlocks` and `seedBlocks`.
- `strayed` is a history variable. It becomes true when something other than the
  loop's own bookkeeping has decided where the oracle resumes: a posted height,
  `-seed` or `-init` on an installation that has relayed, a state file lost
  while the contract has headers, a seed that was delivered but not recorded, a
  write that failed. Ordinary crashes, failed fetches and calls, shutdowns, stops
  and restarts do not set it; the properties that need it say `~strayed`.
- `overrun` is a history variable: headers taken since the last effective stop.
- `i` counts the iterations left of `-hard-stop-after-blocks`, or is `NoLimit`;
  each `Boot` takes one of `Limits`, since every process has flags of its own.

### How SwapBot and CallContract correspond to the code

A contract call is a record of contract, action, payload, intents and limit.
`Calls` builds what `doSwap` builds: `execute` under a transfer intent for a
native asset, `increaseAllowance` and then `execute` for a mapped one.
`CallContractMulti` fills in the defaults and broadcasts the calls together;
`Apply` runs them in order on the state of the contracts, all or none. A
broadcast is accepted, rejected, or accepted with its answer lost. A transaction
that Hive accepts and whose calls the contracts refuse changes nothing and is
reported as accepted, which is what the bot would see.

The contracts are external. The router makes a swap if what it can pay for it, the
`quote`, reaches the floor of the order (`MinOut`, the `-min-amount-out` that `doSwap` sends), and
then draws the input under an intent for at least the amount, or under its
allowance with the asset's mapping contract. The quote may be any of `Quotes` at each
swap; 0 stands for whatever else keeps the router from a swap: its reserves, the
user's balance, resources. `doSwap` looks at Hive's answer only, so it counts a swap
that is refused like one that is made. `moved` is what really went through the
pools, and the history variable `refused` what Hive accepted and the router did not
make (`Settle`); the bot sees neither. With an `-allowance-rc-limit` or `-rc-limit` of 0 the default of 1000
applies, and a call without gas would be refused.

### How ReplaceBlocks corresponds to the code

A block is the sequence of the branches that its ancestors and itself were mined
on, so its height, its parent and its identity are all in its value; a
reorganisation replaces an end of the chain with a longer one of a new branch.
`pc` is `config`, `hash`, `header` or `call`; a step ends at each request. The
two requests are by height and by hash, so a header may be of a block that is no
longer on the chain. A height is cut by `uint32(h)` before it is asked for.
`replaceBlocks` is what the comment at `main.go` 76-78 says of it: the number of
headers in the payload replaces as many at the contract's end. A contract that
checks links and one that does not are both covered: what does not link may be
refused.

`fork` and `before` are history variables: the lowest height reorganised during
the run, and what the contract held at the start of a run whose arguments fit it,
until the oracle or a reorganisation below `-end` changes the ground under it.
After such a refusal the oracle goes on adding above, as its code does.

### How SignLoadTest and InputConfig correspond to the code

A process is one run of `sign-load-test`, or of `lite-btc-oracle -init`, which
calls `LoadConfig` too, ignores its error and goes on to `SaveConfig`. `stat`,
`open`, `write` and `read` are the file operations of `LoadConfig`, `saveOpen`
and `saveWrite` those of the second `SaveConfig`; any other process may come
between two of them, and a process may die at each. A file is the set of settings
filled in and whether it is valid JSON; two writers that overlap may leave the
end of the longer document behind the shorter. A blank file parses and has no key,
so the first call fails before the broadcast. A contract ID of the wrong form or a negative
`-start` is found out after the file (`ArgumentsFail`). `signed` is what the contract was
given by the latest run of each process. The user fills in the file while no
program is about to write it: an editor racing a program that he started himself is
not something the code could guard against.

### How BackupSpend corresponds to the code

`Init` chooses a configuration, amounts and a deposit; the configuration fixes
the script. `pc` is `idle`, `gettx`, `build` or `post`: the parts of `main`
between two requests. Everything that happens from the amounts to the witness is
one step, because nothing else can observe it. A signature is a record of the key
and of what it signs, so a witness signed for another sequence or another amount
is not valid; hashes, encodings and address formats are left out. `age` is the
number of blocks since the output was mined. `PrimarySpends` and
`BackupElsewhere` are people with the keys and other software: they may use any
version, sequence and witness, and the network accepts what the script and BIP 68
and 112 accept, once.

### How SignTransaction corresponds to the code

`pc` is the next call of `main` or `runOperations`; a step ends at every request,
at the signer and at the file. Byte strings are values: `Right` is the
serialization of the transaction that was built and is later offered, which a node
computes itself before it accepts. `answer` is a history variable (the code keeps
only `agreed`). The signer's result is a signature over the bytes it was
given; that it has 65 bytes is checked by the code, and a signer that returns some
other signature shows as endpoints that refuse. An endpoint may give wrong bytes,
but one that says it accepted a transaction did.

## Runs

| Run | Question | Instance |
|---|---|---|
| `oracle_faults` | Over crashes, failed requests, calls and writes, block limits, and an operator who stops, starts, moves and seeds the oracle: is a wake-up lost, does a stop hold, are batches bounded, headers relayed at most once and in order, and is `HeaderRelay` implemented? (`TypeOK`, `NoLostWakeup`, `StopTakesEffect`, `BatchBounded`, `BatchIsNew`, `CleanStopResumes`, `RelaysInOrder`) | tip 8-10, limit of 2 iterations or none, batches of 2, heights 7, 10, 12 posted |
| `oracle_liveness` | Without failures: is a height ever left out, is every block relayed in the end, and no batch kept back? (`GapFree`, `EveryBlockRelayed`, `BatchFlushed`) | tip 8-11, limit of 3 or none, stops, starts, seeds, `-init` |
| `oracle_posted` | violation: a posted height is overwritten (`PostedHeightKept`) | |
| `oracle_shutdown` | violation: a shutdown makes the next process skip a block (`ResumesWhereItLeft`) | |
| `swap_pair` | With random sizes, rejected swaps, lost answers and swaps that the router refuses: does the ledger overstate what was accepted and authorised, is every allowance used up, does a clean exit leave the ledger even, and the pools if nothing was refused? Are the routes used evenly? (`TypeOK`, `LedgerSound`, `AllowanceSpent`, `EvenlyExercised`, `PoolsRestored`, `Terminates`) | a native and a mapped asset with means 2 and 3, 2 rounds of 1-2, a floor of 2, quotes 1 and 2 |
| `backup_spend` | Does the delay protect the owner of the primary key, can the backup be spent after it, and do the amounts add up? (`TypeOK`, `BackupWaits`, `PrimaryFree`, `BackupGoesThrough`, `FeeOnTopPaid`, `DepositSpendable`) | delays -1, 2, 5; amounts 2, 7, 11; fees 1, 3; dust limit 2 |
| `backup_deduct` | violation: a deducted fee goes to the change (`DeductedFeeLeaves`) | |
| `backup_primary` | violation: no primary path without an instruction (`PrimaryPathExists`) | |
| `sign_runs` | Is one serialization signed, is what is sent saved first, does success mean accepted, does every run end? (`TypeOK`, `SignedAgreed`, `SentIsSaved`, `SuccessMeansApplied`, `Ends`) | up to 3 endpoints; answers right, other, signed, empty or none |
| `sign_agreement` | violation: an endpoint that fails is not needed for agreement (`AllEndpointsAgree`) | |
| `load_test` | Which counters did a load test have signed, after failures and lost answers? Does anything but `-init` cost the user his settings? Does every program end? (`TypeOK`, `CountersInOrder`, `SettingsKept`, `Ends`) | a load test of up to 3 calls, one that only scaffolds, an oracle `-init`; 2 is the largest counter |
| `replace_blocks` | What can a series of requests over a moving chain return, and what does a run leave in the contract? (`TypeOK`, `PayloadBelowFork`, `NeverGoesBack`, `RepairTakes`, `RepairOrNothing`, `RunEnds`) | chain of 2-4 blocks, 2 reorganisations, `-start` and `-end` in -1, 2, 3, 4, 10 with "2^32" = 8 |

Bounds. Heights run from 0 to 12: 9 and 10 have numerals of different length,
which is what a torn write needs; 12 is the largest "uint32", so `height + 1`
wraps from a height the operator can post. The tip grows by two or three blocks
from the default height: with batches of two that gives a full batch, a partial
batch and an empty cycle, and with a limit of two or three iterations a pending
batch at the limit and several processes one after the other. `MaxTip < MaxU32`:
the chain does not reach the end of uint32. Batches of two distinguish `>` from
`>=` and show gaps and repetitions inside a batch. In
`oracle_faults` the constraint `AstrayBound` stops following an oracle that is
astray once the contract has more than one header: what is promised of it
(wake-ups, stops, the batch bound) does not depend on the headers relayed before.
The swap instance gives gaps of
whole, half and other fractions of a mean swap and up to two cycles of the queue, one
of which may end inside a round; a quote below the floor and one at it are all that the
router's decision tells apart; for more assets there is the theorem `Even`. The
spending instances count relative locks modulo 4 and numbers modulo 16 instead of
2^16 and 2^32: a delay of 2 fits a lock, one of 5 does not and wraps to 1, -1 sets
the disable flag; ages up to 4 pass every delay; amounts and fees put the change
below, at and above the dust limit. Three endpoints are the fewest at which one
can fail between one that answers and one that differs. Two reorganisations are
the fewest with which a payload could go back to an abandoned branch; arguments of
10 are cut to 2, a height that exists, and 2 to 4 give ranges of one to three
headers that fit the contract, end below it or above the tip. Three calls with
counters up to 2 make runs that end, fail in between, and outgrow the counter; a
process that only scaffolds and one that also saves are enough to meet at every
file operation.

Deadlock checking is off because the programs end, and because an oracle nobody
starts again, or that is stopped, waits for its operator.

Fairness. `FairSpec` assumes strong fairness of main's steps together and weak
fairness of a handler inside `SetHeight`. main waits for the mutex, which
`sync.Mutex` hands to a waiter even against a stream of other lockers, and for
`wake`, whose token stays until taken; its requests return. Nothing makes anyone
start a process (no restart policy is in the compose files), post commands, or
find blocks; `EveryBlockRelayed` assumes that `running` is true from some time
on. For `swap-bot`, weak fairness of its one goroutine. For `sign-customjson`, weak
fairness of the tool's own steps, since its requests have a timeout of 30 seconds
(`operations.go` 350); nothing is assumed of the signer, who waits for a person, nor of
the clock, so `Ends` leads to the signer or to an exit. For `replace-blocks` and each
process of `sign-load-test`, weak fairness of its one goroutine; its HTTP client has no
timeout, so that its requests return is an assumption about the network. The chain, the
oracle, the user and crashes are under no fairness.

## Findings

- `PostedHeightKept` (`main.go:427` against the answer at `main.go:216`): a
  height posted while the loop is between `GetHeight` and `SetHeight` - two HTTP
  requests - is overwritten with the successor of the height being fetched,
  although the operator was told "height set to".
- `ResumesWhereItLeft` (`main.go:279` against 246 and 392): `gracefulShutdown`
  saves the height to fetch next, while boot adds one to what it reads and
  `endCycle` saves the last height done. After a failed request the block at
  which it failed is skipped.
- `DeductedFeeLeaves` (`spend/main.go:119`): in deduct mode the receiver gets
  `send_amount - fee`, the builder is told a fee of 0, and so puts the fee in the
  change: the miner gets nothing whenever there is a change output.
- `PrimaryPathExists` (`create_address.go:109`): with an empty instruction the
  primary path of an address with a backup ends on an empty item and can never be
  spent. `CreateP2WSHAddress` has a branch for this, its sibling has not.
- `AllEndpointsAgree` (`operations.go:255` against the comment at 243): an endpoint
  that fails is skipped with a warning, so a single answer may be signed.
  What does hold is `SignedAgreed`.

`swap-bot` promises more than it can know: by its comment (`main.go` 21-24) every
pool "ends at roughly its starting reserves", but a swap enters the ledger when Hive has
accepted its transaction (341-348). One that the router then refuses, by the floor
that `doSwap` itself sends or for another reason, is offset although it was never
made, or keeps a real surplus from being offset, and the run exits with 0. `swap_pair`
has such runs, and TLC finds uneven pools at once when `refused = None` is left out of
`PoolsRestored`; one round of two accepted swaps, of which one is refused, is enough. What does hold is stated by `LedgerSound`
and `PoolsRestored`: ledger and pools differ by what the router refused, never by a swap
that the bot failed to authorise.

The state between `SetHeight` and `endCycle` has the same offset: a crash with
headers collected resumes one above them, so the batch and the block after it
are not relayed. That is a loss the model has (`HeaderRelay` lets a batch start
higher than the last one ended) and not a promise of any document.

## Theorems

### LiteBtcOracleProofs

For every uint32 width, default height, batch size
(zero and negative included), set of block limits, tip, set of faults and set of operator
commands, from the assumptions `ControlAssumption` and `OracleAssumption` on the
constants, which TLC evaluates in every oracle run.

| Theorem | States |
|---|---|
| `TypeCorrect` | `Spec => []TypeOK` |
| `WakeupKept` | `Spec => []NoLostWakeup` |
| `StopHolds` | `Spec => []StopTakesEffect` |
| `BatchKeptBounded` | `Spec => []BatchBounded` |
| `BatchesNew` | `Spec => []BatchIsNew` |
| `CleanStop` | `Spec => []CleanStopResumes` |
| `ImplementsHeaderRelay` | `Spec => RelaysInOrder`, the refinement of `HeaderRelay` |
| `NoGaps` | `Faults = {}` implies `Spec => []GapFree` |

The invariant is built in layers. `TypeOK` is not inductive alone: a handler
writes `post`, which is a height only because the handler holds the mutex
(`MutexOK`). `StopInv` says that past the read of the flag only the iteration
under way remains. `LedgerInv` ties `blocksInTx` and the length of the batch to
`pc`. `PositionInv` is the core: while not astray, main's height is the shared
one (`OwnPosition`); the batch is the run of heights ending below it, and the
contract has nothing from where the batch starts (`RunBelow`); what the file
says is never below a header the contract has, at any point where a crash can
make it the start of a new process (`FileAbove`); and with nothing collected it
resumes exactly where the loop is (`FileResumes`). `FileAbove` is what makes
`BatchIsNew` survive restarts: it is why a crash loses headers rather than
repeating them. `GapInv` adds, for a world without faults, that the height below
main's is the last one taken.

### BackupSpendProofs

For every amount, fee, dust limit and delay, from `SpendAssumption` and
`ScriptAssumption`: a relative lock is narrower than a word, and a word has a
highest bit (`U32` is even), which is what switches a lock off.

| Theorem | States |
|---|---|
| `BackupScriptMeans` | the script with a backup path is satisfied by a witness, of whatever length, exactly if it has three items, the second chooses the path, the first is that path's signature, and the tag is not empty (primary) or the lock holds (backup) |
| `DepositScriptMeans` | the script of `create-address`, with an instruction or without, exactly if it has two items, the first the key's signature |
| `OnlyTheOwners` | whatever transaction may spend such an output: the primary key signed it, or the backup key did and the delay is over |
| `DelayKept` | `Spec => []BackupWaits` |
| `PrimaryAlwaysFree` | `Spec => []PrimaryFree` |
| `ToolGoesThrough` | `Spec => []BackupGoesThrough` |
| `DepositsSpendable` | `Spec => []DepositSpendable` |
| `FeePaid` | `Spec => []FeeOnTopPaid`, for every amount, fee and dust limit |
| `TypeCorrect` | `Spec => []TypeOK` |
| `DelayHolds` | whatever passes the script's lock and may be mined finds the output as old as the delay |
| `ToolKeepsDelay` | the tool's version and sequence pass the lock and mature exactly with the delay |

`Satisfies` folds `Execute` over the script. `Stepwise` turns the fold into the
sequence of states it goes through: the function that the fold is defined by exists for
every script (`RunExists`, by induction over the size of the index sets), and at
`1 .. n` it is one opcode further than at `1 .. n - 1`. One lemma per
opcode then says what it does to a state (`IfStep` to `CheckSigVerifyStep`), what it
does in a part that is skipped (`SkipStep`) and with too few operands
(`ShortStep`), and that what failed stays failed (`StaysFailed`). From these follow
the end of either path from any stack (`PrimaryPath`, `BackupPath`) and that a
short stack ends badly (`TooShort`); `BackupScriptMeans` puts the witness in the
place of the stack.

`DelayKept` then is `OnlyTheOwners` at each of the actions that spend. Its invariant is
`BackupWaits` with `Posted`: what waits in `post` is the transaction of the
configuration still in hand, with the witness of the backup path. Without `Posted`
a step of `PostTx` could put any transaction on the chain.

### SignTransactionProofs

| Theorem | States |
|---|---|
| `TypeCorrect` | `Spec => []TypeOK` |
| `OneSerialization` | `Spec => []SignedAgreed` |
| `SavedFirst` | `Spec => []SentIsSaved` |
| `SuccessIsTrue` | `Spec => []SuccessMeansApplied` |
| `RunsAreBounded` | every step of the tool or the signer lowers `Remaining`, a natural number, and nothing else changes it |

For any number of endpoints and any set of byte strings (`SignAssumption`).
`SignInv` is the loop invariant of `serializeTxViaNode`: of the endpoints behind the
index none gave other bytes than `agreed`; after the loop that is all of them, and
neither `agreed` nor an answer changes any more. `SentInv` adds that nothing is
accepted before `emitSigned` has returned.

### CallContractProofs

What is broadcast is applied by a recursive function over the calls. No program sends more than two calls, and
for one and for two, refused or not, the function is unfolded (`OneCall`, `TwoCalls`): a witness
for its equation first, then the equation itself. `Results` says that a broadcast
changes nothing or applies the transaction, and without an error has applied it;
`OneOp` and `TwoOps` fill in the defaults. They hold for any `Apply` and are instanced
with the contracts of each caller.

### SwapBotProofs

| Theorem | States |
|---|---|
| `TypeCorrect` | `Spec => []TypeOK` |
| `Even` | `Spec => []EvenlyExercised` |
| `NoAllowanceLeft` | `Spec => []AllowanceSpent` |
| `LedgerAlwaysSound` | `Spec => []LedgerSound` |
| `PoolsAlwaysRestored` | `Spec => []PoolsRestored` |
| `RunsAreBounded` | every step lowers `RoundSteps` or ends the rounds, then lowers the sum of `Untried` or ends the run |

For any assets, sizes, limits, rounds, outcomes, floor and quotes (`SwapBotAssumption`; the assets are
finitely many, as the configuration is a list). `EvenInv`:
after k full cycles of the queue a route was drawn k times while it waits in the
queue, and k + 1 times once it has left it; a refill turns k + 1 into k. The others
rest on `CallsApplied`: both forms of `Calls` have one effect on the contracts, namely
that the swap went through the pools, with the allowance as it was before, or, at a
quote the router does not accept, none (`Outcome`). That is where the order of the two calls, the defaults of the limits, the spender and
the intent's limit are needed. `SwapEffects` puts `doSwap` around it. `TypeInv` adds to
`TypeOK` that a round under way is one of `Rounds`, without which the count of
rounds could pass its bound.

`LedgerAlwaysSound` says of each route (`RoutesAlwaysSound`) that its volume is at
most `moved + refused`, and equal to it while `failed` is 0. Without `refused` it
would be false: the code counts what Hive accepts. With it, it says that a counted
swap was fully authorised, since for lack of an allowance or an intent the router would have
refused it at any quote. It needs besides that what was sent in all is the sum of what each
route counts (`TotalAlways`). The sum is a fold; `SentIsTotal` says what
it becomes when one route's count changes, by induction over finite sets (`FoldLemmas`).

`PoolsAlwaysRestored` is about the end of the reconciliation, and its invariant is
about the way there. `PoolsInv`: there are volumes `v`, those at its
beginning, such that `todo` is what the bot planned for `v` (`Planned`), a route has
had no more swaps than it was to have, and each of them added between `Min` and `Max` to
what `v` says (`PoolsStep`). At the end `issued = todo`, and what remains is arithmetic: the plan makes up
for the surplus of one direction to within a swap (`SurplusAfter`, `PairRestored`), or there
is no surplus and no plan. That is the ledger (`LedgerEvened`). With `refused` empty the
pools have moved by what the ledger says (`NothingRefused`, from `RoutesSound`), so
they are even too.

### ReplaceBlocksProofs

| Theorem | States |
|---|---|
| `TypeCorrect` | `Spec => []TypeOK` |
| `PayloadCorrect` | `Spec => []PayloadBelowFork` |
| `NoGoingBack` | `Spec => []NeverGoesBack` |
| `RepairIsTrue` | `Spec => []RepairTakes` |
| `NoHalfRepair` | `Spec => []RepairOrNothing` |
| `RunsAreBounded` | every step of the program lowers `Remaining`, and no step of the others changes it |

For any width of a height, any arguments, any number of blocks and
reorganisations, at any moment of a run (`ReplaceBlocksAssumption`). `TypeInv` holds
`LoopInv`, which ties the number of headers to `h`. `FetchedInv` is
`PayloadBelowFork` with the hash between its two requests: it needs that the chain
never gets shorter, so that a height fetched stays one. `BranchInv` is about blocks that
were on the chain and may no longer be (`Once`): such a block still is, or
everything from its height on is of newer branches. That is what makes the block
fetched next either its child or of a newer branch. `RepairInv` follows a run whose
arguments fit: until the call the contract is as it was, and `RepairedByPayload`
shows that the payload, put in the place of as many headers, gives the chain up to
`-end`, which links and is not refused.

### SignLoadTestProofs

| Theorem | States |
|---|---|
| `TypeCorrect` | `Spec => []TypeOK` |
| `InOrderAlways` | `Spec => []CountersInOrder` |
| `NoSettingLost` | `Spec => SettingsKept` |
| `RunsAreBounded` | every step of a program lowers its `Remaining`, and no step of another program or the user changes it |

For any number of programs, calls and counters (`SignLoadTestAssumption`,
`InputConfigAssumption`). `CountersInOrder` is inductive together with `TypeOK`. For
`NoSettingLost`, `FileInv` says that while there is no file, or a program that found
none has yet to write, the file has no settings and no program has read any: what
such a program writes over is as blank as what it writes, even where a `-init`
comes in between with what it read.

### FoldLemmas

Facts about `FoldFunction`, `FoldSet` and induction over finite sets and the naturals that the
proofs above share. The prover takes no operator as a parameter, so the induction is
stated for a set: what contains 0 and with every number its successor contains all of them
(`Induction`).

### Only model-checked

Liveness: `EveryBlockRelayed`, `BatchFlushed`, `Terminates`, `Ends` and `RunEnds`. Of
the last three, half is proved: `RunsAreBounded` gives each program a natural number that
its steps lower and its surroundings leave alone, so no run has more steps
than that, whatever happens around it. That a step is possible until the
end, which is what fairness needs, is `ENABLED`, and the prover does not have it. Every other
property that a passing run checks is stated by one of the theorems.

## Not modelled

In the oracle: header contents and whether headers connect (`ReplaceBlocks` has
that for the same two requests), the fixed fee in `addBlocks`, the sleep between cycles, `GET /status` and `-create-key` (no state), malformed HTTP
requests (answered without effect), two oracle processes at once, `-init` or
`-seed` beside a running oracle. In `swap-bot`: delays, message texts, float64
rounding (volumes are compared as exact rationals), int64 overflow of volumes, how the
router's quotes follow from its reserves (any of `Quotes` at any time), and a
`-min-amount-out` that is not a number. In `replace-blocks`: contract IDs of a wrong
form; the contract's own checks of proof of work and its other refusals, so that
`RepairTakes` takes a call that Hive accepted, with headers that link, for applied. In
`sign-load-test`: `-action` and the payload's format; the contract signs what it is given, so
`signed` means given to the contract by an accepted transaction. `scaffoldConfig` of `swap-bot`, which is
`LoadConfig` over a template. In `spend`: locks in
units of time (the tool never makes them), signature and hash algorithms, the
primary path of the spending example. In `sign-customjson`: the texts it prints, the
JSON layout, the reference block of another fork, and a `-api` of commas only (no
endpoint is left to read the chain head from). The remaining
components are listed with reasons in `PROJECT.json`.

## Plan

1. Done: `OracleControl`, `LiteBtcOracle`, `HeaderRelay`, their runs and proofs;
   `SwapBot` and its runs; `WitnessScript`, `BackupSpend` and `SignTransaction`,
   their runs and proofs; `CallContract` with the three programs that instance it,
   `ReplaceBlocks`, `InputConfig` and `SignLoadTest`.
2. Done: the theorems about all of these modules listed above.
3. Still worth having: `Results` of `CallContractProofs` for any number of calls, and
   how many cycles of `lite-btc-oracle` a block waits at most while no request fails.
