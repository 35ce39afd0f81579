--------------------------- MODULE ReplaceBlocks ---------------------------
(***************************************************************************)
(* replace-blocks: fetches the headers of the heights start .. end and has *)
(* the relay contract put them in the place of its last ones, after the    *)
(* Bitcoin chain was reorganised.  It runs beside the Bitcoin network,     *)
(* which goes on growing and reorganising, and lite-btc-oracle, which goes *)
(* on adding headers.                                                      *)
(*                                                                         *)
(* A block is the sequence of the branches its ancestors and itself were   *)
(* mined on: its length is its height, its front its parent, and no two    *)
(* blocks are equal.  A hash or a header stands for its block.             *)
(*                                                                         *)
(* Simplifications: inputconfig.LoadConfig is one step (InputConfig has    *)
(* its parts); -action keeps its default and -contractID is well-formed;   *)
(* the oracle sends headers one at a time (LiteBtcOracle has its batches). *)
(***************************************************************************)
EXTENDS Integers, SequencesExt

CONSTANTS
    Modulus,    \* 2^32, which uint32(h) cuts a height to
    MaxHeight,  \* bound: the chain grows no higher
    MaxForks,   \* bound: reorganisations
    Arguments,  \* bound: values of -start and -end
    Outcomes,   \* what can become of a broadcast
    Contract,   \* -contractID
    NoContract,
    NoBlock     \* the oracle is not holding a header

ASSUME ReplaceBlocksAssumption ==
    /\ MaxHeight \in Nat /\ 2 <= MaxHeight /\ MaxHeight < Modulus /\ Modulus \in Nat
    /\ MaxForks \in Nat
    /\ Arguments \subseteq Int
    /\ Contract # NoContract
    /\ NoBlock \notin Seq(Nat)
    /\ Outcomes \subseteq {"accepted", "rejected", "unknown"}

VARIABLES
    tip, forks,   \* the chain's last block; reorganisations so far
    held,         \* the headers the contract has, from height 1 on
    pending,      \* a header the oracle fetched and has not sent yet
    file,         \* scriptInputs.json
    pc,           \* the next statement of main, or how it ended
    start, end,   \* -start, -end
    h, hash, headers,
    fork,         \* history: lowest height reorganised since the run began
    before        \* history: what the contract had then, as long as only the
                  \* run itself can have changed it (see Fits)

bitcoin == <<tip, forks>>
locals == <<h, hash, headers>>
run == <<start, end, locals>>
history == <<fork, before>>
vars == <<bitcoin, held, pending, file, pc, run, history>>

Over == {"off", "done", "failed"}

BlockAt(n) == SubSeq(tip, 1, n)
ChainTo(n) == [k \in 1 .. n |-> BlockAt(k)]

TypeOK ==
    /\ tip \in Seq(0 .. MaxForks) /\ forks \in 0 .. MaxForks
    /\ held \in Seq(Seq(0 .. MaxForks))
    /\ pending \in Seq(0 .. MaxForks) \cup {NoBlock}
    /\ file \in {"absent", "blank", "filled", "broken"}
    /\ pc \in Over \cup {"config", "hash", "header", "call"}
    /\ {start, end, h} \subseteq Int
    /\ headers \in Seq(Seq(0 .. MaxForks))
    /\ headers # <<>> => Len(headers) <= end - start + 1
    /\ fork \in 1 .. MaxHeight + 1
    /\ before \in Seq(Seq(0 .. MaxForks))

Init ==
    /\ tip = <<0, 0>> /\ forks = 0
    /\ held = ChainTo(2) /\ pending = NoBlock
    /\ file \in {"absent", "blank", "filled", "broken"}
    /\ pc = "off" /\ start = 0 /\ end = 0 /\ h = 0 /\ hash = <<>> /\ headers = <<>>
    /\ fork = MaxHeight + 1 /\ before = <<>>

(***************************************************************************)
(* The relay contract, as main's comment has it: N is the number of        *)
(* headers in the payload, and they replace the last N.  Headers that do   *)
(* not link to those below may be refused.                                 *)
(***************************************************************************)
Linked(s) == \A n \in 2 .. Len(s) : s[n] # <<>> /\ Front(s[n]) = s[n - 1]

Put(old, new) == IF Linked(new) THEN {new} ELSE {new, old}

Execute(state, op) ==
    LET kept == Len(state) - Len(op.payload)
    IN  IF op.action = "replaceBlocks" /\ op.contract = Contract /\ kept >= 1
        THEN Put(state, SubSeq(state, 1, kept) \o op.payload)
        ELSE {}

Vsc == INSTANCE CallContract WITH Apply <- Execute, HiveContract <- Contract

(***************************************************************************)
(* main.                                                                   *)
(***************************************************************************)
Goes(from, to) ==
    /\ pc = from
    /\ pc' = to
    /\ UNCHANGED <<bitcoin, held, pending, file, run, history>>

Exit(from, how) ==
    /\ pc = from
    /\ pc' = how
    /\ h' = 0 /\ hash' = <<>> /\ headers' = <<>>
    /\ fork' = MaxHeight + 1
    /\ UNCHANGED <<bitcoin, pending, start, end, before>>

\* The arguments fit: -end is the contract's last header, and the headers below
\* -start are the chain's.
Fit(s, e) ==
    /\ 2 <= s /\ s <= e /\ e = Len(held) /\ e <= Len(tip)
    /\ \A n \in 1 .. s - 1 : held[n] = BlockAt(n)

\* They did when the run began, and neither the contract nor the chain up to
\* -end has changed under it.
Fits == before # <<>>

Launch ==
    /\ pc \in Over
    /\ pc' = "config"
    /\ start' \in Arguments /\ end' \in Arguments
    /\ before' = IF Fit(start', end') THEN held ELSE <<>>
    /\ UNCHANGED <<bitcoin, held, pending, file, locals, fork>>

\* A missing file is created and the program ends.  It ends without an error, too,
\* whatever the file holds, if it was given -init.
LoadConfigEnds ==
    /\ \/ Exit("config", "off")
       \/ file = "broken" /\ Exit("config", "failed")
    /\ file' = IF file = "absent" THEN "blank" ELSE file
    /\ UNCHANGED held

ArgumentsFail ==
    /\ file \in {"blank", "filled"}
    /\ start < 0 \/ end < start
    /\ Exit("config", "failed")
    /\ UNCHANGED <<held, file>>

\* Mutation: -start is taken as exclusive.
BeginAfterStart ==
    /\ file \in {"blank", "filled"}
    /\ 0 <= start /\ start < end
    /\ pc = "config"
    /\ pc' = "hash"
    /\ h' = start + 1
    /\ UNCHANGED <<bitcoin, held, pending, file, start, end, hash, headers, history>>

Begin ==
    /\ file \in {"blank", "filled"}
    /\ 0 <= start /\ start <= end
    /\ pc = "config"
    /\ pc' = "hash"
    /\ h' = start
    /\ UNCHANGED <<bitcoin, held, pending, file, start, end, hash, headers, history>>

GetBlockHash ==
    /\ h % Modulus <= Len(tip)
    /\ pc = "hash"
    /\ pc' = "header"
    /\ hash' = BlockAt(h % Modulus)
    /\ UNCHANGED <<bitcoin, held, pending, file, start, end, h, headers, history>>

\* Mutations: -end is taken as exclusive; the loop runs one height too far.
GetBlockHeaderBelowEnd ==
    /\ pc = "header"
    /\ headers' = Append(headers, hash)
    /\ \/ h + 1 < end /\ h' = h + 1 /\ pc' = "hash"
       \/ h + 1 >= end /\ pc' = "call" /\ UNCHANGED h
    /\ UNCHANGED <<bitcoin, held, pending, file, start, end, hash, history>>

GetBlockHeaderPastEnd ==
    /\ pc = "header"
    /\ headers' = Append(headers, hash)
    /\ \/ h <= end /\ h' = h + 1 /\ pc' = "hash"
       \/ h > end /\ pc' = "call" /\ UNCHANGED h
    /\ UNCHANGED <<bitcoin, held, pending, file, start, end, hash, history>>

\* Mutation: the payload is built newest block first.
GetBlockHeaderNewestFirst ==
    /\ pc = "header"
    /\ headers' = <<hash>> \o headers
    /\ \/ h < end /\ h' = h + 1 /\ pc' = "hash"
       \/ h = end /\ pc' = "call" /\ UNCHANGED h
    /\ UNCHANGED <<bitcoin, held, pending, file, start, end, hash, history>>

\* By its hash: the header of a block that is no longer on the chain is served.
GetBlockHeader ==
    /\ pc = "header"
    /\ headers' = Append(headers, hash)
    /\ \/ h < end /\ h' = h + 1 /\ pc' = "hash"
       \/ h = end /\ pc' = "call" /\ UNCHANGED h
    /\ UNCHANGED <<bitcoin, held, pending, file, start, end, hash, history>>

\* Mutations: what has been fetched is sent when a request fails; the request is
\* repeated.
SendWhatThereIs == \E request \in {"hash", "header"} : Goes(request, "call")

TryAgain == Goes("header", "hash")

\* No answer, or any status but 200: a height above the tip, too.
FetchFails ==
    /\ \E request \in {"hash", "header"} : Exit(request, "failed")
    /\ UNCHANGED <<held, file>>

\* A blank file has no key to sign with, which is an error before the broadcast.
CallContract ==
    /\ file = "filled"
    /\ \E reply \in Vsc!CallContract(held, "replaceBlocks", headers, <<20000>>) :
          /\ held' = reply.state
          /\ Exit("call", IF reply.err THEN "failed" ELSE "done")
    /\ UNCHANGED file

SigningFails ==
    /\ file = "blank"
    /\ Exit("call", "failed")
    /\ UNCHANGED <<held, file>>

(***************************************************************************)
(* The Bitcoin network, lite-btc-oracle, and the user who edits the file.  *)
(***************************************************************************)
NewBlock ==
    /\ Len(tip) < MaxHeight
    /\ tip' = Append(tip, forks)
    /\ UNCHANGED <<forks, held, pending, file, pc, run, history>>

\* A branch from height n on overtakes the chain by one block.
Reorganise ==
    /\ forks < MaxForks /\ Len(tip) < MaxHeight
    /\ forks' = forks + 1
    /\ \E n \in 1 .. Len(tip) :
          /\ tip' = SubSeq(tip, 1, n - 1) \o [k \in 1 .. Len(tip) - n + 2 |-> forks + 1]
          /\ fork' = IF pc \in Over THEN fork ELSE Min({fork, n})
          /\ before' = IF end < n THEN before ELSE <<>>
    /\ UNCHANGED <<held, pending, file, pc, run>>

OracleFetches ==
    /\ pending = NoBlock
    /\ Len(held) < Len(tip)
    /\ pending' = BlockAt(Len(held) + 1)
    /\ UNCHANGED <<bitcoin, held, file, pc, run, history>>

\* addBlocks; what the contract refuses is dropped.
OracleAdds ==
    /\ pending # NoBlock
    /\ \E new \in Put(held, Append(held, pending)) :
          /\ held' = new
          /\ before' = IF new = held THEN before ELSE <<>>
    /\ pending' = NoBlock
    /\ UNCHANGED <<bitcoin, file, pc, run, fork>>

FillIn ==
    /\ pc \in Over
    /\ file' \in {"filled", "broken"}
    /\ UNCHANGED <<bitcoin, held, pending, pc, run, history>>

-----------------------------------------------------------------------------
Tool ==
    \/ LoadConfigEnds \/ ArgumentsFail \/ Begin
    \/ GetBlockHash \/ GetBlockHeader \/ FetchFails
    \/ CallContract \/ SigningFails

Others == NewBlock \/ Reorganise \/ OracleFetches \/ OracleAdds \/ FillIn

Next == Launch \/ Tool \/ Others

Spec == Init /\ [][Next]_vars

\* The program is one goroutine, whose requests return.
FairSpec == Spec /\ WF_vars(Tool)

-----------------------------------------------------------------------------
\* Hash and header are two requests, and every height has its own: of what was
\* collected, everything below the lowest height reorganised since the run began
\* is the chain's, each header in its place, and the payload is complete.
PayloadBelowFork ==
    0 <= start /\ end < Modulus =>
        /\ \A k \in DOMAIN headers :
              start + k - 1 < fork => headers[k] = BlockAt(start + k - 1)
        /\ pc = "call" => Len(headers) = end - start + 1

\* Headers of different heights need not be of one chain when it reorganises
\* under the run, but the payload never goes back to a branch already abandoned:
\* a header that does not link to the one before it is of a newer branch.
NeverGoesBack ==
    end < Modulus =>
        \A k \in 2 .. Len(headers) :
            \/ Front(headers[k]) = headers[k - 1]
            \/ Last(headers[k]) > Last(headers[k - 1])

\* A run whose arguments fit the contract (-end is its last header, the headers
\* below -start are the chain's), with neither the contract nor the chain up to
\* -end changing under it, that says it is done has repaired the contract.
RepairTakes == pc = "done" /\ Fits => held = ChainTo(end)

\* Such a run that fails, whichever request failed and even if the answer to the
\* call was lost, has repaired the contract or left it as it was: the operator
\* can run it again with the same arguments.
RepairOrNothing == pc = "failed" /\ Fits => held \in {before, ChainTo(end)}

\* A run ends.
RunEnds == pc = "config" ~> pc \in Over

=============================================================================
