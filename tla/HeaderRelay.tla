---------------------------- MODULE HeaderRelay ----------------------------
(***************************************************************************)
(* What lite-btc-oracle promises the relay contract.  The oracle collects  *)
(* headers, each the successor of the one before and above everything the  *)
(* contract has received, and either hands the whole batch over or loses   *)
(* it.  A batch may start higher than the previous one ended (what was     *)
(* lost with a process or a failed call is never sent again).  Once the    *)
(* oracle has gone astray - its operator moved it, or its resume position  *)
(* was lost - any header may be collected and sent, again or out of order. *)
(***************************************************************************)
EXTENDS Integers, Sequences, Functions

CONSTANT Height

VARIABLES
    pending,  \* the headers collected and not yet handed over
    relayed,  \* the headers the contract has received
    strayed

vars == <<pending, relayed, strayed>>

Init == pending = <<>> /\ relayed = {} /\ strayed = FALSE

Collect ==
    /\ ~strayed
    /\ \E n \in Height :
          /\ \A x \in relayed : x < n
          /\ pending # <<>> => n = pending[Len(pending)] + 1
          /\ pending' = Append(pending, n)
    /\ UNCHANGED <<relayed, strayed>>

\* A call of addBlocks that reaches the contract.
Submit ==
    /\ relayed' = relayed \cup Range(pending)
    /\ pending' = <<>>
    /\ UNCHANGED strayed

Lose == pending' = <<>> /\ UNCHANGED <<relayed, strayed>>

\* A call of seedBlocks on a contract without headers.
Seed ==
    /\ relayed = {} /\ pending = <<>>
    /\ \E n \in Height : relayed' = {n}
    /\ UNCHANGED <<pending, strayed>>

Stray == strayed' = TRUE /\ relayed \subseteq relayed' /\ pending' \in Seq(Height)

Next == Collect \/ Submit \/ Lose \/ Seed \/ Stray

Spec == Init /\ [][Next]_vars

=============================================================================
