------------------------- MODULE CallContractProofs -------------------------
(***************************************************************************)
(* What CallContract's operators come to for transactions of one and of    *)
(* two calls, for any contracts.                                           *)
(***************************************************************************)
EXTENDS CallContract, TLAPS

\* What the recursive function of Applied comes to for one call and for two.
LEMMA OneCall ==
    ASSUME NEW state, NEW op
    PROVE  Applied(state, <<op>>) =
             IF Apply(state, op) = {} THEN {state} ELSE Apply(state, op)
<1> DEFINE G(g) == [k \in 0 .. Len(<<op>>) |->
              IF k = 0 THEN {state} ELSE UNION {Apply(s, <<op>>[k]) : s \in g[k - 1]}]
           f == CHOOSE g : g = G(g)
           w == [k \in 0 .. 1 |-> IF k = 0 THEN {state} ELSE Apply(state, op)]
<1>1. Len(<<op>>) = 1 /\ <<op>>[1] = op
  OBVIOUS
<1>2. UNION {Apply(s, op) : s \in {state}} = Apply(state, op)
  OBVIOUS
<1>3. w = G(w)
  BY <1>1, <1>2
<1>4. f = G(f)
  <2> HIDE DEF G
  <2> QED BY <1>3
<1>5. f[0] = {state} /\ f[1] = Apply(state, op)
  <2> HIDE DEF f
  <2>1. f = G(f)
    BY <1>4
  <2>2. f[0] = {state}
    BY <2>1, <1>1
  <2>3. f[1] = UNION {Apply(s, op) : s \in f[0]}
    BY <2>1, <1>1
  <2> QED BY <2>2, <2>3, <1>2
<1>6. Applied(state, <<op>>) = IF f[Len(<<op>>)] = {} THEN {state} ELSE f[Len(<<op>>)]
  BY DEF Applied
<1> QED BY <1>1, <1>5, <1>6

\* Two calls: what the second makes of what the first leaves, or nothing at all if
\* one of them is refused.
LEMMA TwoCalls ==
    ASSUME NEW state, NEW op1, NEW op2
    PROVE  LET both == UNION {Apply(s, op2) : s \in Apply(state, op1)}
           IN  Applied(state, <<op1, op2>>) = IF both = {} THEN {state} ELSE both
<1> DEFINE both == UNION {Apply(s, op2) : s \in Apply(state, op1)}
           ops == <<op1, op2>>
           G(g) == [k \in 0 .. Len(ops) |->
              IF k = 0 THEN {state} ELSE UNION {Apply(s, ops[k]) : s \in g[k - 1]}]
           f == CHOOSE g : g = G(g)
           w == [k \in 0 .. 2 |-> IF k = 0 THEN {state}
                                  ELSE IF k = 1 THEN Apply(state, op1) ELSE both]
<1>1. Len(ops) = 2 /\ ops[1] = op1 /\ ops[2] = op2
  OBVIOUS
<1> HIDE DEF ops
<1>2. UNION {Apply(s, op1) : s \in {state}} = Apply(state, op1)
  OBVIOUS
<1>3. w = G(w)
  BY <1>1, <1>2
<1>4. f = G(f)
  <2> HIDE DEF G
  <2> QED BY <1>3
<1>5. f[2] = both
  <2> HIDE DEF f
  <2>1. f = G(f)
    BY <1>4
  <2>2. f[0] = {state}
    BY <2>1, <1>1
  <2>3. f[1] = UNION {Apply(s, op1) : s \in f[0]}
    BY <2>1, <1>1
  <2>4. f[2] = UNION {Apply(s, op2) : s \in f[1]}
    BY <2>1, <1>1
  <2> QED BY <2>2, <2>3, <2>4, <1>2
<1>6. Applied(state, ops) = IF f[Len(ops)] = {} THEN {state} ELSE f[Len(ops)]
  BY DEF Applied
<1> QED BY <1>1, <1>5, <1>6 DEF ops

\* A broadcast changes nothing or applies the transaction, and without an error it
\* has applied it.
LEMMA Results ==
    ASSUME NEW state, NEW ops, NEW reply \in Broadcast(state, ops)
    PROVE  /\ reply.state \in {state} \cup Applied(state, ops)
           /\ ~reply.err => reply.state \in Applied(state, ops)
<1>0. PICK o \in Outcomes :
        reply \in {[state |-> s, err |-> o # "accepted"] :
                     s \in IF o = "rejected" THEN {state} ELSE Applied(state, ops)}
  BY DEF Broadcast
<1>1. PICK s \in IF o = "rejected" THEN {state} ELSE Applied(state, ops) :
        reply = [state |-> s, err |-> o # "accepted"]
  BY <1>0
<1>2. reply.state = s /\ (reply.err <=> o # "accepted")
  BY <1>1, Zenon
<1>3. s \in {state} \cup Applied(state, ops) /\ (o = "accepted" => s \in Applied(state, ops))
  OBVIOUS
<1> QED BY <1>2, <1>3

LEMMA OneOp ==
    ASSUME NEW call
    PROVE  Ops(<<call>>) = <<WithDefaults(call)>>
<1>1. DOMAIN <<call>> = 1 .. 1 /\ <<call>>[1] = call
  OBVIOUS
<1>2. [k \in 1 .. 1 |-> WithDefaults(call)] = <<WithDefaults(call)>>
  OBVIOUS
<1>3. \A k \in 1 .. 1 : <<call>>[k] = call
  BY <1>1
<1> QED BY <1>1, <1>2, <1>3 DEF Ops

LEMMA TwoOps ==
    ASSUME NEW call1, NEW call2
    PROVE  Ops(<<call1, call2>>) = <<WithDefaults(call1), WithDefaults(call2)>>
<1> DEFINE calls == <<call1, call2>>
           ops == <<WithDefaults(call1), WithDefaults(call2)>>
<1>1. /\ DOMAIN calls = 1 .. 2 /\ calls[1] = call1 /\ calls[2] = call2
      /\ ops = [k \in 1 .. 2 |-> IF k = 1 THEN WithDefaults(call1) ELSE WithDefaults(call2)]
  OBVIOUS
<1> HIDE DEF calls, ops
<1>2. \A k \in 1 .. 2 : calls[k] = IF k = 1 THEN call1 ELSE call2
  BY <1>1
<1>3. Ops(calls) = ops
  BY <1>1, <1>2 DEF Ops
<1> QED BY <1>3 DEF calls, ops

=============================================================================
