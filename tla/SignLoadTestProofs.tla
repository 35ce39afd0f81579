-------------------------- MODULE SignLoadTestProofs --------------------------
(***************************************************************************)
(* Theorems about SignLoadTest, for any number of processes, calls and     *)
(* counters.                                                               *)
(***************************************************************************)
EXTENDS SignLoadTest, TLAPS

-----------------------------------------------------------------------------
Lemmas == INSTANCE CallContractProofs WITH Apply <- Execute, HiveContract <- Contract

\* The results of CallContract as Call and Crash use it: the counter was signed or
\* nothing changed, and only a signed counter is reported without an error.
LEMMA SendResults ==
    ASSUME NEW p, NEW reply \in Send(p)
    PROVE  /\ reply.state \in {signed, [signed EXCEPT ![p] = Append(@, Counter(p))]}
           /\ ~reply.err => reply.state = [signed EXCEPT ![p] = Append(@, Counter(p))]
<1> DEFINE op == [contract |-> Contract, action |-> "signKey",
                  payload |-> [by |-> p, counter |-> Counter(p)],
                  intents |-> {}, rc |-> 5000]
           after == [signed EXCEPT ![p] = Append(@, Counter(p))]
<1>1. Execute(signed, op) = {after}
  BY DEF Execute
<1>2. Vsc!Applied(signed, <<op>>) = {after}
  <2> HIDE DEF op, after
  <2> QED BY <1>1, Lemmas!OneCall DEF Vsc!Applied, Lemmas!Applied
<1>3. Send(p) = Vsc!Broadcast(signed, <<op>>)
  BY DEF Send, Vsc!CallContract, Vsc!CallContractWithIntents
<1> HIDE DEF op, after
<1>4. Lemmas!Applied(signed, <<op>>) = {after} /\ reply \in Lemmas!Broadcast(signed, <<op>>)
  BY <1>2, <1>3 DEF Vsc!Applied, Lemmas!Applied, Vsc!Broadcast, Lemmas!Broadcast
<1>5. reply.state \in {signed, after} /\ (~reply.err => reply.state = after)
  BY <1>4, Lemmas!Results
<1> QED BY <1>5 DEF after

-----------------------------------------------------------------------------
\* Call and Crash leave the counters signed well-typed.
LEMMA SignedTyped ==
    ASSUME TypeOK, NEW p \in Procs, Counter(p) <= MaxCounter,
           NEW reply \in Send(p)
    PROVE  /\ Counter(p) \in 0 .. MaxCounter
           /\ reply.state \in [Procs -> Seq(0 .. MaxCounter)]
<1>1. Counter(p) \in 0 .. MaxCounter
  BY SignLoadTestAssumption DEF TypeOK, Counter
<1>2. signed \in [Procs -> Seq(0 .. MaxCounter)]
  BY DEF TypeOK
<1>3. [signed EXCEPT ![p] = Append(@, Counter(p))] \in [Procs -> Seq(0 .. MaxCounter)]
  BY <1>1, <1>2
<1> QED BY <1>1, <1>2, <1>3, SendResults

LEMMA TypeInit == Init => TypeOK
<1> SUFFICES ASSUME Init PROVE TypeOK
  OBVIOUS
<1> USE SignLoadTestAssumption
<1>1. FileTypeOK
  <2>1. [fields |-> Fields, valid |-> TRUE] \in Content
    BY DEF Content
  <2> QED BY <2>1 DEF Init, FileTypeOK
<1>2. /\ n \in [Procs -> Nat] /\ first \in [Procs -> 0 .. MaxCounter] /\ i \in [Procs -> Nat]
      /\ \A p \in Procs : i[p] <= n[p] /\ n[p] <= MaxCalls[p]
  BY DEF Init
<1>3. signed \in [Procs -> Seq(0 .. MaxCounter)]
  BY DEF Init
<1>4. init \in [Procs -> BOOLEAN] /\ config \in [Procs -> SUBSET Fields]
  BY DEF Init
<1>5. pc \in [Procs -> Over \cup Loading \cup {"read", "call"}]
  BY DEF Init, Over
<1> QED BY <1>1, <1>2, <1>3, <1>4, <1>5 DEF TypeOK

LEMMA TypeStep == TypeOK /\ [Next]_vars => TypeOK'
<1> SUFFICES ASSUME TypeOK, [Next]_vars
             PROVE  TypeOK'
  OBVIOUS
<1> USE SignLoadTestAssumption
<1>1. CASE FillIn
  BY <1>1 DEF FillIn, TypeOK, FileTypeOK, Content, locals
<1>2. ASSUME NEW p \in Procs, Launch(p)
      PROVE  TypeOK'
  <2>1. PICK withInit \in BOOLEAN, calls \in 0 .. MaxCalls[p], counter \in 0 .. MaxCounter :
          /\ init' = [init EXCEPT ![p] = withInit]
          /\ n' = [n EXCEPT ![p] = calls]
          /\ first' = [first EXCEPT ![p] = counter]
    BY <1>2 DEF Launch
  <2>2. calls \in Nat /\ calls <= MaxCalls[p]
    OBVIOUS
  <2>3. /\ n' \in [Procs -> Nat] /\ i' \in [Procs -> Nat]
        /\ \A q \in Procs : i'[q] <= n'[q] /\ n'[q] <= MaxCalls[q]
    BY <1>2, <2>1, <2>2 DEF Launch, TypeOK
  <2>4. signed' \in [Procs -> Seq(0 .. MaxCounter)]
    BY <1>2 DEF Launch, TypeOK
  <2>5. /\ init' \in [Procs -> BOOLEAN] /\ first' \in [Procs -> 0 .. MaxCounter]
        /\ config' \in [Procs -> SUBSET Fields]
    BY <1>2, <2>1 DEF Launch, TypeOK
  <2>6. pc' \in [Procs -> Over \cup Loading \cup {"read", "call"}]
    BY <1>2 DEF Launch, TypeOK, Loading
  <2>7. FileTypeOK'
    BY <1>2 DEF Launch, TypeOK, FileTypeOK
  <2> QED BY <2>3, <2>4, <2>5, <2>6, <2>7 DEF TypeOK
<1>3. ASSUME NEW p \in Procs, Stat(p)
      PROVE  TypeOK'
  BY <1>3 DEF Stat, Goes, Transition, TypeOK, FileTypeOK, Over, Loading, locals
<1>4. ASSUME NEW p \in Procs, Open(p)
      PROVE  TypeOK'
  BY <1>4 DEF Open, OpenFile, Transition, TypeOK, FileTypeOK, Over, Loading, locals
<1>5. ASSUME NEW p \in Procs, Write(p)
      PROVE  TypeOK'
  <2>1. PICK fields \in SUBSET Fields, valid \in BOOLEAN : file' = [fields |-> fields, valid |-> valid]
    BY <1>5 DEF Write, WriteFile, TypeOK
  <2>2. FileTypeOK'
    BY <2>1 DEF FileTypeOK, Content
  <2>3. pc' \in [Procs -> Over \cup Loading \cup {"read", "call"}]
    BY <1>5 DEF Write, Transition, TypeOK, Over, Loading
  <2> QED BY <1>5, <2>2, <2>3 DEF Write, TypeOK, locals
<1>6. ASSUME NEW p \in Procs, WriteFails(p)
      PROVE  TypeOK'
  BY <1>6 DEF WriteFails, LoadFails, Goes, Transition, TypeOK, FileTypeOK, Over, Loading, locals
<1>7. ASSUME NEW p \in Procs, Read(p)
      PROVE  TypeOK'
  BY <1>7 DEF Read, Readable, Transition, TypeOK, FileTypeOK, Content, Over, Loading
<1>8. ASSUME NEW p \in Procs, ReadFails(p)
      PROVE  TypeOK'
  BY <1>8 DEF ReadFails, LoadFails, Goes, Transition, TypeOK, FileTypeOK, Over, Loading, locals
<1>9. ASSUME NEW p \in Procs, Call(p)
      PROVE  TypeOK'
  <2>1. PICK reply \in Send(p) :
          /\ signed' = reply.state
          /\ Transition(p, "call", IF reply.err THEN "failed" ELSE "call")
          /\ i' = [i EXCEPT ![p] = IF reply.err THEN @ ELSE @ + 1]
    BY <1>9 DEF Call
  <2>2. signed' \in [Procs -> Seq(0 .. MaxCounter)]
    BY <1>9, <2>1, SignedTyped DEF Call
  <2>3. /\ i' \in [Procs -> Nat]
        /\ \A q \in Procs : i'[q] <= n[q]
    BY <1>9, <2>1 DEF Call, TypeOK
  <2> QED BY <1>9, <2>1, <2>2, <2>3 DEF Call, Transition, TypeOK, FileTypeOK, Over
<1>10. ASSUME NEW p \in Procs, ArgumentsFail(p) \/ CallFails(p) \/ Finish(p)
       PROVE  TypeOK'
  BY <1>10 DEF ArgumentsFail, CallFails, Finish, Goes, Transition, TypeOK, FileTypeOK, Over, locals
<1>11. ASSUME NEW p \in Procs, Crash(p)
       PROVE  TypeOK'
  <2>1. signed' \in [Procs -> Seq(0 .. MaxCounter)]
    BY <1>11, SignedTyped DEF Crash, TypeOK
  <2> QED BY <1>11, <2>1 DEF Crash, TypeOK, FileTypeOK, Over, locals
<1>12. CASE UNCHANGED vars
  BY <1>12 DEF vars, locals, TypeOK, FileTypeOK
<1> QED
  BY <1>1, <1>2, <1>3, <1>4, <1>5, <1>6, <1>7, <1>8, <1>9, <1>10, <1>11, <1>12
  DEF Next, Step

\* Types of all variables, for any number of processes.
THEOREM TypeCorrect == Spec => []TypeOK
<1> QED BY TypeInit, TypeStep, PTL DEF Spec

-----------------------------------------------------------------------------
\* The conjunct of CountersInOrder of one process, which no other process touches.
InOrder(p) ==
    /\ \A k \in DOMAIN signed[p] : signed[p][k] = first[p] + k - 1
    /\ Len(signed[p]) \in
          IF pc[p] \in {"failed", "off"} THEN {i[p], i[p] + 1} ELSE {i[p]}
    /\ pc[p] = "done" => i[p] = n[p]

\* A process that stays within main, or leaves it other than by Finish, with nothing
\* signed, keeps its order.
LEMMA Elsewhere ==
    ASSUME TypeOK, NEW q \in Procs, InOrder(q),
           UNCHANGED <<n[q], first[q], i[q], signed[q]>>,
           \/ pc'[q] = pc[q]
           \/ pc[q] \notin Over /\ pc'[q] # "done"
    PROVE  InOrder(q)'
<1>1. i[q] \in Nat
  BY DEF TypeOK
<1>2. Len(signed'[q]) \in
        IF pc'[q] \in {"failed", "off"} THEN {i'[q], i'[q] + 1} ELSE {i'[q]}
  BY <1>1 DEF InOrder, Over
<1>3. pc'[q] = "done" => i'[q] = n'[q]
  BY DEF InOrder, Over
<1> QED BY <1>2, <1>3 DEF InOrder

\* One more counter is signed.
LEMMA OneMore ==
    ASSUME TypeOK, NEW p \in Procs, InOrder(p), pc[p] = "call",
           signed' = [signed EXCEPT ![p] = Append(@, Counter(p))],
           first' = first
    PROVE  /\ Len(signed'[p]) = i[p] + 1
           /\ \A k \in DOMAIN signed'[p] : signed'[p][k] = first'[p] + k - 1
<1>1. /\ signed[p] \in Seq(0 .. MaxCounter) /\ i[p] \in Nat /\ first[p] \in Nat
      /\ signed'[p] = Append(signed[p], Counter(p))
  BY SignLoadTestAssumption DEF TypeOK
<1>2. Len(signed[p]) = i[p]
  BY DEF InOrder
<1>3. DOMAIN signed[p] = 1 .. i[p] /\ DOMAIN signed'[p] = 1 .. i[p] + 1
  BY <1>1, <1>2
<1>4. signed'[p][i[p] + 1] = first[p] + i[p]
  BY <1>1, <1>2 DEF Counter
<1>5. \A k \in 1 .. i[p] : signed'[p][k] = signed[p][k]
  BY <1>1, <1>2
<1> QED BY <1>1, <1>2, <1>3, <1>4, <1>5 DEF InOrder

LEMMA InOrderStep ==
    ASSUME TypeOK, [Next]_vars, NEW q \in LoadTests, InOrder(q)
    PROVE  InOrder(q)'
<1> USE SignLoadTestAssumption
<1>0. q \in Procs
  BY DEF Procs
<1>1. CASE FillIn
  BY <1>0, <1>1, Elsewhere DEF FillIn, locals
<1>2. ASSUME NEW p \in Procs, Launch(p)
      PROVE  InOrder(q)'
  <2>1. CASE p = q
    <3>1. signed'[q] = <<>> /\ i'[q] = 0 /\ pc'[q] = "stat"
      BY <1>0, <1>2, <2>1 DEF Launch, TypeOK
    <3> QED BY <3>1 DEF InOrder
  <2>2. CASE p # q
    <3>1. UNCHANGED <<pc[q], n[q], first[q], i[q], signed[q]>>
      BY <1>0, <1>2, <2>2 DEF Launch, TypeOK
    <3> QED BY <1>0, <3>1, Elsewhere
  <2> QED BY <2>1, <2>2
<1>3. ASSUME NEW p \in Procs,
             Stat(p) \/ Open(p) \/ Write(p) \/ WriteFails(p) \/ Read(p) \/ ReadFails(p)
                     \/ ArgumentsFail(p) \/ CallFails(p)
      PROVE  InOrder(q)'
  <2>1. UNCHANGED <<n, first, i, signed>>
    BY <1>3 DEF Stat, Open, Write, WriteFails, Read, ReadFails, ArgumentsFail,
              CallFails, Goes, locals
  <2>2. PICK to : pc[p] \notin Over /\ pc' = [pc EXCEPT ![p] = to] /\ to # "done"
    BY <1>3 DEF Stat, Open, Write, WriteFails, Read, ReadFails, ArgumentsFail,
                CallFails, Goes, Transition, LoadFails, Over
  <2>3. pc \in [Procs -> Over \cup Loading \cup {"read", "call"}]
    BY DEF TypeOK
  <2>4. pc'[q] = pc[q] \/ (pc[q] \notin Over /\ pc'[q] # "done")
    BY <1>0, <2>2, <2>3
  <2> QED BY <1>0, <2>1, <2>4, Elsewhere
<1>4. ASSUME NEW p \in Procs, Call(p)
      PROVE  InOrder(q)'
  <2>1. PICK reply \in Send(p) :
          /\ signed' = reply.state
          /\ Transition(p, "call", IF reply.err THEN "failed" ELSE "call")
          /\ i' = [i EXCEPT ![p] = IF reply.err THEN @ ELSE @ + 1]
    BY <1>4 DEF Call
  <2>2. signed' \in {signed, [signed EXCEPT ![p] = Append(@, Counter(p))]}
    BY <2>1, SendResults
  <2>3. UNCHANGED <<n, first>>
    BY <1>4 DEF Call
  <2>4. CASE p # q
    <3>1. UNCHANGED <<pc[q], i[q], signed[q]>>
      BY <1>0, <2>1, <2>2, <2>4 DEF Transition, TypeOK
    <3> QED BY <1>0, <2>3, <3>1, Elsewhere
  <2>5. CASE p = q /\ signed' = signed
    <3>1. reply.err
      <4>1. signed' # [signed EXCEPT ![p] = Append(@, Counter(p))]
        <5>1. signed[p] \in Seq(0 .. MaxCounter)
          BY DEF TypeOK
        <5>2. Append(signed[p], Counter(p)) # signed[p]
          BY <5>1
        <5> QED BY <2>5, <5>2 DEF TypeOK
      <4> QED BY <2>1, <4>1, SendResults
    <3>2. pc[q] = "call" /\ pc'[q] = "failed" /\ i'[q] = i[q]
      BY <1>0, <2>1, <2>5, <3>1 DEF Transition, TypeOK
    <3> QED BY <1>0, <2>3, <2>5, <3>2, Elsewhere DEF Over
  <2>6. CASE p = q /\ signed' = [signed EXCEPT ![p] = Append(@, Counter(p))]
    <3>1. pc[p] = "call"
      BY <2>1 DEF Transition
    <3>2. /\ Len(signed'[p]) = i[p] + 1
          /\ \A k \in DOMAIN signed'[p] : signed'[p][k] = first'[p] + k - 1
      BY <2>3, <2>6, <3>1, OneMore
    <3>3. \/ pc'[p] = "failed" /\ i'[p] = i[p]
          \/ pc'[p] = "call" /\ i'[p] = i[p] + 1
      BY <2>1 DEF Transition, TypeOK
    <3> QED BY <2>6, <3>2, <3>3 DEF InOrder
  <2> QED BY <2>2, <2>4, <2>5, <2>6
<1>5. ASSUME NEW p \in Procs, Finish(p)
      PROVE  InOrder(q)'
  BY <1>0, <1>5 DEF Finish, Goes, Transition, InOrder, TypeOK, locals
<1>6. ASSUME NEW p \in Procs, Crash(p)
      PROVE  InOrder(q)'
  <2>1. UNCHANGED <<n, first, i>> /\ pc[p] \notin Over /\ pc' = [pc EXCEPT ![p] = "off"]
    BY <1>6 DEF Crash, locals
  <2>2. pc'[q] = pc[q] \/ (pc[q] \notin Over /\ pc'[q] # "done")
    <3>1. pc \in [Procs -> Over \cup Loading \cup {"read", "call"}]
      BY DEF TypeOK
    <3> QED BY <1>0, <2>1, <3>1
  <2>3. CASE signed'[q] = signed[q]
    BY <1>0, <2>1, <2>2, <2>3, Elsewhere
  <2>4. CASE signed'[q] # signed[q]
    <3>1. /\ pc[p] = "call"
          /\ signed' = [signed EXCEPT ![p] = Append(@, Counter(p))]
      BY <1>6, <2>4, SendResults DEF Crash
    <3>2. p = q
      BY <1>0, <2>4, <3>1 DEF TypeOK
    <3>3. /\ Len(signed'[p]) = i[p] + 1
          /\ \A k \in DOMAIN signed'[p] : signed'[p][k] = first'[p] + k - 1
      BY <2>1, <3>1, <3>2, OneMore
    <3>4. pc'[p] = "off" /\ i'[p] = i[p]
      BY <2>1 DEF TypeOK
    <3> QED BY <3>2, <3>3, <3>4 DEF InOrder
  <2> QED BY <2>3, <2>4
<1>7. CASE UNCHANGED vars
  BY <1>0, <1>7, Elsewhere DEF vars, locals
<1> QED
  BY <1>1, <1>2, <1>3, <1>4, <1>5, <1>6, <1>7 DEF Next, Step

\* Over failures, lost answers and crashes at any moment, any number of load tests
\* beside each other has its first counters signed, in order, none twice.
THEOREM InOrderAlways == Spec => []CountersInOrder
<1>1. Init => CountersInOrder
  <2>1. ASSUME Init, NEW p \in LoadTests
        PROVE  InOrder(p)
    <3>1. signed[p] = <<>> /\ i[p] = 0 /\ pc[p] = "off"
      BY <2>1 DEF Init, Procs
    <3> QED BY <3>1 DEF InOrder
  <2> QED BY <2>1 DEF CountersInOrder, InOrder
<1>2. TypeOK /\ CountersInOrder /\ [Next]_vars => CountersInOrder'
  BY InOrderStep DEF CountersInOrder, InOrder
<1> QED BY <1>1, <1>2, TypeCorrect, PTL DEF Spec

-----------------------------------------------------------------------------
\* A program that scaffolds the file found none, so that nobody can have read a
\* setting, and none can come in before it has written.
Scaffolding == file = Absent \/ \E p \in Procs : pc[p] \in {"open", "write"}

FileInv ==
    /\ \A p \in Procs : pc[p] \in {"saveOpen", "saveWrite"} => p \in Inits
    /\ Scaffolding => Settings(file) = {} /\ \A p \in Procs : config[p] = {}

LEMMA FileInit == Init => FileInv
<1> SUFFICES ASSUME Init PROVE FileInv
  OBVIOUS
<1>1. \A p \in Procs : pc[p] = "off" /\ config[p] = {}
  BY DEF Init
<1>2. file = Absent => Settings(file) = {}
  BY InputConfigAssumption DEF Settings
<1> QED BY <1>1, <1>2 DEF FileInv, Scaffolding

LEMMA FileStep == TypeOK /\ FileInv /\ [Next]_vars => FileInv'
<1> SUFFICES ASSUME TypeOK, FileInv, [Next]_vars PROVE FileInv'
  OBVIOUS
<1> USE SignLoadTestAssumption, InputConfigAssumption
<1>0. pc \in [Procs -> Over \cup Loading \cup {"read", "call"}]
  BY DEF TypeOK
<1>1. CASE FillIn
  <2>1. PICK valid \in BOOLEAN : file' = [fields |-> Fields, valid |-> valid]
    BY <1>1 DEF FillIn
  <2>2. file' \in Content
    BY <2>1 DEF Content
  <2>3. ~Scaffolding'
    BY <1>1, <2>2 DEF FillIn, Scaffolding, Loading
  <2> QED BY <1>1, <2>3 DEF FillIn, FileInv
<1>2. ASSUME NEW p \in Procs, Launch(p)
      PROVE  FileInv'
  <2>1. /\ pc' = [pc EXCEPT ![p] = "stat"] /\ config' = [config EXCEPT ![p] = {}]
        /\ UNCHANGED file
    BY <1>2 DEF Launch
  <2>2. Scaffolding' => Scaffolding
    BY <1>0, <2>1 DEF Scaffolding
  <2>3. /\ \A q \in Procs : pc'[q] \in {"saveOpen", "saveWrite"} => q \in Inits
        /\ Scaffolding => \A q \in Procs : config'[q] = {}
    BY <1>0, <2>1 DEF FileInv, TypeOK
  <2> QED BY <2>1, <2>2, <2>3 DEF FileInv
<1>3. ASSUME NEW p \in Procs, Stat(p)
      PROVE  FileInv'
  <2>1. /\ UNCHANGED <<file, config>>
        /\ pc' = [pc EXCEPT ![p] = IF Exists THEN "read" ELSE "open"]
    BY <1>3 DEF Stat, Goes, Transition, locals
  <2>2. Scaffolding' => Scaffolding
    BY <1>0, <2>1 DEF Scaffolding, Exists
  <2> QED BY <1>0, <2>1, <2>2 DEF FileInv
<1>4. ASSUME NEW p \in Procs, Open(p)
      PROVE  FileInv'
  <2>1. /\ file' = Empty /\ UNCHANGED config
        /\ \/ pc[p] = "open" /\ pc' = [pc EXCEPT ![p] = "write"]
           \/ pc[p] = "saveOpen" /\ pc' = [pc EXCEPT ![p] = "saveWrite"]
    BY <1>4 DEF Open, OpenFile, Transition, locals
  <2>2. Settings(file') = {} /\ file' # Absent
    BY <2>1 DEF Settings
  <2>3. Scaffolding' => Scaffolding
    BY <1>0, <2>1, <2>2 DEF Scaffolding
  <2> QED BY <1>0, <2>1, <2>2, <2>3 DEF FileInv
<1>5. ASSUME NEW p \in Procs, Write(p)
      PROVE  FileInv'
  <2>1. PICK fields \in {{}, config[p]}, valid \in BOOLEAN :
          file' = [fields |-> fields, valid |-> valid]
    BY <1>5 DEF Write, WriteFile
  <2>2. /\ UNCHANGED config
        /\ \/ pc[p] = "write" /\ pc' = [pc EXCEPT ![p] = IF p \in Inits THEN "saveOpen" ELSE "off"]
           \/ pc[p] = "saveWrite" /\ pc' = [pc EXCEPT ![p] = "off"]
    BY <1>5 DEF Write, Transition, locals
  <2>3. file' \in Content /\ file'.fields = fields
    BY <2>1 DEF TypeOK, Content
  <2>4. Scaffolding' => Scaffolding
    BY <1>0, <2>2, <2>3 DEF Scaffolding
  <2>5. Scaffolding => Settings(file') = {}
    BY <2>1, <2>3 DEF FileInv, Settings
  <2> QED BY <1>0, <2>2, <2>4, <2>5 DEF FileInv
<1>6. ASSUME NEW p \in Procs,
             \/ WriteFails(p) \/ ReadFails(p) \/ CallFails(p) \/ Finish(p)
             \/ Call(p) \/ Crash(p) \/ ArgumentsFail(p)
      PROVE  FileInv'
  <2>1. UNCHANGED <<file, config>>
    BY <1>6 DEF WriteFails, ReadFails, ArgumentsFail, CallFails, Finish, Call, Crash, Goes, locals
  <2>2. PICK to : /\ pc' = [pc EXCEPT ![p] = to]
                  /\ to \notin {"open", "write"}
                  /\ to \in {"saveOpen", "saveWrite"} => p \in Inits
    BY <1>6 DEF WriteFails, ReadFails, ArgumentsFail, CallFails, Finish, Call, Crash, Goes,
                Transition, LoadFails
  <2>3. Scaffolding' => Scaffolding
    BY <1>0, <2>1, <2>2 DEF Scaffolding
  <2> QED BY <1>0, <2>1, <2>2, <2>3 DEF FileInv
<1>7. ASSUME NEW p \in Procs, Read(p)
      PROVE  FileInv'
  <2>1. /\ pc' = [pc EXCEPT ![p] = IF p \in Inits THEN "saveOpen" ELSE "call"]
        /\ config' = [config EXCEPT ![p] = file.fields \cap
                          IF p \in Inits THEN InitFields ELSE {Key}]
        /\ UNCHANGED file
    BY <1>7 DEF Read, Transition
  <2>2. Settings(file) = file.fields
    BY <1>7 DEF Read, Readable, Settings
  <2>3. Scaffolding' => Scaffolding
    BY <1>0, <2>1 DEF Scaffolding
  <2>4. Scaffolding => \A q \in Procs : config'[q] = {}
    BY <2>1, <2>2 DEF FileInv, TypeOK
  <2> QED BY <1>0, <2>1, <2>3, <2>4 DEF FileInv
<1>8. CASE UNCHANGED vars
  BY <1>8 DEF vars, locals, FileInv, Scaffolding, Settings
<1> QED
  BY <1>1, <1>2, <1>3, <1>4, <1>5, <1>6, <1>7, <1>8 DEF Next, Step

\* What one step takes out of the file.
KeepsSettings ==
    \/ Settings(file) \subseteq Settings(file')
    \/ \E p \in Inits : pc[p] \in {"saveOpen", "saveWrite"}

LEMMA StepKeeps == TypeOK /\ FileInv /\ [Next]_vars => KeepsSettings
<1> SUFFICES ASSUME TypeOK, FileInv, [Next]_vars PROVE KeepsSettings
  OBVIOUS
<1> USE SignLoadTestAssumption, InputConfigAssumption
<1>1. CASE FillIn
  <2>1. file' \in Content /\ file'.fields = Fields
    BY <1>1 DEF FillIn, Content
  <2>2. Settings(file) \subseteq Fields
    BY DEF TypeOK, FileTypeOK, Settings, Content
  <2> QED BY <2>1, <2>2 DEF Settings, KeepsSettings
<1>2. ASSUME NEW p \in Procs, Open(p) \/ Write(p)
      PROVE  KeepsSettings
  <2>1. pc[p] \in {"open", "write"} \/ pc[p] \in {"saveOpen", "saveWrite"}
    BY <1>2 DEF Open, Write, Transition
  <2> QED BY <2>1 DEF FileInv, Scaffolding, KeepsSettings
<1>3. CASE UNCHANGED file
  BY <1>3 DEF KeepsSettings
<1> QED
  BY <1>1, <1>2, <1>3
  DEF Next, Step, vars, Launch, Stat, WriteFails, Read, ReadFails, ArgumentsFail, Call, CallFails,
      Finish, Crash, Goes

\* For any programs that meet over one file: only -init of lite-btc-oracle takes a
\* setting out of it.
THEOREM NoSettingLost == Spec => SettingsKept
<1>1. TypeOK /\ FileInv /\ [Next]_vars
        => [Settings(file) \subseteq Settings(file') \/
              \E p \in Inits : pc[p] \in {"saveOpen", "saveWrite"}]_vars
  BY StepKeeps DEF KeepsSettings
<1> QED BY <1>1, FileInit, FileStep, TypeCorrect, PTL DEF Spec, SettingsKept

-----------------------------------------------------------------------------
(***************************************************************************)
(* How long a run can be.                                                  *)
(***************************************************************************)
\* A bound on the file operations and calls that process p still makes.
Remaining(p) ==
    CASE pc[p] = "stat" -> n[p] + 8
      [] pc[p] \in {"open", "read"} -> n[p] + 7
      [] pc[p] = "write" -> n[p] + 6
      [] pc[p] = "saveOpen" -> n[p] + 5
      [] pc[p] = "saveWrite" -> n[p] + 4
      [] pc[p] = "call" -> n[p] - i[p] + 1
      [] pc[p] \in Over -> 0

Shortens(p) ==
    /\ Remaining(p) \in Nat
    /\ Step(p) => Remaining(p)' < Remaining(p)
    /\ (FillIn \/ \E q \in Procs \ {p} : Launch(q) \/ Step(q) \/ Crash(q))
          => Remaining(p)' = Remaining(p)

\* Where a step of a process takes it, and that it takes no other anywhere.
LEMMA StepMoves ==
    ASSUME TypeOK, NEW q \in Procs, Step(q)
    PROVE  /\ pc' = [pc EXCEPT ![q] = pc'[q]] /\ n' = n
           /\ \/ i' = i
              \/ i' = [i EXCEPT ![q] = @ + 1] /\ i[q] < n[q] /\ pc[q] = "call"
           /\ \/ pc[q] = "stat" /\ pc'[q] \in {"open", "read"}
              \/ pc[q] \in {"open", "read"}
                   /\ pc'[q] \in Over \cup {"write", "saveOpen", "call"}
              \/ pc[q] = "write" /\ pc'[q] \in Over \cup {"saveOpen"}
              \/ pc[q] = "saveOpen" /\ pc'[q] \in Over \cup {"saveWrite"}
              \/ pc[q] = "saveWrite" /\ pc'[q] \in Over
              \/ pc[q] = "call" /\ pc'[q] \in Over
              \/ pc[q] = "call" /\ pc'[q] = "call" /\ i'[q] = i[q] + 1
<1> USE DEF TypeOK, Transition, Goes, Over
<1>0. pc \in [Procs -> Over \cup Loading \cup {"read", "call"}] /\ i \in [Procs -> Nat]
  OBVIOUS
<1>1. CASE Stat(q)
  BY <1>1 DEF Stat, locals
<1>2. CASE Open(q)
  BY <1>2 DEF Open, locals
<1>3. CASE Write(q)
  BY <1>3 DEF Write, locals
<1>4. CASE WriteFails(q)
  BY <1>4 DEF WriteFails, LoadFails, locals
<1>5. CASE Read(q)
  BY <1>5 DEF Read
<1>6. CASE ReadFails(q)
  BY <1>6 DEF ReadFails, LoadFails, locals
<1>7. CASE Call(q)
  BY <1>7 DEF Call
<1>8. CASE ArgumentsFail(q) \/ CallFails(q) \/ Finish(q)
  BY <1>8 DEF ArgumentsFail, CallFails, Finish, locals
<1> QED BY <1>1, <1>2, <1>3, <1>4, <1>5, <1>6, <1>7, <1>8 DEF Step

LEMMA StepShortens ==
    ASSUME TypeOK, NEW p \in Procs
    PROVE  Shortens(p)
<1>1. /\ n[p] \in Nat /\ i[p] \in Nat /\ i[p] <= n[p]
      /\ pc[p] \in Over \cup Loading \cup {"read", "call"}
  BY DEF TypeOK
<1>2. Remaining(p) \in Nat
  BY <1>1 DEF Remaining, Over, Loading
<1>3. ASSUME Step(p) PROVE Remaining(p)' < Remaining(p)
  <2>1. /\ n'[p] = n[p]
        /\ \/ i'[p] = i[p]
           \/ i'[p] = i[p] + 1 /\ i[p] < n[p] /\ pc[p] = "call"
    BY <1>3, StepMoves DEF TypeOK
  <2>2. \/ pc[p] = "stat" /\ pc'[p] \in {"open", "read"}
        \/ pc[p] \in {"open", "read"} /\ pc'[p] \in Over \cup {"write", "saveOpen", "call"}
        \/ pc[p] = "write" /\ pc'[p] \in Over \cup {"saveOpen"}
        \/ pc[p] = "saveOpen" /\ pc'[p] \in Over \cup {"saveWrite"}
        \/ pc[p] = "saveWrite" /\ pc'[p] \in Over
        \/ pc[p] = "call" /\ pc'[p] \in Over
        \/ pc[p] = "call" /\ pc'[p] = "call" /\ i'[p] = i[p] + 1
    BY <1>3, StepMoves
  <2> QED BY <1>1, <2>1, <2>2 DEF Remaining, Over
<1>4. ASSUME FillIn \/ \E q \in Procs \ {p} : Launch(q) \/ Step(q) \/ Crash(q)
      PROVE  Remaining(p)' = Remaining(p)
  <2>1. pc'[p] = pc[p] /\ n'[p] = n[p] /\ i'[p] = i[p]
    <3>1. CASE FillIn
      BY <3>1 DEF FillIn, locals
    <3>2. ASSUME NEW q \in Procs \ {p}, Launch(q)
          PROVE  pc'[p] = pc[p] /\ n'[p] = n[p] /\ i'[p] = i[p]
      BY <3>2 DEF Launch, TypeOK
    <3>3. ASSUME NEW q \in Procs \ {p}, Crash(q)
          PROVE  pc'[p] = pc[p] /\ n'[p] = n[p] /\ i'[p] = i[p]
      BY <3>3 DEF Crash, locals, TypeOK
    <3>4. ASSUME NEW q \in Procs \ {p}, Step(q)
          PROVE  pc'[p] = pc[p] /\ n'[p] = n[p] /\ i'[p] = i[p]
      BY <3>4, StepMoves DEF TypeOK
    <3> QED BY <1>4, <3>1, <3>2, <3>3, <3>4
  <2> QED BY <2>1 DEF Remaining
<1> QED BY <1>2, <1>3, <1>4 DEF Shortens

\* Every step of a program brings its own end nearer, and neither the other programs
\* with their writes and crashes nor the user move it away: a run makes at most n calls
\* and eight steps.
THEOREM RunsAreBounded == Spec => [][\A p \in Procs : Shortens(p)]_vars
<1>1. TypeOK /\ [Next]_vars => [\A p \in Procs : Shortens(p)]_vars
  BY StepShortens
<1> QED BY <1>1, TypeInit, TypeStep, PTL DEF Spec

=============================================================================
