-------------------------- MODULE PluginCalls_proofs --------------------------
(* Calls of different tools do not disturb each other. *)
EXTENDS PluginCalls, TLAPS

\* Every variable has its type, in every state of every instance.
THEOREM CallsTypeCorrect == Spec => []TypeOK
<1>1. Init => TypeOK
  BY CallsAssumption DEF Init, TypeOK, Stage, Inside
<1>2. TypeOK /\ [Next]_vars => TypeOK'
  <2> SUFFICES ASSUME TypeOK, [Next]_vars PROVE TypeOK'
    OBVIOUS
  <2> USE DEF TypeOK, Stage, Inside, Goto
  <2>1. CASE UNCHANGED vars
    BY <2>1 DEF vars
  <2>2. ASSUME NEW c \in Call, Find(c) PROVE TypeOK'
    BY <2>2 DEF Find
  <2>3. ASSUME NEW c \in Call, SetHost(c) PROVE TypeOK'
    BY <2>3 DEF SetHost
  <2>4. ASSUME NEW c \in Call, SetRequire(c) PROVE TypeOK'
    BY <2>4 DEF SetRequire
  <2>5. ASSUME NEW c \in Call, UseHost(c) \/ UseRequire(c) PROVE TypeOK'
    <3>1. /\ name[c] \in Tool
          /\ \E d \in Call \cup {"load"} :
                acted' = [acted EXCEPT ![c] = Append(@, d)]
      BY <2>5 DEF UseHost, UseRequire
    <3>2. acted' \in [Call -> Seq(Call \cup {"load"})]
      BY <3>1
    <3>3. QED
      BY <2>5, <3>2 DEF UseHost, UseRequire
  <2>6. ASSUME NEW c \in Call, Answer(c) PROVE TypeOK'
    BY <2>6 DEF Answer
  <2>7. QED
    BY <2>1, <2>2, <2>3, <2>4, <2>5, <2>6 DEF Next
<1>3. QED
  BY <1>1, <1>2, PTL DEF Spec

\* A tool that executes a call executes no other, so what the call has stored
\* in the VM is still there.
OwnGlobals ==
  /\ \A c, d \in Call : Inside(c) /\ Inside(d) /\ name[c] = name[d] => c = d
  /\ \A c \in Call : pc[c] \in {"hosted", "running"} => host[name[c]] = c
  /\ \A c \in Call : pc[c] = "running" => require[name[c]] = c
  /\ ActsInOwnName

\* As long as no tool is called while it executes a call, every call acts in
\* its own name, however the calls of different tools interleave.
THEOREM SeparateToolsSeparateCalls ==
  ASSUME OneAtATime
  PROVE  Spec => []ActsInOwnName
<1>1. Init => OwnGlobals
  BY DEF Init, OwnGlobals, Inside, ActsInOwnName
<1>2. TypeOK /\ OwnGlobals /\ [Next]_vars => OwnGlobals'
  <2> SUFFICES ASSUME TypeOK, OwnGlobals, [Next]_vars PROVE OwnGlobals'
    OBVIOUS
  <2> USE DEF TypeOK, Inside, Goto
  <2>1. CASE UNCHANGED vars
    BY <2>1 DEF vars, OwnGlobals, ActsInOwnName
  <2>2. ASSUME NEW c \in Call, Find(c) PROVE OwnGlobals'
    BY <2>2 DEF Find, OwnGlobals, ActsInOwnName
  <2>3. ASSUME NEW c \in Call, SetHost(c) PROVE OwnGlobals'
    BY <2>3 DEF SetHost, OwnGlobals, ActsInOwnName
  <2>4. ASSUME NEW c \in Call, SetRequire(c) PROVE OwnGlobals'
    BY <2>4 DEF SetRequire, OwnGlobals, ActsInOwnName
  <2>5. ASSUME NEW c \in Call, UseHost(c) \/ UseRequire(c) PROVE OwnGlobals'
    <3>1. UNCHANGED <<pc, name, host, require>>
      BY <2>5 DEF UseHost, UseRequire
    <3>2. acted' = [acted EXCEPT ![c] = Append(@, c)]
      BY <2>5 DEF UseHost, UseRequire, OwnGlobals
    <3>3. ActsInOwnName'
      <4> SUFFICES ASSUME NEW d \in Call, NEW i \in 1 .. Len(acted'[d])
                   PROVE  acted'[d][i] = d
        BY DEF ActsInOwnName
      <4>1. CASE d # c
        BY <3>2, <4>1 DEF OwnGlobals, ActsInOwnName
      <4>2. CASE d = c
        <5>1. acted'[c] = Append(acted[c], c) /\ acted[c] \in Seq(Call \cup {"load"})
          BY <3>2
        <5>2. CASE i = Len(acted[c]) + 1
          BY <4>2, <5>1, <5>2
        <5>3. CASE i \in 1 .. Len(acted[c])
          BY <4>2, <5>1, <5>3 DEF OwnGlobals, ActsInOwnName
        <5>4. QED
          BY <4>2, <5>1, <5>2, <5>3
      <4>3. QED
        BY <4>1, <4>2
    <3>4. QED
      BY <3>1, <3>3 DEF OwnGlobals
  <2>6. ASSUME NEW c \in Call, Answer(c) PROVE OwnGlobals'
    BY <2>6 DEF Answer, OwnGlobals, ActsInOwnName
  <2>7. QED
    BY <2>1, <2>2, <2>3, <2>4, <2>5, <2>6 DEF Next
<1>3. OwnGlobals => ActsInOwnName
  BY DEF OwnGlobals
<1>4. QED
  BY <1>1, <1>2, <1>3, CallsTypeCorrect, PTL DEF Spec

=============================================================================
