------------------------- MODULE RequireLoader_proofs -------------------------
(* In a tool call, cycles are detected, and nothing else is taken for one. *)
EXTENDS RequireLoader, TLAPS

\* Every variable has its type, in every state of every instance.
THEOREM LoaderTypeCorrect == Spec => []TypeOK
<1>1. Init => TypeOK
  <2> SUFFICES ASSUME Init PROVE TypeOK
    OBVIOUS
  <2>1. PICK body \in Bodies : stack = <<[module |-> Plugin, todo |-> body]>>
    BY DEF Init
  <2>2. [module |-> Plugin, todo |-> body] \in Frame
    BY LoaderAssumption DEF Frame
  <2>3. stack \in Seq(Frame) /\ stack # <<>>
    BY <2>1, <2>2
  <2>4. QED
    BY <2>3, LoaderAssumption DEF Init, TypeOK
<1>2. TypeOK /\ [Next]_vars => TypeOK'
  <2> SUFFICES ASSUME TypeOK, [Next]_vars PROVE TypeOK'
    OBVIOUS
  <2> USE DEF TypeOK
  <2>1. CASE UNCHANGED vars
    BY <2>1 DEF vars
  <2>2. ASSUME stack # <<>>
        PROVE  /\ Top \in Frame /\ Tail(stack) \in Seq(Frame)
               /\ Top.todo # <<>> =>
                    /\ Head(Top.todo) \in Step
                    /\ Advanced \in Seq(Frame)
    <3>1. Top \in Frame /\ Tail(stack) \in Seq(Frame)
      BY <2>2 DEF Top
    <3>2. ASSUME Top.todo # <<>>
          PROVE  Head(Top.todo) \in Step /\ Tail(Top.todo) \in Seq(Step)
      BY <3>1, <3>2 DEF Frame
    <3>3. ASSUME Top.todo # <<>> PROVE Advanced \in Seq(Frame)
      <4>1. [Top EXCEPT !.todo = Tail(@)] \in Frame
        BY <3>1, <3>2, <3>3 DEF Frame
      <4>2. QED
        BY <3>1, <4>1 DEF Advanced
    <3>4. QED
      BY <3>1, <3>2, <3>3
  <2>3. CASE Enter
    <3>1. PICK m : /\ m = Head(Top.todo).module /\ m \notin Missing
                   /\ stack' = <<[module |-> m, todo |-> script[m]]>> \o Advanced
                   /\ visited' = visited \cup {m}
                   /\ exported' = [by |-> m, assigned |-> FALSE]
                   /\ UNCHANGED <<script, thrown>>
      BY <2>3 DEF Enter
    <3>2. /\ stack # <<>> /\ Top.todo # <<>> /\ ~thrown
          /\ Head(Top.todo).op = "require"
      BY <2>3 DEF Enter, AtStep, Running
    <3>3. m \in Module
      BY <2>2, <3>1, <3>2 DEF Step, Export
    <3>4. script[m] \in Seq(Step)
      BY <3>3
    <3>5. [module |-> m, todo |-> script[m]] \in Frame
      BY <3>3, <3>4 DEF Frame
    <3>6. stack' \in Seq(Frame)
      BY <2>2, <3>1, <3>2, <3>5
    <3>7. QED
      BY <3>1, <3>2, <3>3, <3>6
  <2>4. CASE Refuse
    <3>1. stack # <<>> /\ Top.todo # <<>>
      BY <2>4 DEF Refuse, AtStep, Running
    <3>2. Advanced # <<>>
      BY <2>2, <3>1 DEF Advanced
    <3>3. QED
      BY <2>2, <2>4, <3>1, <3>2 DEF Refuse
  <2>5. CASE Assign
    <3>1. stack # <<>> /\ Top.todo # <<>> /\ ~thrown
      BY <2>5 DEF Assign, AtStep, Running
    <3>2. Top.module \in Module \cup {Plugin}
      BY <2>2, <3>1 DEF Frame
    <3>3. QED
      BY <2>2, <2>5, <3>1, <3>2 DEF Assign
  <2>6. CASE Return
    BY <2>2, <2>6 DEF Return, Running
  <2>7. CASE Catch
    BY <2>7 DEF Catch
  <2>8. CASE Unwind
    BY <2>2, <2>8 DEF Unwind
  <2>9. QED
    BY <2>1, <2>3, <2>4, <2>5, <2>6, <2>7, <2>8 DEF Next
<1>3. QED
  BY <1>1, <1>2, PTL DEF Spec

-----------------------------------------------------------------------------
\* A step of the innermost code leaves who is running as it is.
LEMMA AdvancedModules ==
  ASSUME TypeOK, stack # <<>>, Top.todo # <<>>
  PROVE  /\ Advanced \in Seq(Frame)
         /\ Len(Advanced) = Len(stack)
         /\ \A i \in 1 .. Len(stack) : Advanced[i].module = stack[i].module
<1> DEFINE f == [Top EXCEPT !.todo = Tail(@)]
           n == Len(stack)
<1>1. stack \in Seq(Frame) /\ Tail(stack) \in Seq(Frame) /\ n \in Nat \ {0}
  BY DEF TypeOK
<1>2. Top \in Frame /\ Top = stack[1]
  BY <1>1 DEF Top
<1>3. Tail(Top.todo) \in Seq(Step)
  BY <1>2 DEF Frame
<1>4. f \in Frame /\ f.module = Top.module
  BY <1>2, <1>3 DEF Frame
<1>5. Advanced = <<f>> \o Tail(stack)
  BY DEF Advanced
<1> HIDE DEF f
<1>6. /\ Advanced \in Seq(Frame) /\ Len(Advanced) = n
      /\ Advanced[1] = f /\ \A i \in 2 .. n : Advanced[i] = stack[i]
  BY <1>1, <1>4, <1>5
<1>7. \A i \in 1 .. n : i = 1 \/ i \in 2 .. n
  BY <1>1
<1>8. QED
  BY <1>2, <1>4, <1>6, <1>7

\* The map is exact, so the file that a require enters is not running.
LoaderInv == visited = InProgress /\ NoFileInsideItself

\* With the shared map, entering and leaving a file keep it exact.
LEMMA SharedMapInductive ==
  ASSUME SharedMap
  PROVE  Spec => []LoaderInv
<1>1. Init => LoaderInv
  BY DEF Init, LoaderInv, InProgress, NoFileInsideItself
<1>2. TypeOK /\ LoaderInv /\ [Next]_vars => LoaderInv'
  <2> SUFFICES ASSUME TypeOK, LoaderInv, [Next]_vars PROVE LoaderInv'
    OBVIOUS
  <2>1. CASE UNCHANGED <<stack, visited>>
    BY <2>1 DEF LoaderInv, InProgress, NoFileInsideItself
  <2>2. CASE /\ stack' = Advanced /\ stack # <<>> /\ Top.todo # <<>>
             /\ visited' = visited
    BY <2>2, AdvancedModules DEF LoaderInv, InProgress, NoFileInsideItself
  <2>3. CASE Enter
    <3>1. PICK m : /\ m = Head(Top.todo).module /\ ~Seen(m)
                   /\ stack' = <<[module |-> m, todo |-> script[m]]>> \o Advanced
                   /\ visited' = visited \cup {m}
      BY <2>3 DEF Enter
    <3>2. /\ stack # <<>> /\ Top.todo # <<>> /\ stack \in Seq(Frame)
          /\ Head(Top.todo).op = "require"
      BY <2>3 DEF Enter, AtStep, Running, TypeOK
    <3>3. m \in Module /\ m # Plugin
      <4>1. Top \in Frame
        BY <3>2 DEF Top
      <4>2. Head(Top.todo) \in Step
        BY <3>2, <4>1 DEF Frame
      <4>3. QED
        BY <3>1, <3>2, <4>2, LoaderAssumption DEF Step, Export
    <3>4. m \notin visited
      BY <3>1 DEF Seen
    <3>5. DEFINE n == Len(stack)
    <3>6. n \in Nat /\ Advanced \in Seq(Frame) /\ Len(Advanced) = n
      BY <3>2, AdvancedModules
    <3>7. /\ Len(stack') = n + 1
          /\ stack'[1].module = m
          /\ \A i \in 2 .. n + 1 : stack'[i].module = stack[i - 1].module
      <4>1. /\ Len(stack') = n + 1
            /\ stack'[1] = [module |-> m, todo |-> script[m]]
            /\ \A i \in 2 .. n + 1 : stack'[i] = Advanced[i - 1]
        BY <3>1, <3>6
      <4>2. \A i \in 2 .. n + 1 : i - 1 \in 1 .. n
        BY <3>6
      <4>3. QED
        BY <3>2, <4>1, <4>2, AdvancedModules
    <3>8. \A i \in 1 .. n : stack[i].module # m
      BY <3>3, <3>4 DEF LoaderInv, InProgress
    <3>9. \A i \in 1 .. n + 1 : i = 1 \/ (i \in 2 .. n + 1 /\ i - 1 \in 1 .. n)
      BY <3>6
    <3>10. NoFileInsideItself'
      <4> SUFFICES ASSUME NEW i \in 1 .. n + 1, NEW j \in 1 .. n + 1,
                          stack'[i].module = stack'[j].module
                   PROVE  i = j
        BY <3>7 DEF NoFileInsideItself
      <4>1. CASE i = 1 \/ j = 1
        BY <4>1, <3>7, <3>8, <3>9
      <4>2. CASE i # 1 /\ j # 1
        <5>1. stack[i - 1].module = stack[j - 1].module
          BY <4>2, <3>7, <3>9
        <5>2. i - 1 = j - 1
          BY <4>2, <3>9, <5>1 DEF LoaderInv, NoFileInsideItself
        <5>3. QED
          BY <5>2, <3>6
      <4>3. QED
        BY <4>1, <4>2
    <3>11. InProgress' = InProgress \cup {m}
      <4>1. \A i \in 1 .. n : i + 1 \in 2 .. n + 1 /\ (i + 1) - 1 = i
        BY <3>6
      <4>2. \A i \in 1 .. n : i + 1 \in 1 .. n + 1 /\ 1 \in 1 .. n + 1
        BY <3>6
      <4>3. \A i \in 1 .. n : stack'[i + 1].module = stack[i].module
        BY <3>7, <4>1
      <4>4. {stack'[i].module : i \in 1 .. n + 1}
              = {stack[i].module : i \in 1 .. n} \cup {m}
        <5>1. 1 \in 1 .. n + 1
          BY <3>6
        <5>2. ASSUME NEW i \in 1 .. n + 1
              PROVE  stack'[i].module \in {stack[k].module : k \in 1 .. n} \cup {m}
          BY <3>7, <3>9
        <5>3. ASSUME NEW i \in 1 .. n
              PROVE  stack[i].module \in {stack'[k].module : k \in 1 .. n + 1}
          BY <4>2, <4>3
        <5>4. m \in {stack'[k].module : k \in 1 .. n + 1}
          BY <3>7, <5>1
        <5>5. QED
          BY <5>2, <5>3, <5>4
      <4>5. QED
        BY <3>3, <3>7, <4>4 DEF InProgress
    <3>12. QED
      BY <3>1, <3>10, <3>11 DEF LoaderInv
  <2>4. CASE stack # <<>> /\ stack' = Tail(stack)
             /\ visited' = visited \ {Top.module}
    <3> DEFINE n == Len(stack)
    <3>1. /\ stack \in Seq(Frame) /\ n \in Nat \ {0}
          /\ Len(stack') = n - 1 /\ Top = stack[1]
          /\ \A i \in 1 .. n - 1 : stack'[i] = stack[i + 1]
      BY <2>4 DEF TypeOK, Top
    <3>2. \A i \in 1 .. n - 1 : i + 1 \in 1 .. n /\ i + 1 # 1
      BY <3>1
    <3>3. NoFileInsideItself'
      <4> SUFFICES ASSUME NEW i \in 1 .. n - 1, NEW j \in 1 .. n - 1,
                          stack'[i].module = stack'[j].module
                   PROVE  i = j
        BY <3>1 DEF NoFileInsideItself
      <4>1. i + 1 = j + 1
        BY <3>1, <3>2 DEF LoaderInv, NoFileInsideItself
      <4>2. QED
        BY <4>1, <3>1
    <3>4. \A i \in 1 .. n - 1 : stack[i + 1].module # stack[1].module
      <4>1. 1 \in 1 .. n
        BY <3>1
      <4>2. QED
        BY <3>2, <4>1 DEF LoaderInv, NoFileInsideItself
    <3>5. \A i \in 1 .. n : i = 1 \/ (i - 1 \in 1 .. n - 1 /\ (i - 1) + 1 = i)
      BY <3>1
    <3>6. {stack'[i].module : i \in 1 .. n - 1}
            = {stack[i].module : i \in 1 .. n} \ {stack[1].module}
      <4>1. ASSUME NEW i \in 1 .. n - 1
            PROVE  stack'[i].module \in
                      {stack[k].module : k \in 1 .. n} \ {stack[1].module}
        BY <3>1, <3>2, <3>4
      <4>2. ASSUME NEW i \in 1 .. n, stack[i].module # stack[1].module
            PROVE  stack[i].module \in {stack'[k].module : k \in 1 .. n - 1}
        <5>1. i - 1 \in 1 .. n - 1 /\ (i - 1) + 1 = i
          BY <3>5, <4>2
        <5>2. stack'[i - 1] = stack[i]
          BY <3>1, <5>1
        <5>3. QED
          BY <5>1, <5>2
      <4>3. QED
        BY <4>1, <4>2
    <3>7. InProgress' = InProgress \ {Top.module}
      BY <3>1, <3>6 DEF InProgress
    <3>8. QED
      BY <2>4, <3>3, <3>7 DEF LoaderInv
  <2>5. QED
    BY <2>1, <2>2, <2>3, <2>4
       DEF Next, Refuse, Assign, AtStep, Running, Return, Catch, Unwind,
           vars, TypeOK
<1>3. QED
  BY <1>1, <1>2, LoaderTypeCorrect, PTL DEF Spec

\* In a tool call no file is ever run inside itself, whatever files there are
\* and whichever exceptions their code catches.
THEOREM CyclesAreDetected ==
  ASSUME SharedMap
  PROVE  Spec => []NoFileInsideItself
<1>1. LoaderInv => NoFileInsideItself
  BY DEF LoaderInv
<1>2. QED
  BY <1>1, SharedMapInductive, PTL

\* And in a tool call the map holds no file that is not running.
THEOREM OnlyCyclesAreRefused == Spec => []MapIsExact
<1>1. CASE SharedMap
  <2>1. LoaderInv => MapIsExact
    BY DEF LoaderInv, MapIsExact
  <2>2. QED
    BY <1>1, <2>1, SharedMapInductive, PTL
<1>2. CASE ~SharedMap
  <2>1. MapIsExact
    BY <1>2 DEF MapIsExact
  <2>2. QED
    BY <2>1, PTL
<1>3. QED
  BY <1>1, <1>2

=============================================================================
