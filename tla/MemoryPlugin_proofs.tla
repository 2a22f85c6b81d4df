-------------------------- MODULE MemoryPlugin_proofs --------------------------
(***************************************************************************)
(* The memory tool's file, for any number of processes that share it.      *)
(***************************************************************************)
EXTENDS MemoryPlugin, TLAPS

-----------------------------------------------------------------------------
(* What a call makes of the map.                                           *)

\* Maps stay maps, whatever the call.
LEMMA MapsAreMaps ==
  /\ Empty \in Map
  /\ \A m \in Map : \A o \in Operation : Changed(o, m) \in Map
<1>1. Empty \in Map
  BY DEF Empty, Map
<1>2. ASSUME NEW m \in Map, NEW o \in Operation PROVE Changed(o, m) \in Map
  <2>1. CASE o.action = "set"
    <3>1. o.key \in Key /\ o.value \in Value
      BY <2>1 DEF Operation
    <3>2. QED
      BY <2>1, <3>1 DEF Changed, Map
  <2>2. CASE o.action = "delete"
    <3>1. o.key \in Key
      BY <2>2 DEF Operation
    <3>2. QED
      BY <2>2, <3>1 DEF Changed, Map
  <2>3. CASE o.action \notin {"set", "delete"}
    BY <2>3 DEF Changed
  <2>4. QED
    BY <2>1, <2>2, <2>3
<1>3. QED
  BY <1>1, <1>2

\* A call that saves has changed its own key and no other.
LEMMA ChangesOwnKey ==
  ASSUME NEW m \in Map, NEW o \in Operation, o.action \in {"set", "delete"}
  PROVE  \A k \in Key : k # o.key => Changed(o, m)[k] = m[k]
<1>1. CASE o.action = "set"
  BY <1>1 DEF Changed, Map
<1>2. CASE o.action = "delete"
  BY <1>2 DEF Changed, Map
<1>3. QED
  BY <1>1, <1>2

\* A file's content is a map with its text, or nothing that loads.
LEMMA ContentsAreMaps ==
  /\ Nothing \in Contents /\ Mixed \in Contents
  /\ \A m \in Map : Json(m) \in Contents /\ Json(m).map = m /\ Json(m).text = "json"
  /\ \A c \in Contents : c.map \in Map
<1>1. Nothing \in Contents /\ Mixed \in Contents
  BY DEF Nothing, Mixed, Contents
<1>2. \A m \in Map : Json(m) \in Contents /\ Json(m).map = m /\ Json(m).text = "json"
  BY DEF Json, Contents
<1>3. \A c \in Contents : c.map \in Map
  BY MapsAreMaps DEF Contents
<1>4. QED
  BY <1>1, <1>2, <1>3

\* A call under way is one of the operations.
LEMMA CallsAreOperations ==
  ASSUME TypeOK, NEW p \in Proc, pc[p] # "idle"
  PROVE  op[p] \in Operation
BY DEF TypeOK

\* No call is "none".
LEMMA NoOpIsNone == NoOp \notin Operation
BY DEF NoOp, Operation

-----------------------------------------------------------------------------
(* Every variable has its type.                                            *)

\* The end of a call, for any reason.
LEMMA EndKeepsTypes ==
  ASSUME TypeOK, NEW p \in Proc, End(p)
  PROVE  TypeOK'
<1>1. Empty \in Map
  BY MapsAreMaps
<1>2. QED
  BY <1>1 DEF TypeOK, End, Goto, fileVars

\* Every step keeps the types.
LEMMA NextKeepsTypes == TypeOK /\ [Next]_vars => TypeOK'
<1> SUFFICES ASSUME TypeOK, [Next]_vars PROVE TypeOK'
  OBVIOUS
<1>1. CASE UNCHANGED vars
  BY <1>1 DEF TypeOK, vars, fileVars
<1>2. ASSUME NEW p \in Proc, Begin(p) PROVE TypeOK'
  <2>1. PICK o \in Operation : op' = [op EXCEPT ![p] = o]
    BY <1>2 DEF Begin
  <2>2. o # NoOp
    BY NoOpIsNone
  <2>3. QED
    BY <1>2, <2>1, <2>2 DEF Begin, Goto, TypeOK, fileVars
<1>3. ASSUME NEW p \in Proc, MakeDirFails(p) \/ Answer(p) \/ Kill(p) PROVE TypeOK'
  BY <1>3, EndKeepsTypes DEF MakeDirFails, Answer, Kill
<1>4. ASSUME NEW p \in Proc, Load(p) PROVE TypeOK'
  <2>1. PICK m \in Loads :
           /\ ns' = [ns EXCEPT ![p] = Changed(op[p], m)]
           /\ Goto(p, IF Saves(op[p], m) THEN "loaded" ELSE "answer")
    BY <1>4 DEF Load
  <2>2. m \in Map
    BY <2>1, MapsAreMaps, ContentsAreMaps DEF Loads, TypeOK
  <2>3. op[p] \in Operation /\ op[p] # NoOp
    BY <1>4, CallsAreOperations, NoOpIsNone DEF Load
  <2>4. Changed(op[p], m) \in Map
    BY <2>2, <2>3, MapsAreMaps
  <2>5. PICK stage \in {"loaded", "answer"} : pc' = [pc EXCEPT ![p] = stage]
    BY <2>1 DEF Goto
  <2>6. QED
    BY <1>4, <2>1, <2>3, <2>4, <2>5 DEF Load, TypeOK, fileVars
<1>5. ASSUME NEW p \in Proc, OpenTmp(p) PROVE TypeOK'
  BY <1>5, ContentsAreMaps DEF OpenTmp, Goto, TypeOK
<1>6. ASSUME NEW p \in Proc, WriteTmp(p) PROVE TypeOK'
  <2>1. \A old : Written(old, ns[p]) \subseteq Contents
    <3>1. ns[p] \in Map
      BY DEF TypeOK
    <3>2. QED
      BY <3>1, ContentsAreMaps DEF Written
  <2>2. tmp' \in Contents /\ file' \in Contents
    BY <1>6, <2>1 DEF WriteTmp, TypeOK
  <2>3. QED
    BY <1>6, <2>2 DEF WriteTmp, Goto, TypeOK
<1>7. ASSUME NEW p \in Proc, RenameTmp(p) PROVE TypeOK'
  <2>1. fd' \in [Proc -> {"none", "tmp", "file", "unlinked"}]
    BY <1>7 DEF RenameTmp, AfterRename, TypeOK
  <2>2. QED
    BY <1>7, <2>1, ContentsAreMaps DEF RenameTmp, Goto, TypeOK
<1>8. ASSUME NEW p \in Proc, SaveFails(p) PROVE TypeOK'
  <2>1. fd' \in [Proc -> {"none", "tmp", "file", "unlinked"}]
    BY <1>8 DEF SaveFails, AfterDelete, TypeOK
  <2>2. pc[p] # "idle"
    BY <1>8 DEF SaveFails
  <2>3. QED
    BY <1>8, <2>1, <2>2, ContentsAreMaps DEF SaveFails, Goto, TypeOK
<1>9. QED
  BY <1>1, <1>2, <1>3, <1>4, <1>5, <1>6, <1>7, <1>8 DEF Next

\* The tool begins with the types.
LEMMA InitTypes == Init => TypeOK
<1>1. Empty \in Map /\ Json(Empty) \in Contents /\ Nothing \in Contents
  BY MapsAreMaps, ContentsAreMaps
<1>2. QED
  BY <1>1 DEF Init, TypeOK

\* Every variable has its type, however many processes share the directory: a
\* process may have open what another has renamed or deleted.
THEOREM MemoryTypeCorrect == Spec => []TypeOK
<1>1. TypeOK /\ [Next]_vars => TypeOK'
  BY NextKeepsTypes
<1>2. QED
  BY <1>1, InitTypes, PTL DEF Spec

-----------------------------------------------------------------------------
(* One process saves at a time.                                            *)

\* What a process that saves has in its hands: ".tmp" is its own from when it
\* opens it, and holds what it is to hold.
Holds(p) ==
  /\ fd[p] = IF pc[p] = "opened" THEN "tmp" ELSE "none"
  /\ pc[p] = "opened" => tmpExists /\ tmp = Nothing
  /\ pc[p] = "written" => tmpExists /\ tmp = Json(ns[p])

\* The map that a process saves is the one in the file, or the empty one that a
\* failed read left it with, and its call's change.
Carries(p) ==
  Saving(p) => /\ op[p].action \in {"set", "delete"}
               /\ \E m \in {file.map, Empty} : ns[p] = Changed(op[p], m)

\* The file is whole, and what is on its way to it is too.
AllWhole == FileIsWhole /\ \A p \in Proc : Holds(p) /\ Carries(p)

\* As long as the others save nothing, a process that saves nothing keeps what
\* they hold.
LEMMA OthersHold ==
  ASSUME TypeOK, AllWhole, NEW p \in Proc,
         UNCHANGED <<file, tmp, tmpExists>>,
         \A q \in Proc : q # p => /\ pc'[q] = pc[q] /\ op'[q] = op[q]
                                  /\ ns'[q] = ns[q] /\ fd'[q] = fd[q],
         Holds(p)', Carries(p)'
  PROVE  AllWhole'
<1>1. FileIsWhole'
  BY DEF AllWhole, FileIsWhole
<1>2. ASSUME NEW q \in Proc, q # p PROVE Holds(q)' /\ Carries(q)'
  BY <1>2 DEF AllWhole, Holds, Carries, Saving, Changed
<1>3. QED
  BY <1>1, <1>2 DEF AllWhole

\* While a process saves, no other one has anything in its hands.
LEMMA OthersSaveNothing ==
  ASSUME TypeOK, AllWhole, NEW p \in Proc, Saving(p), OneSaves,
         NEW q \in Proc, q # p
  PROVE  ~Saving(q) /\ fd[q] = "none"
<1>1. ~Saving(q)
  BY DEF OneSaves
<1>2. QED
  BY <1>1 DEF AllWhole, Holds, Saving

\* What a process does that saves leaves the others with nothing in their hands.
LEMMA OthersStandBy ==
  ASSUME TypeOK, AllWhole, NEW p \in Proc, Saving(p), OneSaves, FileIsWhole',
         \A q \in Proc : q # p => pc'[q] = pc[q] /\ fd'[q] = "none",
         Holds(p)', Carries(p)'
  PROVE  AllWhole'
<1>1. ASSUME NEW q \in Proc, q # p PROVE Holds(q)' /\ Carries(q)'
  <2>1. ~Saving(q)
    BY <1>1, OthersSaveNothing
  <2>2. pc'[q] = pc[q] /\ fd'[q] = "none"
    BY <1>1
  <2>3. QED
    BY <2>1, <2>2 DEF Holds, Carries, Saving
<1>2. QED
  BY <1>1 DEF AllWhole

\* A call that ends, or is killed, leaves the file as it is.
LEMMA EndKeepsWhole ==
  ASSUME TypeOK, AllWhole, NEW p \in Proc, End(p)
  PROVE  AllWhole'
<1>1. UNCHANGED <<file, tmp, tmpExists>> /\ pc'[p] = "idle" /\ fd'[p] = "none"
  BY DEF End, Goto, fileVars, TypeOK
<1>2. \A q \in Proc : q # p => /\ pc'[q] = pc[q] /\ op'[q] = op[q]
                               /\ ns'[q] = ns[q] /\ fd'[q] = fd[q]
  BY DEF End, Goto, TypeOK
<1>3. Holds(p)' /\ Carries(p)'
  BY <1>1 DEF Holds, Carries, Saving
<1>4. QED
  BY <1>1, <1>2, <1>3, OthersHold

\* A call that loads has the map of the file, or the empty one, with its change.
LEMMA LoadKeepsWhole ==
  ASSUME TypeOK, AllWhole, NEW p \in Proc, Load(p)
  PROVE  AllWhole'
<1>1. PICK m \in Loads :
         /\ ns' = [ns EXCEPT ![p] = Changed(op[p], m)]
         /\ Goto(p, IF Saves(op[p], m) THEN "loaded" ELSE "answer")
  BY DEF Load
<1>2. UNCHANGED <<file, tmp, tmpExists, op, fd>> /\ pc[p] = "called"
  BY DEF Load, fileVars
<1>3. \A q \in Proc : q # p => /\ pc'[q] = pc[q] /\ op'[q] = op[q]
                               /\ ns'[q] = ns[q] /\ fd'[q] = fd[q]
  BY <1>1, <1>2 DEF Goto, TypeOK
<1>4. pc'[p] = (IF Saves(op[p], m) THEN "loaded" ELSE "answer")
  BY <1>1 DEF Goto, TypeOK
<1>5. Holds(p)'
  <2>1. fd'[p] = "none"
    BY <1>2 DEF AllWhole, Holds
  <2>2. QED
    BY <1>4, <2>1 DEF Holds
<1>6. Carries(p)'
  <2>1. SUFFICES ASSUME Saves(op[p], m)
                 PROVE  /\ op'[p].action \in {"set", "delete"}
                        /\ \E n \in {file'.map, Empty} : ns'[p] = Changed(op'[p], n)
    BY <1>4 DEF Carries, Saving, Changed
  <2>2. op[p].action \in {"set", "delete"}
    BY <2>1 DEF Saves
  <2>3. ns'[p] = Changed(op[p], m) /\ m \in {file.map, Empty}
    BY <1>1 DEF TypeOK, Loads
  <2>4. QED
    BY <1>2, <2>2, <2>3
<1>7. QED
  BY <1>2, <1>3, <1>5, <1>6, OthersHold

\* Every step of a process keeps the file whole, as long as no other saves.
LEMMA NextKeepsWhole ==
  TypeOK /\ AllWhole /\ OneSaves /\ [Next]_vars => AllWhole'
<1> SUFFICES ASSUME TypeOK, AllWhole, OneSaves, [Next]_vars PROVE AllWhole'
  OBVIOUS
<1>1. CASE UNCHANGED vars
  <2>1. UNCHANGED <<file, tmp, tmpExists>> /\ UNCHANGED <<pc, op, ns, fd>>
    BY <1>1 DEF vars, fileVars
  <2>2. QED
    BY <2>1 DEF AllWhole, FileIsWhole, Holds, Carries, Saving, Changed
<1>2. ASSUME NEW p \in Proc, Begin(p) PROVE AllWhole'
  <2>1. UNCHANGED <<file, tmp, tmpExists, ns, fd>> /\ pc[p] = "idle" /\ pc'[p] = "called"
    BY <1>2 DEF Begin, Goto, fileVars, TypeOK
  <2>2. \A q \in Proc : q # p => /\ pc'[q] = pc[q] /\ op'[q] = op[q]
                                 /\ ns'[q] = ns[q] /\ fd'[q] = fd[q]
    BY <1>2 DEF Begin, Goto, TypeOK
  <2>3. Holds(p)' /\ Carries(p)'
    BY <2>1 DEF AllWhole, Holds, Carries, Saving
  <2>4. QED
    BY <2>1, <2>2, <2>3, OthersHold
<1>3. ASSUME NEW p \in Proc, MakeDirFails(p) \/ Answer(p) \/ Kill(p) PROVE AllWhole'
  BY <1>3, EndKeepsWhole DEF MakeDirFails, Answer, Kill
<1>4. ASSUME NEW p \in Proc, Load(p) PROVE AllWhole'
  BY <1>4, LoadKeepsWhole
<1>5. ASSUME NEW p \in Proc, OpenTmp(p) PROVE AllWhole'
  <2>1. /\ pc[p] = "loaded" /\ pc'[p] = "opened" /\ fd'[p] = "tmp"
        /\ tmp' = Nothing /\ tmpExists' = TRUE /\ UNCHANGED <<file, op, ns>>
    BY <1>5 DEF OpenTmp, Goto, TypeOK
  <2>2. Saving(p)
    BY <2>1 DEF Saving
  <2>3. Holds(p)' /\ Carries(p)' /\ FileIsWhole'
    BY <2>1, <2>2 DEF AllWhole, Holds, Carries, Saving, FileIsWhole, Changed
  <2>4. \A q \in Proc : q # p => pc'[q] = pc[q] /\ fd'[q] = "none"
    <3>1. \A q \in Proc : q # p => pc'[q] = pc[q] /\ fd'[q] = fd[q]
      BY <1>5 DEF OpenTmp, Goto, TypeOK
    <3>2. QED
      BY <3>1, <2>2, OthersSaveNothing
  <2>5. QED
    BY <2>2, <2>3, <2>4, OthersStandBy
<1>6. ASSUME NEW p \in Proc, WriteTmp(p) PROVE AllWhole'
  <2>1. /\ pc[p] = "opened" /\ pc'[p] = "written" /\ fd'[p] = "none"
        /\ UNCHANGED <<tmpExists, op, ns>>
    BY <1>6 DEF WriteTmp, Goto, TypeOK
  <2>2. fd[p] = "tmp" /\ tmpExists /\ tmp = Nothing /\ Saving(p)
    BY <2>1 DEF AllWhole, Holds, Saving
  <2>3. tmp' = Json(ns[p]) /\ file' = file
    BY <1>6, <2>2 DEF WriteTmp, Written
  <2>4. Holds(p)' /\ Carries(p)' /\ FileIsWhole'
    BY <2>1, <2>2, <2>3 DEF AllWhole, Holds, Carries, Saving, FileIsWhole, Changed
  <2>5. \A q \in Proc : q # p => pc'[q] = pc[q] /\ fd'[q] = "none"
    <3>1. \A q \in Proc : q # p => pc'[q] = pc[q] /\ fd'[q] = fd[q]
      BY <1>6 DEF WriteTmp, Goto, TypeOK
    <3>2. QED
      BY <3>1, <2>2, OthersSaveNothing
  <2>6. QED
    BY <2>2, <2>4, <2>5, OthersStandBy
<1>7. ASSUME NEW p \in Proc, RenameTmp(p) PROVE AllWhole'
  <2>1. pc[p] = "written" /\ pc'[p] = "answer" /\ file' = tmp /\ Saving(p)
    BY <1>7 DEF RenameTmp, Goto, TypeOK, Saving
  <2>2. tmp = Json(ns[p]) /\ fd[p] = "none"
    BY <2>1 DEF AllWhole, Holds
  <2>3. FileIsWhole'
    BY <2>1, <2>2 DEF FileIsWhole, Json
  <2>4. \A q \in Proc : fd[q] = "none" => fd'[q] = "none"
    BY <1>7 DEF RenameTmp, AfterRename
  <2>5. Holds(p)' /\ Carries(p)'
    BY <2>1, <2>2, <2>4 DEF Holds, Carries, Saving
  <2>6. \A q \in Proc : q # p => pc'[q] = pc[q] /\ fd'[q] = "none"
    <3>1. \A q \in Proc : q # p => pc'[q] = pc[q]
      BY <1>7 DEF RenameTmp, Goto, TypeOK
    <3>2. QED
      BY <3>1, <2>1, <2>4, OthersSaveNothing
  <2>7. QED
    BY <2>1, <2>3, <2>5, <2>6, OthersStandBy
<1>8. ASSUME NEW p \in Proc, SaveFails(p) PROVE AllWhole'
  <2>1. pc'[p] = "answer" /\ file' = file /\ fd'[p] = "none" /\ Saving(p)
    BY <1>8 DEF SaveFails, Goto, TypeOK, Saving
  <2>2. FileIsWhole'
    BY <2>1 DEF AllWhole, FileIsWhole
  <2>3. Holds(p)' /\ Carries(p)'
    BY <2>1 DEF Holds, Carries, Saving
  <2>4. \A q \in Proc : q # p => pc'[q] = pc[q] /\ fd'[q] = "none"
    <3>1. \A q \in Proc : q # p => /\ pc'[q] = pc[q]
                                   /\ fd[q] = "none" => fd'[q] = "none"
      BY <1>8 DEF SaveFails, Goto, AfterDelete, TypeOK
    <3>2. QED
      BY <3>1, <2>1, OthersSaveNothing
  <2>5. QED
    BY <2>1, <2>2, <2>3, <2>4, OthersStandBy
<1>9. QED
  BY <1>1, <1>2, <1>3, <1>4, <1>5, <1>6, <1>7, <1>8 DEF Next

\* The tool begins with a whole file, and nothing on its way to it.
LEMMA InitIsWhole == Init => AllWhole
BY DEF Init, AllWhole, FileIsWhole, Holds, Carries, Saving, Json

\* As long as no two of the processes save at the same time, the file is whole
\* after every step, killed processes and failing host functions included.
THEOREM FileStaysWhole == Spec /\ []OneSaves => []FileIsWhole
<1>1. TypeOK /\ AllWhole /\ OneSaves /\ [Next]_vars => AllWhole'
  BY NextKeepsWhole
<1>2. AllWhole => FileIsWhole
  BY DEF AllWhole
<1>3. QED
  BY <1>1, <1>2, InitIsWhole, MemoryTypeCorrect, PTL DEF Spec

\* Then no key changes but that of a call that saves, unless its read failed.
THEOREM OnlyOwnKeyIsChanged == Spec /\ []OneSaves => OnlyNamedKeyChanges
<1> DEFINE KeyStep == \A k \in Key : file'.map[k] # file.map[k] =>
               \E p \in Proc : /\ pc[p] = "written" /\ file'.map[k] = ns[p][k]
                               /\ k = op[p].key \/ AfterFailedRead(p)
<1>1. TypeOK /\ AllWhole /\ OneSaves /\ [Next]_vars => [KeyStep]_vars
  <2> SUFFICES ASSUME TypeOK, AllWhole, [Next]_vars, file' # file PROVE KeyStep
    BY DEF vars, fileVars
  <2>1. PICK p \in Proc : WriteTmp(p) \/ RenameTmp(p)
    BY DEF Next, Begin, MakeDirFails, Load, OpenTmp, SaveFails, Answer, Kill, End,
           vars, fileVars
  <2>2. ~WriteTmp(p)
    <3>1. pc[p] = "opened" => fd[p] = "tmp"
      BY DEF AllWhole, Holds
    <3>2. QED
      BY <3>1 DEF WriteTmp
  <2>3. pc[p] = "written" /\ file' = tmp /\ tmp = Json(ns[p])
    BY <2>1, <2>2 DEF RenameTmp, AllWhole, Holds
  <2>4. file'.map = ns[p]
    BY <2>3 DEF Json
  <2>5. PICK m \in {file.map, Empty} :
           op[p].action \in {"set", "delete"} /\ ns[p] = Changed(op[p], m)
    BY <2>3 DEF AllWhole, Carries, Saving
  <2>6. m \in Map /\ op[p] \in Operation
    BY <2>3, <2>5, MapsAreMaps, ContentsAreMaps, CallsAreOperations DEF TypeOK
  <2>7. \A k \in Key : k # op[p].key => ns[p][k] = m[k]
    BY <2>5, <2>6, ChangesOwnKey
  <2>8. CASE m = file.map
    BY <2>3, <2>4, <2>7, <2>8
  <2>9. CASE m = Empty
    <3>1. AfterFailedRead(p)
      BY <2>7, <2>9 DEF AfterFailedRead, Empty
    <3>2. QED
      BY <2>3, <2>4, <3>1
  <2>10. QED
    BY <2>5, <2>8, <2>9
<1>2. TypeOK /\ AllWhole /\ OneSaves /\ [Next]_vars => AllWhole'
  BY NextKeepsWhole
<1>3. QED
  BY <1>1, <1>2, InitIsWhole, MemoryTypeCorrect, PTL DEF Spec, OnlyNamedKeyChanges

\* A process that has the directory to itself needs no such assumption.
THEOREM OneProcessKeepsFile ==
  ASSUME NEW p0, Proc = {p0}
  PROVE  Spec => []FileIsWhole /\ OnlyNamedKeyChanges
<1>1. OneSaves
  BY DEF OneSaves
<1>2. []OneSaves
  BY <1>1, PTL
<1>3. QED
  BY <1>2, FileStaysWhole, OnlyOwnKeyIsChanged, PTL

=============================================================================
